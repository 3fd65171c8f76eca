---------------------------- MODULE DeviceProofs ----------------------------
(***************************************************************************)
(* Theorems about Device, for every number of images and blocks, every     *)
(* size and version of theirs, every bound and every set of mishaps: what  *)
(* its variables hold, and, in the second half, what an update does.       *)
(***************************************************************************)
EXTENDS Device, TLAPS

\* What the type invariant needs beside itself: a loop over the blocks of an
\* image has an image to loop over.
FactoryPcs == {"eraseFactory", "copyFactory", "saveMaster", "saveBackup", "eraseMeta"}
LoadPcs    == {"tryLoad", "eraseChip", "programChip", "loaded"}

BootProgress ==
  /\ pc # "reset" => mode = "boot"
  /\ pc \in FactoryPcs => meta \in Images
  /\ pc \notin LoadPcs => turn = 1
  /\ pc \in LoadPcs => /\ ota_info.current_app \in Apps
                       /\ turn <= Len(BootOrder(ota_info.current_app))
  /\ pc \in LoadPcs \ {"tryLoad"} => ota_info.info[Candidate] \in Images

ClientProgress ==
  /\ started => mode = "app"
  /\ ota_state # "IDLE" => started
  /\ ota_state \in {"PREPARING", "ERASING", "DOWNLOADING"} => Upgrade \in Images
  /\ ota_state = "DOWNLOADING" => received < Size[Upgrade]

TypeInv == TypeOK /\ BootProgress /\ ClientProgress

-----------------------------------------------------------------------------
\* The order check_ota tries is a short sequence of applications.
LEMMA BootOrderType ==
  ASSUME NEW a \in Apps
  PROVE  /\ Len(BootOrder(a)) \in 1 .. 3 /\ 1 <= Len(BootOrder(a))
         /\ \A n \in 1 .. Len(BootOrder(a)) : BootOrder(a)[n] \in Apps
BY DEF BootOrder, Apps, FLASH_APP_ID_FACTORY, FLASH_APP_ID_APP1, FLASH_APP_ID_APP2

\* A version number fits the field it is sent in.
LEMMA VersionType ==
  ASSUME NEW info \in Infos
  PROVE  VersionOf(info) \in 0 .. VersionLimit
BY StoreAssumption DEF VersionOf, Infos, Images, NoInfo, ErasedInfo

\* A block written into an area leaves an area.
LEMMA SetBlockType ==
  ASSUME NEW s \in [Apps -> Areas], NEW a \in Apps, NEW b \in Blocks, NEW c \in Cells
  PROVE  SetBlock(s, a, b, c) \in [Apps -> Areas]
BY DEF SetBlock, Areas

LEMMA CellTypes == /\ Blank \in Cells /\ Torn \in Cells
                   /\ Images \subseteq Cells
                   /\ \A c, d \in Cells : Programmed(c, d) \in Cells
                   /\ \A b \in Blocks : TornCells(b) \subseteq Cells
BY DEF Cells, Blank, Torn, TornHead, TornCells, Programmed

LEMMA RecordTypes ==
  /\ ErasedRecord \in OtaInfo
  /\ \A i \in Images : FactoryRecord(i) \in OtaInfo
  /\ \A r \in OtaInfo : TornRecords(r) \subseteq OtaInfo
BY StoreAssumption DEF ErasedRecord, OtaInfo, FactoryRecord, TornRecords, Seqs,
   ErasedSeq, TornSeq, DlStates, Infos, NoInfo, ErasedInfo, Images, Apps, BadApp,
   FLASH_APP_ID_FACTORY, FLASH_APP_ID_APP1, FLASH_APP_ID_APP2

LEMMA NoContextType == NoContext \in SysCtx
BY DEF NoContext, SysCtx, Apps, OtaIds, FLASH_APP_ID_FACTORY, FLASH_OTA_ID_MASTER

LEMMA OtherType == \A id \in OtaIds : Other(id) \in OtaIds
BY DEF OtaIds, Other, FLASH_OTA_ID_MASTER, FLASH_OTA_ID_BACKUP

-----------------------------------------------------------------------------
\* Power cuts leave the types alone.

LEMMA PowerFailsType ==
  ASSUME PowerFails
  PROVE  mode' \in Modes /\ sysctx' \in SysCtx /\ ota_info' \in OtaInfo
BY NoContextType, RecordTypes DEF PowerFails, Modes

LEMMA MishapType ==
  ASSUME BoardTypeOK, NEW k, Mishap(k)
  PROVE  mishaps' \in 0 .. MaxMishaps
BY BoardAssumption DEF BoardTypeOK, Mishap

LEMMA SpoiltType ==
  ASSUME BoardTypeOK, NEW id \in OtaIds, NEW r \in OtaInfo, SpoiltCopy(id, r)
  PROVE  /\ mishaps' \in 0 .. MaxMishaps /\ recs' \in [OtaIds -> OtaInfo]
         /\ pc' = "reset" /\ UNCHANGED <<block, turn>>
<1>1. mishaps' \in 0 .. MaxMishaps BY MishapType DEF SpoiltCopy
<1>2. QED BY <1>1, RecordTypes DEF SpoiltCopy, GoTo, BoardTypeOK

LEMMA StoreCutType ==
  ASSUME BoardTypeOK, NEW id \in OtaIds, NEW r \in OtaInfo, StoreCut(id, r),
         slots' \in [Apps -> Areas]
  PROVE  BoardTypeOK'
<1>1. mishaps' \in 0 .. MaxMishaps
  BY MishapType DEF StoreCut
<1>2. recs' \in [OtaIds -> OtaInfo]
  BY RecordTypes DEF StoreCut, BoardTypeOK
<1>3. QED
  BY <1>1, <1>2, PowerFailsType DEF StoreCut, BoardTypeOK

\* The boot loader leaves the client of an application that does not run alone.
LEMMA ClientIdle ==
  ASSUME TypeInv, UNCHANGED clientVars, mode # "app"
  PROVE  ClientTypeOK' /\ ClientProgress'
BY DEF TypeInv, TypeOK, ClientTypeOK, ClientProgress, clientVars, ramVars, linkVars

\* What a reset of the boot loader leaves of it.
LEMMA BootResetType ==
  ASSUME BootReset
  PROVE  BootTypeOK' /\ BootProgress'
BY StoreAssumption DEF BootReset, LeaveLoops, BootTypeOK, BootProgress, Pcs, Blocks,
   FactoryPcs, LoadPcs

\* The next record of a loop that has not reached the bound is a record.
LEMMA NextRecordType ==
  ASSUME NEW r \in OtaInfo, r.seq < SeqLimit
  PROVE  [r EXCEPT !.seq = @ + 1] \in OtaInfo
BY StoreAssumption DEF OtaInfo, Seqs, TornSeq, ErasedSeq

\* The application whose turn it is.
LEMMA CandidateType ==
  ASSUME TypeInv, pc \in LoadPcs
  PROVE  Candidate \in Apps
BY BootOrderType DEF TypeInv, TypeOK, BootTypeOK, BootProgress, Candidate

\* One round of a loop over blocks.
LEMMA NextBlockType ==
  ASSUME BootTypeOK, NEW n \in Blocks, NEW p \in Pcs, NextBlock(n, p)
  PROVE  BootTypeOK' /\ pc' \in {pc, p} /\ turn' = turn
BY StoreAssumption DEF BootTypeOK, NextBlock, Blocks

\* The loops that copy a factory image.
LEMMA FactoryLoopType ==
  ASSUME TypeInv, pc \in FactoryPcs, NEW p \in FactoryPcs \cup {"reset"},
         NextBlock(Size[meta], p), UNCHANGED <<mode, meta, ota_info>>
  PROVE  BootTypeOK' /\ BootProgress'
<1>1. meta \in Images /\ Size[meta] \in Blocks
  BY StoreAssumption DEF TypeInv, BootProgress
<1>2. p \in Pcs BY DEF FactoryPcs, Pcs
<1>3. BootTypeOK' /\ pc' \in {pc, p} /\ turn' = turn
  BY <1>1, <1>2, NextBlockType DEF TypeInv, TypeOK
<1>4. mode' = "boot" /\ turn' = 1 /\ meta' \in Images /\ pc' \notin LoadPcs
  BY <1>1, <1>3 DEF TypeInv, BootProgress, FactoryPcs, LoadPcs
<1>5. BootProgress' BY <1>4 DEF BootProgress, LoadPcs
<1>6. QED BY <1>3, <1>5

\* After a failure the loop stays inside the order of boot.
LEMMA LoadFailsType ==
  ASSUME TypeInv, pc \in LoadPcs, LoadFails, UNCHANGED <<mode, ota_info>>
  PROVE  BootTypeOK' /\ BootProgress'
<1>1. mode = "boot" /\ ota_info.current_app \in Apps
  BY DEF TypeInv, BootProgress, LoadPcs
<1>2. Len(BootOrder(ota_info.current_app)) \in 1 .. 3 /\ turn \in 1 .. 3
  BY <1>1, BootOrderType DEF TypeInv, TypeOK, BootTypeOK
<1>3. 1 \in Blocks BY StoreAssumption DEF Blocks
<1>4. CASE turn < Len(BootOrder(ota_info.current_app))
  <2>1. pc' = "tryLoad" /\ block' = 1 /\ turn' = turn + 1 BY <1>4 DEF LoadFails
  <2>2. turn' \in 1 .. 3 /\ turn' <= Len(BootOrder(ota_info.current_app))
    <3>1. ASSUME NEW n \in 1 .. 3, NEW t \in 1 .. 3, t < n PROVE t + 1 \in 1 .. 3 /\ t + 1 <= n
      BY <3>1
    <3>2. QED BY <1>2, <1>4, <2>1, <3>1
  <2>3. BootTypeOK' BY <1>3, <2>1, <2>2 DEF BootTypeOK, Pcs
  <2>4. QED BY <1>1, <2>1, <2>2, <2>3 DEF BootProgress, FactoryPcs, LoadPcs
<1>5. CASE ~(turn < Len(BootOrder(ota_info.current_app)))
  BY <1>1, <1>2, <1>3, <1>5 DEF TypeInv, TypeOK, BootTypeOK, BootProgress, LoadFails,
     LeaveLoops, FactoryPcs, LoadPcs, Pcs
<1>6. QED BY <1>4, <1>5

-----------------------------------------------------------------------------
\* The boot loader's steps.

LEMMA BootTypeStep ==
  ASSUME TypeInv, BootNext, UNCHANGED clientVars
  PROVE  TypeInv'
<1> USE DEF TypeInv, TypeOK
<1>1. CASE PowerOn
  <2>1. mode = "off" /\ mode # "app" BY <1>1 DEF PowerOn
  <2>2. BoardTypeOK' BY <1>1 DEF PowerOn, BoardTypeOK, flash, SysCtx, Modes
  <2>3. BootTypeOK' /\ BootProgress'
    BY <1>1 DEF PowerOn, bootVars, BootTypeOK, BootProgress, flash, Candidate,
       FactoryPcs, LoadPcs
  <2>4. QED BY <2>1, <2>2, <2>3, ClientIdle
<1>2. CASE MainStart
  <2>1. mode = "boot" /\ mode # "app" BY <1>2 DEF MainStart
  <2>2. BoardTypeOK' BY <1>2 DEF MainStart, BoardTypeOK, flash, SysCtx, Apps, OtaIds,
          FLASH_APP_ID_FACTORY, FLASH_OTA_ID_MASTER, is_valid_on_chip_app_program
  <2>3. BootTypeOK' /\ BootProgress'
    BY <1>2 DEF MainStart, BootTypeOK, BootProgress, flash, FactoryPcs, LoadPcs,
       GoTo, AfterFactory, Pcs, check_onchip_factory_metadata, Holds
  <2>4. QED BY <2>1, <2>2, <2>3, ClientIdle
<1>3. CASE EraseFactorySector
  <2>1. mode = "boot" /\ mode # "app" /\ meta \in Images /\ Size[meta] \in Blocks
    BY <1>3, StoreAssumption DEF EraseFactorySector, BootProgress, FactoryPcs
  <2>2. slots' \in [Apps -> Areas]
    <3>1. FLASH_APP_ID_FACTORY \in Apps /\ block \in Blocks
      BY DEF Apps, FLASH_APP_ID_FACTORY, BootTypeOK
    <3>2. \A c \in Cells : SetBlock(slots, FLASH_APP_ID_FACTORY, block, c) \in [Apps -> Areas]
      BY <3>1, SetBlockType DEF BoardTypeOK
    <3>3. QED BY <1>3, <3>2, CellTypes DEF EraseFactorySector
  <2>3. CASE UNCHANGED <<mode, sysctx, ota_info, mishaps>> /\ NextBlock(Size[meta], "copyFactory")
    <3>1. BoardTypeOK' BY <1>3, <2>2, <2>3 DEF EraseFactorySector, BoardTypeOK
    <3>2. BootTypeOK' /\ BootProgress'
      BY <1>3, <2>3, FactoryLoopType DEF EraseFactorySector, FactoryPcs
    <3>3. QED BY <2>1, <3>1, <3>2, ClientIdle
  <2>4. CASE Mishap("cut") /\ BootPowerFails
    <3>1. BoardTypeOK'
      BY <1>3, <2>2, <2>4, PowerFailsType, MishapType
      DEF EraseFactorySector, BoardTypeOK, BootPowerFails
    <3>2. QED BY <2>1, <2>4, <3>1, ClientIdle, BootResetType DEF BootPowerFails
  <2>5. QED BY <1>3, <2>3, <2>4 DEF EraseFactorySector
<1>4. CASE CopyFactoryPage
  <2>1. mode = "boot" /\ mode # "app" /\ meta \in Images /\ Size[meta] \in Blocks
    BY <1>4, StoreAssumption DEF CopyFactoryPage, BootProgress, FactoryPcs
  <2>2. slots' \in [Apps -> Areas]
    <3>1. FLASH_APP_ID_FACTORY \in Apps /\ block \in Blocks
      BY DEF Apps, FLASH_APP_ID_FACTORY, BootTypeOK
    <3>2. Programmed(slots[FLASH_APP_ID_FACTORY][block], chip[block]) \in Cells
      BY <3>1, CellTypes DEF BoardTypeOK, Areas
    <3>3. \A c \in Cells : SetBlock(slots, FLASH_APP_ID_FACTORY, block, c) \in [Apps -> Areas]
      BY <3>1, SetBlockType DEF BoardTypeOK
    <3>4. QED BY <1>4, <3>2, <3>3, CellTypes DEF CopyFactoryPage
  <2>3. CASE /\ UNCHANGED <<mode, sysctx, ota_info>>
             /\ mishaps' \in 0 .. MaxMishaps
             /\ \E p \in {"saveMaster", "reset"} : NextBlock(Size[meta], p)
    <3>1. BoardTypeOK' BY <1>4, <2>2, <2>3 DEF CopyFactoryPage, BoardTypeOK
    <3>2. BootTypeOK' /\ BootProgress'
      BY <1>4, <2>3, FactoryLoopType DEF CopyFactoryPage, FactoryPcs
    <3>3. QED BY <2>1, <3>1, <3>2, ClientIdle
  <2>4. CASE Mishap("cut") /\ BootPowerFails
    <3>1. BoardTypeOK'
      BY <1>4, <2>2, <2>4, PowerFailsType, MishapType
      DEF CopyFactoryPage, BoardTypeOK, BootPowerFails
    <3>2. QED BY <2>1, <2>4, <3>1, ClientIdle, BootResetType DEF BootPowerFails
  <2>5. \/ UNCHANGED mishaps
        \/ Mishap("norfault")
        \/ Mishap("cut") /\ BootPowerFails
    BY <1>4 DEF CopyFactoryPage
  <2>6. QED BY <1>4, <2>3, <2>4, <2>5, MishapType DEF CopyFactoryPage, BoardTypeOK
<1>5. CASE SaveMaster
  <2>1. mode = "boot" /\ mode # "app" /\ meta \in Images
    BY <1>5 DEF SaveMaster, BootProgress, FactoryPcs
  <2>2. FactoryRecord(meta) \in OtaInfo BY <2>1, RecordTypes
  <2>3. CASE /\ ota_info' = FactoryRecord(meta)
             /\ sysctx' = [sysctx EXCEPT !.otaid = OlderId]
             /\ \/ /\ recs' = [recs EXCEPT ![FLASH_OTA_ID_MASTER] = FactoryRecord(meta)]
                   /\ GoTo("saveBackup")
                   /\ UNCHANGED mishaps
                \/ SpoiltCopy(FLASH_OTA_ID_MASTER, FactoryRecord(meta))
             /\ UNCHANGED <<slots, chip, meta, mode>>
    <3>1. sysctx' \in SysCtx
      BY <2>3 DEF BoardTypeOK, SysCtx, OlderId, OtaIds, findout_which_ota_info_is_older,
         FLASH_OTA_ID_MASTER, FLASH_OTA_ID_BACKUP
    <3>2. recs' \in [OtaIds -> OtaInfo] /\ mishaps' \in 0 .. MaxMishaps
      BY <2>2, <2>3, SpoiltType DEF BoardTypeOK, OtaIds
    <3>3. BoardTypeOK' BY <2>2, <2>3, <3>1, <3>2 DEF BoardTypeOK
    <3>4. pc' \in {"saveBackup", "reset"} /\ UNCHANGED <<block, turn>>
      BY <2>2, <2>3, SpoiltType DEF GoTo, OtaIds
    <3>5. BootTypeOK' /\ BootProgress'
      BY <1>5, <2>1, <2>3, <3>4 DEF SaveMaster, BootTypeOK, BootProgress, FactoryPcs,
         LoadPcs, Pcs
    <3>6. QED BY <2>1, <3>3, <3>5, ClientIdle
  <2>4. CASE StoreCut(FLASH_OTA_ID_MASTER, FactoryRecord(meta)) /\ BootReset /\ UNCHANGED slots
    <3>1. BoardTypeOK' BY <2>2, <2>4, StoreCutType DEF OtaIds, BoardTypeOK
    <3>2. QED BY <2>1, <2>4, <3>1, ClientIdle, BootResetType
  <2>5. QED BY <1>5, <2>3, <2>4 DEF SaveMaster
<1>6. CASE SaveBackup
  <2>1. mode = "boot" /\ mode # "app" /\ meta \in Images /\ ota_info \in OtaInfo
    BY <1>6 DEF SaveBackup, BootProgress, FactoryPcs, BoardTypeOK
  <2>3. CASE GoTo("eraseMeta") /\ UNCHANGED <<slots, chip, meta, mode, ota_info, mishaps>>
             /\ recs' = [recs EXCEPT ![FLASH_OTA_ID_BACKUP] = ota_info]
             /\ sysctx' = Toggled(sysctx)
    <3>1. BoardTypeOK'
      BY <2>1, <2>3, OtherType DEF BoardTypeOK, SysCtx, OtaIds, Toggled
    <3>2. BootTypeOK' /\ BootProgress'
      BY <1>6, <2>1, <2>3 DEF SaveBackup, BootTypeOK, BootProgress, GoTo, FactoryPcs, LoadPcs, Pcs
    <3>3. QED BY <2>1, <3>1, <3>2, ClientIdle
  <2>4. CASE StoreCut(FLASH_OTA_ID_BACKUP, ota_info) /\ BootReset /\ UNCHANGED slots
    <3>1. BoardTypeOK' BY <2>1, <2>4, StoreCutType DEF OtaIds, BoardTypeOK
    <3>2. QED BY <2>1, <2>4, <3>1, ClientIdle, BootResetType
  <2>5. CASE /\ SpoiltCopy(FLASH_OTA_ID_BACKUP, ota_info)
             /\ UNCHANGED <<slots, chip, meta, mode, sysctx, ota_info>>
    <3>1. /\ mishaps' \in 0 .. MaxMishaps /\ recs' \in [OtaIds -> OtaInfo]
          /\ pc' = "reset" /\ UNCHANGED <<block, turn>>
      BY <2>1, <2>5, SpoiltType DEF OtaIds
    <3>2. BoardTypeOK' BY <2>5, <3>1 DEF BoardTypeOK
    <3>3. BootTypeOK' /\ BootProgress'
      BY <1>6, <2>1, <2>5, <3>1 DEF SaveBackup, BootTypeOK, BootProgress, FactoryPcs,
         LoadPcs, Pcs
    <3>4. QED BY <2>1, <3>2, <3>3, ClientIdle
  <2>6. QED BY <1>6, <2>3, <2>4, <2>5 DEF SaveBackup
<1>7. CASE EraseMeta
  <2>1. mode = "boot" /\ mode # "app" /\ meta \in Images
    BY <1>7 DEF EraseMeta, BootProgress, FactoryPcs
  <2>2. mishaps' \in 0 .. MaxMishaps
    BY <1>7, MishapType DEF EraseMeta, BoardTypeOK
  <2>3. BoardTypeOK'
    BY <1>7, <2>2 DEF EraseMeta, BoardTypeOK, Infos
  <2>4. \E p \in {"reset", "leave", "checkOta"} : GoTo(p)
    BY <1>7 DEF EraseMeta, AfterFactory
  <2>5. BootTypeOK' /\ BootProgress'
    BY <1>7, <2>1, <2>4 DEF EraseMeta, BootTypeOK, BootProgress, GoTo, FactoryPcs,
       LoadPcs, Pcs
  <2>6. QED BY <2>1, <2>3, <2>5, ClientIdle
<1>8. CASE check_ota
  <2>1. mode = "boot" /\ mode # "app" BY <1>8 DEF check_ota
  <2>2. ChosenOldId \in OtaIds /\ Other(ChosenOldId) \in OtaIds
    BY DEF ChosenOldId, OlderId, findout_which_ota_info_is_older, Other, OtaIds,
       FLASH_OTA_ID_MASTER, FLASH_OTA_ID_BACKUP
  <2>3. BoardTypeOK'
    BY <1>8, <2>2 DEF check_ota, BoardTypeOK, SysCtx, flash
  <2>4. CASE GoTo("leave")
    <3>1. BootTypeOK' /\ BootProgress'
      BY <1>8, <2>1, <2>4 DEF check_ota, BootTypeOK, BootProgress, GoTo, FactoryPcs,
         LoadPcs, Pcs
    <3>2. QED BY <2>1, <2>3, <3>1, ClientIdle
  <2>5. CASE GoTo("tryLoad") /\ recs[Other(ChosenOldId)].current_app # BadApp
    <3>1. ota_info'.current_app \in Apps
      BY <1>8, <2>2, <2>5 DEF check_ota, BoardTypeOK, OtaInfo
    <3>2. turn' = 1
      BY <1>8, <2>5 DEF check_ota, BootProgress, LoadPcs, GoTo
    <3>3. \A a \in Apps : 1 <= Len(BootOrder(a)) BY BootOrderType
    <3>4. turn' <= Len(BootOrder(ota_info'.current_app)) BY <3>1, <3>2, <3>3
    <3>5. BootTypeOK' /\ BootProgress'
      BY <1>8, <2>1, <2>5, <3>1, <3>2, <3>4 DEF check_ota, BootTypeOK,
         BootProgress, GoTo, FactoryPcs, LoadPcs, Pcs, flash
    <3>6. QED BY <2>1, <2>3, <3>5, ClientIdle
  <2>6. QED BY <1>8, <2>4, <2>5 DEF check_ota
<1>9. CASE TryLoad
  <2>1. mode = "boot" /\ mode # "app" BY <1>9 DEF TryLoad
  <2>2. BoardTypeOK' BY <1>9 DEF TryLoad, BoardTypeOK, flash
  <2>3. CASE Holds(slots[Candidate], ota_info.info[Candidate]) /\ \E p \in {"eraseChip", "loaded"} : GoTo(p)
    <3>1. BootTypeOK' /\ BootProgress'
      BY <1>9, <2>1, <2>3 DEF TryLoad, BootTypeOK, BootProgress, GoTo, FactoryPcs,
         LoadPcs, Pcs, Candidate, Holds
    <3>2. QED BY <2>1, <2>2, <3>1, ClientIdle
  <2>4. CASE LoadFails
    <3>1. BootTypeOK' /\ BootProgress'
      BY <1>9, <2>4, LoadFailsType DEF TryLoad, LoadPcs
    <3>2. QED BY <2>1, <2>2, <3>1, ClientIdle
  <2>5. QED BY <1>9, <2>3, <2>4 DEF TryLoad
<1>10. CASE EraseChipPage
  <2>1. mode = "boot" /\ mode # "app" BY <1>10 DEF EraseChipPage
  <2>2. block \in Blocks /\ chip' \in Areas
    BY <1>10, CellTypes DEF EraseChipPage, BootTypeOK, BoardTypeOK, Areas
  <2>3. CASE /\ UNCHANGED <<mode, sysctx, ota_info>>
             /\ mishaps' \in 0 .. MaxMishaps
             /\ LoadFails \/ NextBlock(NumBlocks, "programChip")
    <3>1. BoardTypeOK' BY <1>10, <2>2, <2>3 DEF EraseChipPage, BoardTypeOK
    <3>2. CASE LoadFails
      BY <1>10, <2>1, <2>3, <3>1, <3>2, LoadFailsType, ClientIdle DEF EraseChipPage, LoadPcs
    <3>3. CASE NextBlock(NumBlocks, "programChip")
      <4>1. BootTypeOK' /\ BootProgress'
        BY <1>10, <2>1, <2>3, <3>3, StoreAssumption DEF EraseChipPage, BootTypeOK,
           BootProgress, NextBlock, FactoryPcs, LoadPcs, Pcs, Blocks, Candidate
      <4>2. QED BY <2>1, <3>1, <4>1, ClientIdle
    <3>4. QED BY <2>3, <3>2, <3>3
  <2>4. CASE Mishap("chipcut") /\ BootPowerFails
    <3>1. BoardTypeOK'
      BY <1>10, <2>2, <2>4, PowerFailsType, MishapType
      DEF EraseChipPage, BoardTypeOK, BootPowerFails
    <3>2. QED BY <2>1, <2>4, <3>1, ClientIdle, BootResetType DEF BootPowerFails
  <2>5. QED
    BY <1>10, <2>3, <2>4, MishapType DEF EraseChipPage, BoardTypeOK
<1>11. CASE ProgramChipPage
  <2>1. /\ mode = "boot" /\ mode # "app" /\ pc = "programChip"
        /\ Candidate \in Apps /\ ota_info.info[Candidate] \in Images
    BY <1>11, CandidateType DEF ProgramChipPage, BootProgress, LoadPcs
  <2>2. block \in Blocks /\ slots[Candidate][block] \in Cells
        /\ chip[block] \in Cells /\ TornCells(block) \subseteq Cells
    BY <2>1, CellTypes DEF BootTypeOK, BoardTypeOK, Areas
  <2>3. chip' \in Areas
    <3>1. \E c \in {slots[Candidate][block], chip[block]} \cup TornCells(block) :
            chip' = [chip EXCEPT ![block] = c]
      BY <1>11 DEF ProgramChipPage
    <3>2. PICK c \in Cells : chip' = [chip EXCEPT ![block] = c] BY <2>2, <3>1
    <3>3. QED BY <3>2 DEF BoardTypeOK, Areas
  <2>4. CASE /\ UNCHANGED <<mode, sysctx, ota_info, mishaps>>
             /\ NextBlock(BlocksToProgram(ota_info.info[Candidate]), "loaded")
    <3>1. BoardTypeOK' BY <1>11, <2>3, <2>4 DEF ProgramChipPage, BoardTypeOK
    <3>2. BlocksToProgram(ota_info.info[Candidate]) \in Blocks
      BY <2>1, StoreAssumption DEF BlocksToProgram
    <3>3. BootTypeOK' /\ BootProgress'
      BY <2>1, <2>4, <3>2, StoreAssumption DEF BootTypeOK, BootProgress, NextBlock,
         FactoryPcs, LoadPcs, Pcs, Blocks, Candidate
    <3>4. QED BY <2>1, <3>1, <3>3, ClientIdle
  <2>5. CASE /\ UNCHANGED <<mode, sysctx, ota_info>>
             /\ mishaps' \in 0 .. MaxMishaps
             /\ LoadFails
    <3>1. BoardTypeOK' BY <1>11, <2>3, <2>5 DEF ProgramChipPage, BoardTypeOK
    <3>2. QED BY <2>1, <2>5, <3>1, LoadFailsType, ClientIdle DEF LoadPcs
  <2>6. CASE Mishap("chipcut") /\ BootPowerFails
    <3>1. BoardTypeOK'
      BY <1>11, <2>3, <2>6, PowerFailsType, MishapType
      DEF ProgramChipPage, BoardTypeOK, BootPowerFails
    <3>2. QED BY <2>1, <2>6, <3>1, ClientIdle, BootResetType DEF BootPowerFails
  <2>7. QED
    BY <1>11, <2>4, <2>5, <2>6, MishapType DEF ProgramChipPage, BoardTypeOK
<1>12. CASE Loaded
  <2>1. mode = "boot" /\ mode # "app" /\ Candidate \in Apps
    BY <1>12, CandidateType DEF Loaded, LoadPcs
  <2>2. BootedRecord(ota_info, Candidate) \in OtaInfo \/ ota_info.current_app = Candidate
    <3>1. CASE ota_info.current_app # Candidate
      <4>1. ota_info \in OtaInfo /\ ota_info.seq < SeqLimit
        BY <1>12, <3>1 DEF Loaded, BoardTypeOK
      <4>2. [ota_info EXCEPT !.seq = @ + 1] \in OtaInfo BY <4>1, NextRecordType
      <4>3. QED BY <2>1, <4>2 DEF BootedRecord, OtaInfo
    <3>2. QED BY <3>1
  <2>3. CASE StoreCut(sysctx.otaid, BootedRecord(ota_info, Candidate)) /\ BootReset
             /\ UNCHANGED slots /\ ota_info.current_app # Candidate
    <3>1. BoardTypeOK' BY <2>2, <2>3, StoreCutType DEF BoardTypeOK, SysCtx
    <3>2. QED BY <2>1, <2>3, <3>1, ClientIdle, BootResetType
  <2>4. CASE LeaveLoops("leave") /\ UNCHANGED <<slots, chip, meta, mode, mishaps>>
    <3>1. BootTypeOK' /\ BootProgress'
      BY <2>1, <2>4, StoreAssumption DEF LeaveLoops, BootTypeOK, BootProgress, FactoryPcs,
         LoadPcs, Pcs, Blocks
    <3>2. sysctx' \in SysCtx
      BY <1>12, <2>1, <2>4, OtherType DEF Loaded, BoardTypeOK, SysCtx, Toggled, StoreCut,
         BootReset, LeaveLoops
    <3>3. recs' \in [OtaIds -> OtaInfo] /\ ota_info' \in OtaInfo
      BY <1>12, <2>1, <2>2, <2>4 DEF Loaded, BoardTypeOK, flash, Store, BootReset, LeaveLoops
    <3>4. BoardTypeOK' BY <2>4, <3>2, <3>3 DEF BoardTypeOK
    <3>5. QED BY <2>1, <3>1, <3>4, ClientIdle
  <2>5. QED BY <1>12, <2>3, <2>4 DEF Loaded, flash
<1>13. CASE EnterIsp
  <2>1. mode = "boot" /\ mode # "app" BY <1>13 DEF EnterIsp
  <2>2. BoardTypeOK' BY <1>13 DEF EnterIsp, BoardTypeOK, flash, SysCtx, Modes
  <2>3. QED BY <1>13, <2>1, <2>2, ClientIdle, BootResetType DEF EnterIsp
<1>14. CASE Jump
  <2>1. mode = "boot" /\ mode # "app" BY <1>14 DEF Jump
  <2>2. BoardTypeOK' BY <1>14 DEF Jump, BoardTypeOK, flash, SysCtx, Modes
  <2>3. QED BY <1>14, <2>1, <2>2, ClientIdle, BootResetType DEF Jump
<1>15. CASE IspReboot
  <2>1. mode = "isp" /\ mode # "app" BY <1>15 DEF IspReboot
  <2>2. BoardTypeOK' BY <1>15 DEF IspReboot, BoardTypeOK, flash, Modes
  <2>3. BootTypeOK' /\ BootProgress'
    BY <1>15 DEF IspReboot, BootTypeOK, BootProgress, bootVars, FactoryPcs, LoadPcs
  <2>4. QED BY <2>1, <2>2, <2>3, ClientIdle
<1>16. CASE PowerCycleLost
  <2>1. mode = "lost" /\ mode # "app" BY <1>16 DEF PowerCycleLost
  <2>2. BoardTypeOK'
    BY <1>16, PowerFailsType DEF PowerCycleLost, BootPowerFails, BoardTypeOK, flash
  <2>3. QED BY <1>16, <2>1, <2>2, ClientIdle, BootResetType DEF PowerCycleLost, BootPowerFails
<1>17. CASE PowerCutInBoot
  <2>1. mode # "app" BY <1>17 DEF PowerCutInBoot
  <2>2. BoardTypeOK'
    BY <1>17, PowerFailsType, MishapType DEF PowerCutInBoot, BootPowerFails, BoardTypeOK, flash
  <2>3. QED BY <1>17, <2>1, <2>2, ClientIdle, BootResetType DEF PowerCutInBoot, BootPowerFails
<1>18. QED
  BY <1>1, <1>2, <1>3, <1>4, <1>5, <1>6, <1>7, <1>8, <1>9, <1>10, <1>11, <1>12,
     <1>13, <1>14, <1>15, <1>16, <1>17 DEF BootNext, BootSteps

-----------------------------------------------------------------------------
\* The steps of the application and of the world around it.

\* They leave the boot loader, which has not started when they touch what it
\* works with.
LEMMA BootWaits ==
  ASSUME TypeInv, UNCHANGED bootVars,
         mode = "app" \/ mode = "off" \/ UNCHANGED <<mode, meta, ota_info>>
  PROVE  BootTypeOK' /\ BootProgress'
BY DEF TypeInv, TypeOK, BootTypeOK, BootProgress, bootVars, Candidate, FactoryPcs, LoadPcs

\* The link carries packets of the protocol only.
LEMMA SentType ==
  ASSUME NEW S, NEW queue \in Seq(S), NEW packet \in S
  PROVE  Sent(queue, packet) \in Seq(S)
BY DEF Sent

LEMMA ReceivedType ==
  ASSUME NEW S, NEW queue \in Seq(S), queue # <<>>
  PROVE  Head(queue) \in S /\ Tail(queue) \in Seq(S)
OBVIOUS

LEMMA RequestType ==
  ASSUME ClientTypeOK, NEW offset \in 0 .. NumBlocks, NEW info \in Infos,
         request_next_block(offset, info)
  PROVE  to_server' \in Seq(CheckReq \cup DataReq)
<1>1. [type |-> "GET_APP_DATA", version |-> VersionOf(info), offset |-> offset] \in DataReq
  BY VersionType DEF DataReq
<1>2. QED BY <1>1, SentType DEF request_next_block, ClientTypeOK

\* A client that has lost its memory.
LEMMA RamLostType ==
  ASSUME RamLost, to_server' \in Seq(CheckReq \cup DataReq),
         to_app' \in Seq(InfoAns \cup DataAns \cup ShortAns), catalog' \subseteq Images
  PROVE  ClientTypeOK' /\ ClientProgress'
<1>1. NumBlocks \in Nat \ {0} BY StoreAssumption
<1>2. 1 \in 1 .. NumBlocks + 1 /\ 0 \in 0 .. NumBlocks BY <1>1
<1>3. ClientTypeOK'
  BY <1>2 DEF RamLost, ClientTypeOK, OtaStates, Apps, FLASH_APP_ID_FACTORY
<1>4. ClientProgress' BY DEF RamLost, ClientProgress
<1>5. QED BY <1>3, <1>4

\* The context after otaid has been made to name the other copy.
LEMMA ToggledType == \A ctx \in SysCtx : Toggled(ctx) \in SysCtx
BY OtherType DEF SysCtx, Toggled

\* A record written back, whole or not.
LEMMA WriteBackType ==
  ASSUME BoardTypeOK, NEW r \in OtaInfo, WriteBack(r), slots' \in [Apps -> Areas]
  PROVE  BoardTypeOK'
<1>1. recs' \in [OtaIds -> OtaInfo] BY DEF BoardTypeOK, WriteBack, Store
<1>2. sysctx' \in SysCtx BY ToggledType DEF BoardTypeOK, WriteBack
<1>3. QED BY <1>1, <1>2 DEF BoardTypeOK, WriteBack

LEMMA WriteBackCutType ==
  ASSUME BoardTypeOK, NEW r \in OtaInfo, WriteBackCut(r), slots' \in [Apps -> Areas]
  PROVE  BoardTypeOK'
BY StoreCutType DEF WriteBackCut, BoardTypeOK, SysCtx

\* The block a packet programs.
LEMMA ProgramsType ==
  ASSUME TypeInv, Expected, NEW cell \in Cells, Programs(cell)
  PROVE  /\ slots' \in [Apps -> Areas]
         /\ to_app' \in Seq(InfoAns \cup DataAns \cup ShortAns)
         /\ Payload \in Images /\ Landed \in Cells
         /\ Upgrade \in Images /\ Size[Upgrade] \in Blocks
         /\ received \in 0 .. NumBlocks - 1 /\ received < Size[Upgrade]
         /\ mode = "app" /\ started
<1>1. mode = "app" /\ started /\ ota_state = "DOWNLOADING"
  BY DEF Expected, Arrives, Running
<1>2. Upgrade \in Images /\ received < Size[Upgrade]
  BY <1>1 DEF TypeInv, ClientProgress
<1>3. Size[Upgrade] \in Blocks BY <1>2, StoreAssumption
<1>4. received \in 0 .. NumBlocks - 1 /\ received + 1 \in Blocks
  BY <1>2, <1>3, StoreAssumption DEF TypeInv, TypeOK, ClientTypeOK, Blocks
<1>5. appid_to_upgrade \in Apps /\ slots \in [Apps -> Areas]
  BY DEF TypeInv, TypeOK, ClientTypeOK, BoardTypeOK
<1>6. slots' \in [Apps -> Areas]
  BY <1>4, <1>5, SetBlockType DEF Programs
<1>7. /\ Head(to_app) \in InfoAns \cup DataAns \cup ShortAns
      /\ to_app' \in Seq(InfoAns \cup DataAns \cup ShortAns)
  BY ReceivedType DEF Expected, Arrives, Programs, TypeInv, TypeOK, ClientTypeOK
<1>8. Payload \in Images
  BY <1>7 DEF Expected, Arrives, Payload, InfoAns, DataAns, ShortAns
<1>9. Landed \in Cells
  BY <1>4, <1>5, <1>8, CellTypes DEF Landed, Areas
<1>10. QED BY <1>1, <1>2, <1>3, <1>4, <1>6, <1>7, <1>8, <1>9

\* What main starts from.
LEMMA InitStep ==
  ASSUME TypeInv, ota_start, UNCHANGED bootVars
  PROVE  TypeInv'
<1> USE DEF TypeInv, TypeOK
<1>1. mode = "app" /\ ota_state = "IDLE"
  BY DEF ota_start, ota_init, ota_init_cut, ClientProgress
<1>2. BootTypeOK' /\ BootProgress' BY <1>1, BootWaits
<1>3. OlderId \in OtaIds /\ Other(OlderId) \in OtaIds
  BY DEF OlderId, findout_which_ota_info_is_older, Other, OtaIds,
     FLASH_OTA_ID_MASTER, FLASH_OTA_ID_BACKUP
<1> DEFINE newest == recs[Other(OlderId)]
           reset  == [NextRecord(newest) EXCEPT !.dlstate = "IDLE"]
<1>4. newest \in OtaInfo BY <1>3 DEF BoardTypeOK
<1>5. newest.seq < SeqLimit => reset \in OtaInfo
  <2>1. SUFFICES ASSUME newest.seq < SeqLimit PROVE reset \in OtaInfo OBVIOUS
  <2>2. NextRecord(newest) \in OtaInfo BY <1>4, <2>1, NextRecordType DEF NextRecord
  <2>3. QED BY <2>2 DEF OtaInfo, DlStates
<1>6. CASE ota_init
  <2>1. ota_info' \in OtaInfo /\ recs' \in [OtaIds -> OtaInfo]
    BY <1>3, <1>4, <1>5, <1>6 DEF ota_init, BoardTypeOK
  <2>2. sysctx' \in SysCtx
    BY <1>3, <1>6 DEF ota_init, BoardTypeOK, SysCtx
  <2>3. BoardTypeOK' BY <1>6, <2>1, <2>2 DEF ota_init, BoardTypeOK
  <2>4. papp' \in Apps /\ appid_to_upgrade' \in Apps
    BY <1>4, <1>6 DEF ota_init, OtaInfo, Target, Apps, BadApp, FLASH_APP_ID_FACTORY,
       FLASH_APP_ID_APP1, FLASH_APP_ID_APP2
  <2>5. ClientTypeOK' BY <1>6, <2>4 DEF ota_init, ClientTypeOK, linkVars
  <2>6. ClientProgress' BY <1>1, <1>6 DEF ota_init, ClientProgress
  <2>7. QED BY <1>2, <2>3, <2>5, <2>6
<1>7. CASE ota_init_cut
  <2>1. BoardTypeOK'
    BY <1>3, <1>5, <1>7, StoreCutType DEF ota_init_cut, BoardTypeOK
  <2>2. QED BY <1>2, <1>7, <2>1, RamLostType DEF ota_init_cut, ClientTypeOK, linkVars
<1>8. QED BY <1>6, <1>7 DEF ota_start

\* A step that changes nothing of the board but its count of mishaps.
LEMMA BoardUntouched ==
  ASSUME BoardTypeOK, UNCHANGED <<recs, slots, chip, meta, mode, sysctx, ota_info>>,
         mishaps' \in 0 .. MaxMishaps
  PROVE  BoardTypeOK'
BY DEF BoardTypeOK

\* The timer of the client.
LEMMA TimerStep ==
  ASSUME TypeInv, ota_1s_event, UNCHANGED bootVars
  PROVE  TypeInv'
<1> USE DEF TypeInv, TypeOK
<1>1. mode = "app" /\ started
  BY DEF ota_1s_event, ota_1s_event_interval, ota_1s_event_timeout, Running
<1>2. BootTypeOK' /\ BootProgress' BY <1>1, BootWaits
<1>3. mishaps' \in 0 .. MaxMishaps
  BY MishapType DEF ota_1s_event, ota_1s_event_interval, ota_1s_event_timeout,
     boardVars, BoardTypeOK
<1>4. UNCHANGED <<recs, slots, chip, meta, mode, sysctx, ota_info>>
  BY DEF ota_1s_event, ota_1s_event_interval, ota_1s_event_timeout, boardVars, flash
<1>5. BoardTypeOK' BY <1>3, <1>4, BoardUntouched
<1>6. CASE ota_1s_event_interval
  <2>1. ClientTypeOK'
    BY <1>6 DEF ota_1s_event_interval, ClientTypeOK, linkVars, OtaStates
  <2>2. ClientProgress'
    BY <1>1, <1>4, <1>6 DEF ota_1s_event_interval, ClientProgress
  <2>3. QED BY <1>2, <1>5, <2>1, <2>2
<1>7. CASE ota_1s_event_timeout
  <2>1. UNCHANGED <<started, papp, appid_to_upgrade, addr, received, crc_matches,
                    to_app, catalog>>
    BY <1>7 DEF ota_1s_event_timeout
  <2>2. CASE ota_state = "DOWNLOADING"
    <3>1. Upgrade \in Infos /\ received \in 0 .. NumBlocks
      BY <2>2 DEF ClientProgress, ClientTypeOK, Infos
    <3>2. request_next_block(received, Upgrade) /\ UNCHANGED ota_state
      BY <1>7, <2>2 DEF ota_1s_event_timeout
    <3>3. to_server' \in Seq(CheckReq \cup DataReq) BY <3>1, <3>2, RequestType
    <3>4. ClientTypeOK' BY <2>1, <3>2, <3>3 DEF ClientTypeOK
    <3>5. ClientProgress' BY <1>4, <2>1, <3>2 DEF ClientProgress, Upgrade
    <3>6. QED BY <1>2, <1>5, <3>4, <3>5
  <2>3. CASE ota_state # "DOWNLOADING"
    <3>1. ota_state' = "TIMEOUT" /\ UNCHANGED to_server
      BY <1>7, <2>3 DEF ota_1s_event_timeout
    <3>2. ClientTypeOK' BY <2>1, <3>1 DEF ClientTypeOK, OtaStates
    <3>3. ClientProgress' BY <1>1, <1>4, <2>1, <3>1 DEF ClientProgress
    <3>4. QED BY <1>2, <1>5, <3>2, <3>3
  <2>4. QED BY <2>2, <2>3
<1>8. QED BY <1>6, <1>7 DEF ota_1s_event

\* The client's own states.
LEMMA RunStep ==
  ASSUME TypeInv, ota_run, UNCHANGED bootVars
  PROVE  TypeInv'
<1> USE DEF TypeInv, TypeOK
<1>1. mode = "app" /\ started
  BY DEF ota_run, ota_run_timeup, ota_run_timeout, ota_run_preparing,
     ota_run_erase_sector, ota_run_erased, Running
<1>2. BootTypeOK' /\ BootProgress' BY <1>1, BootWaits
<1>3. CASE ota_run_timeup
  <2>1. BoardTypeOK' BY <1>3, BoardUntouched DEF ota_run_timeup, boardVars, BoardTypeOK
  <2>2. [type |-> "GET_LATEST_APP_INFO", version |-> VersionOf(ota_info.info[papp])]
          \in CheckReq \cup DataReq
    <3>1. ota_info.info[papp] \in Infos BY DEF BoardTypeOK, OtaInfo, ClientTypeOK
    <3>2. QED BY <3>1, VersionType DEF CheckReq
  <2>3. to_server' \in Seq(CheckReq \cup DataReq)
    BY <1>3, <2>2, SentType DEF ota_run_timeup, ClientTypeOK
  <2>4. ClientTypeOK' BY <1>3, <2>3 DEF ota_run_timeup, ClientTypeOK, OtaStates
  <2>5. ClientProgress' BY <1>1, <1>3 DEF ota_run_timeup, ClientProgress, boardVars
  <2>6. QED BY <1>2, <2>1, <2>4, <2>5
<1>4. CASE ota_run_timeout
  <2>1. BoardTypeOK' BY <1>4, BoardUntouched DEF ota_run_timeout, boardVars, BoardTypeOK
  <2>2. ClientTypeOK' BY <1>4 DEF ota_run_timeout, ClientTypeOK, OtaStates, linkVars
  <2>3. ClientProgress' BY <1>1, <1>4 DEF ota_run_timeout, ClientProgress, boardVars
  <2>4. QED BY <1>2, <2>1, <2>2, <2>3
<1>5. CASE ota_run_preparing
  <2> DEFINE r == [NextRecord(ota_info) EXCEPT !.dlstate = "ERASING"]
  <2>1. r \in OtaInfo /\ r.info = ota_info.info
    <3>1. ota_info \in OtaInfo /\ ota_info.seq < SeqLimit
      BY <1>5 DEF ota_run_preparing, BoardTypeOK
    <3>2. NextRecord(ota_info) \in OtaInfo BY <3>1, NextRecordType DEF NextRecord
    <3>3. QED BY <3>2 DEF OtaInfo, DlStates, NextRecord
  <2>2. CASE WriteBackCut(r) /\ UNCHANGED <<slots, linkVars, catalog>>
    <3>1. BoardTypeOK' BY <2>1, <2>2, WriteBackCutType DEF BoardTypeOK
    <3>2. QED
      BY <1>2, <2>2, <3>1, RamLostType DEF WriteBackCut, ClientTypeOK, linkVars
  <2>3. CASE /\ WriteBack(r) /\ ota_state' = "ERASING"
             /\ addr' = 1 /\ received' = 0 /\ crc_matches' = FALSE
             /\ UNCHANGED <<slots, started, papp, appid_to_upgrade, linkVars, catalog>>
    <3>1. BoardTypeOK' BY <2>1, <2>3, WriteBackType DEF BoardTypeOK
    <3>2. 1 \in 1 .. NumBlocks + 1 /\ 0 \in 0 .. NumBlocks BY StoreAssumption
    <3>3. ClientTypeOK' BY <2>3, <3>2 DEF ClientTypeOK, OtaStates, linkVars
    <3>4. Upgrade \in Images /\ Upgrade' = Upgrade
      BY <1>5, <2>1, <2>3 DEF ota_run_preparing, ClientProgress, WriteBack, Upgrade
    <3>5. ClientProgress' BY <1>1, <2>3, <3>4 DEF ClientProgress, WriteBack
    <3>6. QED BY <1>2, <3>1, <3>3, <3>5
  <2>4. QED BY <1>5, <2>2, <2>3 DEF ota_run_preparing
<1>6. CASE ota_run_erase_sector
  <2>1. Upgrade \in Images /\ Size[Upgrade] \in Blocks /\ addr <= Size[Upgrade]
    BY <1>6, StoreAssumption DEF ota_run_erase_sector, MoreToErase, ClientProgress
  <2>2. addr \in Blocks /\ addr + 1 \in 1 .. NumBlocks + 1
    BY <2>1, StoreAssumption DEF ClientTypeOK, Blocks
  <2>3. slots' \in [Apps -> Areas]
    BY <1>6, <2>2, SetBlockType, CellTypes
    DEF ota_run_erase_sector, BoardTypeOK, ClientTypeOK
  <2>4. CASE Mishap("cut") /\ PowerFails /\ RamLost
    <3>1. BoardTypeOK'
      BY <1>6, <2>3, <2>4, PowerFailsType, MishapType
      DEF ota_run_erase_sector, BoardTypeOK
    <3>2. QED
      BY <1>2, <1>6, <2>4, <3>1, RamLostType
      DEF ota_run_erase_sector, ClientTypeOK, linkVars
  <2>5. CASE addr' = addr + 1 /\ UNCHANGED <<mode, sysctx, ota_info, mishaps, ota_state,
                  started, papp, appid_to_upgrade, received, crc_matches>>
    <3>1. BoardTypeOK' BY <1>6, <2>3, <2>5 DEF ota_run_erase_sector, BoardTypeOK
    <3>2. ClientTypeOK'
      BY <1>6, <2>2, <2>5 DEF ota_run_erase_sector, ClientTypeOK, linkVars
    <3>3. ClientProgress' BY <2>5 DEF ClientProgress, Upgrade
    <3>4. QED BY <1>2, <3>1, <3>2, <3>3
  <2>6. QED BY <1>6, <2>4, <2>5 DEF ota_run_erase_sector
<1>7. CASE ota_run_erased
  <2> DEFINE r == [NextRecord(ota_info) EXCEPT !.dlstate = "DOWNLOADING"]
  <2>1. r \in OtaInfo /\ r.info = ota_info.info
    <3>1. ota_info \in OtaInfo /\ ota_info.seq < SeqLimit
      BY <1>7 DEF ota_run_erased, BoardTypeOK
    <3>2. NextRecord(ota_info) \in OtaInfo BY <3>1, NextRecordType DEF NextRecord
    <3>3. QED BY <3>2 DEF OtaInfo, DlStates, NextRecord
  <2>2. CASE WriteBackCut(r) /\ UNCHANGED <<slots, linkVars, catalog>>
    <3>1. BoardTypeOK' BY <2>1, <2>2, WriteBackCutType DEF BoardTypeOK
    <3>2. QED
      BY <1>2, <2>2, <3>1, RamLostType DEF WriteBackCut, ClientTypeOK, linkVars
  <2>3. CASE /\ WriteBack(r) /\ ota_state' = "DOWNLOADING"
             /\ addr' = 1 /\ received' = 0 /\ crc_matches' = TRUE
             /\ request_next_block(0, Upgrade)
             /\ UNCHANGED <<slots, started, papp, appid_to_upgrade, to_app, catalog>>
    <3>1. BoardTypeOK' BY <2>1, <2>3, WriteBackType DEF BoardTypeOK
    <3>2. 1 \in 1 .. NumBlocks + 1 /\ 0 \in 0 .. NumBlocks BY StoreAssumption
    <3>3. Upgrade \in Images /\ Upgrade' = Upgrade /\ Size[Upgrade] \in Blocks
      BY <1>7, <2>1, <2>3, StoreAssumption
      DEF ota_run_erased, ClientProgress, WriteBack, Upgrade
    <3>4. to_server' \in Seq(CheckReq \cup DataReq)
      BY <2>3, <3>2, <3>3, RequestType DEF Infos
    <3>5. ClientTypeOK' BY <2>3, <3>2, <3>4 DEF ClientTypeOK, OtaStates
    <3>6. ClientProgress'
      BY <1>1, <2>3, <3>3, StoreAssumption DEF ClientProgress, WriteBack, Blocks
    <3>7. QED BY <1>2, <3>1, <3>5, <3>6
  <2>4. QED BY <1>7, <2>2, <2>3 DEF ota_run_erased
<1>8. QED BY <1>3, <1>4, <1>5, <1>6, <1>7 DEF ota_run

\* The block the client has asked for.
LEMMA BlockStep ==
  ASSUME TypeInv, UNCHANGED bootVars,
         \/ ota_on_app_data_block \/ ota_on_app_data_applied
         \/ ota_on_app_data_crc_error \/ ota_on_app_data_verify_error
         \/ ota_on_app_data_cut
  PROVE  TypeInv'
<1> USE DEF TypeInv, TypeOK
<1>1. Expected
  BY DEF ota_on_app_data_block, ota_on_app_data_applied, ota_on_app_data_crc_error,
     ota_on_app_data_verify_error, ota_on_app_data_cut
<1>2. mode = "app" /\ started BY <1>1 DEF Expected, Arrives, Running
<1>3. BootTypeOK' /\ BootProgress' BY <1>2, BootWaits
<1>4. Landed \in Cells /\ Torn \in Cells
  <2>1. ota_state = "DOWNLOADING" /\ to_app # <<>> /\ Head(to_app).type = "APP_DATA"
    BY <1>1 DEF Expected, Arrives
  <2>2. Head(to_app) \in InfoAns \cup DataAns \cup ShortAns
    BY <2>1, ReceivedType DEF ClientTypeOK
  <2>3. Payload \in Cells
    BY <2>1, <2>2, CellTypes DEF Payload, InfoAns, DataAns, ShortAns
  <2>4. Upgrade \in Images /\ received < Size[Upgrade] BY <2>1 DEF ClientProgress
  <2>5. received + 1 \in Blocks
    BY <2>4, StoreAssumption DEF ClientTypeOK, Blocks
  <2>6. QED
    BY <2>3, <2>5, CellTypes DEF Landed, BoardTypeOK, ClientTypeOK, Areas
<1>5. /\ slots' \in [Apps -> Areas]
      /\ to_app' \in Seq(InfoAns \cup DataAns \cup ShortAns)
      /\ Upgrade \in Images /\ Size[Upgrade] \in Blocks
      /\ received \in 0 .. NumBlocks - 1 /\ received < Size[Upgrade]
  BY <1>1, <1>4, ProgramsType
  DEF ota_on_app_data_block, ota_on_app_data_applied, ota_on_app_data_crc_error,
      ota_on_app_data_verify_error, ota_on_app_data_cut
<1>6. received + 1 \in 0 .. NumBlocks BY <1>5, StoreAssumption
<1>7. CrcNow \in BOOLEAN BY DEF CrcNow, ClientTypeOK
<1>8. CASE ota_on_app_data_block
  <2>1. BoardTypeOK' BY <1>5, <1>8 DEF ota_on_app_data_block, BoardTypeOK
  <2>2. to_server' \in Seq(CheckReq \cup DataReq)
    BY <1>5, <1>6, <1>8, RequestType DEF ota_on_app_data_block, Infos
  <2>3. ClientTypeOK'
    BY <1>5, <1>6, <1>7, <1>8, <2>2 DEF ota_on_app_data_block, ClientTypeOK
  <2>4. received' < Size[Upgrade] /\ Upgrade' = Upgrade
    BY <1>5, <1>8, StoreAssumption DEF ota_on_app_data_block, IsLast, Upgrade, Blocks
  <2>5. ClientProgress'
    BY <1>2, <1>5, <1>8, <2>4 DEF ota_on_app_data_block, ClientProgress
  <2>6. QED BY <1>3, <2>1, <2>3, <2>5
<1>9. CASE ota_on_app_data_applied
  <2>1. Applied \in OtaInfo
    <3>1. ota_info \in OtaInfo /\ ota_info.seq < SeqLimit
      BY <1>9 DEF ota_on_app_data_applied, BoardTypeOK
    <3>2. NextRecord(ota_info) \in OtaInfo BY <3>1, NextRecordType DEF NextRecord
    <3>3. QED BY <3>2 DEF Applied, OtaInfo, DlStates, ClientTypeOK
  <2>2. CASE WriteBackCut(Applied)
    <3>1. BoardTypeOK' BY <1>5, <2>1, <2>2, WriteBackCutType
    <3>2. QED
      BY <1>3, <1>5, <1>9, <2>2, <3>1, RamLostType
      DEF WriteBackCut, ota_on_app_data_applied, ClientTypeOK
  <2>3. CASE /\ WriteBack(Applied) /\ ota_state' = "APPLYING"
             /\ received' = 0 /\ crc_matches' = FALSE
             /\ UNCHANGED <<started, papp, appid_to_upgrade, addr>>
    <3>1. BoardTypeOK' BY <1>5, <2>1, <2>3, WriteBackType
    <3>2. 0 \in 0 .. NumBlocks BY StoreAssumption
    <3>3. ClientTypeOK'
      BY <1>5, <1>9, <2>3, <3>2 DEF ota_on_app_data_applied, ClientTypeOK, OtaStates
    <3>4. ClientProgress' BY <1>2, <2>3 DEF ClientProgress, WriteBack
    <3>5. QED BY <1>3, <3>1, <3>3, <3>4
  <2>4. QED BY <1>9, <2>2, <2>3 DEF ota_on_app_data_applied
<1>10. CASE ota_on_app_data_crc_error
  <2>1. BoardTypeOK'
    BY <1>5, <1>10 DEF ota_on_app_data_crc_error, EntersError, BoardTypeOK
  <2>2. ClientTypeOK'
    BY <1>5, <1>6, <1>7, <1>10
    DEF ota_on_app_data_crc_error, EntersError, ClientTypeOK, OtaStates
  <2>3. ClientProgress'
    BY <1>2, <1>10 DEF ota_on_app_data_crc_error, EntersError, ClientProgress
  <2>4. QED BY <1>3, <2>1, <2>2, <2>3
<1>11. CASE ota_on_app_data_verify_error
  <2>1. mishaps' \in 0 .. MaxMishaps
    BY <1>11, MishapType DEF ota_on_app_data_verify_error, BoardTypeOK
  <2>2. BoardTypeOK'
    BY <1>5, <1>11, <2>1 DEF ota_on_app_data_verify_error, EntersError, BoardTypeOK
  <2>3. ClientTypeOK'
    BY <1>5, <1>11
    DEF ota_on_app_data_verify_error, EntersError, ClientTypeOK, OtaStates
  <2>4. ClientProgress'
    BY <1>2, <1>11 DEF ota_on_app_data_verify_error, EntersError, ClientProgress
  <2>5. QED BY <1>3, <2>2, <2>3, <2>4
<1>12. CASE ota_on_app_data_cut
  <2>1. BoardTypeOK'
    BY <1>5, <1>12, PowerFailsType, MishapType DEF ota_on_app_data_cut, BoardTypeOK
  <2>2. QED
    BY <1>3, <1>5, <1>12, <2>1, RamLostType DEF ota_on_app_data_cut, ClientTypeOK
<1>13. QED BY <1>8, <1>9, <1>10, <1>11, <1>12

\* The packets the application receives.
LEMMA PacketStep ==
  ASSUME TypeInv, isp_handle, UNCHANGED bootVars
  PROVE  TypeInv'
<1> USE DEF TypeInv, TypeOK
<1>1. CASE ota_on_latest_app_info
  <2>1. /\ mode = "app" /\ started /\ to_app # <<>>
        /\ Head(to_app).type = "LATEST_APP_INFO"
    BY <1>1 DEF ota_on_latest_app_info, Arrives, Running
  <2>2. BootTypeOK' /\ BootProgress' BY <2>1, BootWaits
  <2>3. /\ Head(to_app) \in InfoAns \cup DataAns \cup ShortAns
        /\ to_app' \in Seq(InfoAns \cup DataAns \cup ShortAns)
    BY <1>1, <2>1, ReceivedType DEF ota_on_latest_app_info, ClientTypeOK
  <2>4. Head(to_app).info \in Images \cup {NoInfo}
    BY <2>1, <2>3 DEF InfoAns, DataAns, ShortAns
  <2>5. /\ ota_info \in OtaInfo /\ papp \in Apps /\ appid_to_upgrade \in Apps
        /\ VersionOf(ota_info.info[papp]) \in Nat
    BY VersionType, StoreAssumption DEF BoardTypeOK, ClientTypeOK, OtaInfo
  <2>6. IsNewer(Head(to_app).info) => Head(to_app).info \in Images
    BY <2>4, <2>5, StoreAssumption DEF IsNewer, VersionOf, NoInfo, ErasedInfo
  <2>7. CASE IsNewer(Head(to_app).info)
    <3>1. /\ ota_info' = [ota_info EXCEPT !.info[appid_to_upgrade] = Head(to_app).info]
          /\ ota_state' = "PREPARING"
      BY <1>1, <2>7 DEF ota_on_latest_app_info
    <3>2. ota_info' \in OtaInfo /\ Upgrade' \in Images
      BY <1>1, <2>5, <2>6, <2>7, <3>1
      DEF ota_on_latest_app_info, OtaInfo, Infos, Upgrade
    <3>3. BoardTypeOK'
      BY <1>1, <3>2 DEF ota_on_latest_app_info, BoardTypeOK, flash
    <3>4. ClientTypeOK'
      BY <1>1, <2>3, <3>1 DEF ota_on_latest_app_info, ClientTypeOK, OtaStates
    <3>5. ClientProgress'
      BY <1>1, <2>1, <3>1, <3>2 DEF ota_on_latest_app_info, ClientProgress
    <3>6. QED BY <2>2, <3>3, <3>4, <3>5
  <2>8. CASE ~IsNewer(Head(to_app).info)
    <3>1. ota_state' = "IDLE" /\ UNCHANGED ota_info
      BY <1>1, <2>8 DEF ota_on_latest_app_info
    <3>2. BoardTypeOK'
      BY <1>1, <3>1 DEF ota_on_latest_app_info, BoardTypeOK, flash
    <3>3. ClientTypeOK'
      BY <1>1, <2>3, <3>1 DEF ota_on_latest_app_info, ClientTypeOK, OtaStates
    <3>4. ClientProgress'
      BY <1>1, <2>1, <3>1 DEF ota_on_latest_app_info, ClientProgress
    <3>5. QED BY <2>2, <3>2, <3>3, <3>4
  <2>9. QED BY <2>7, <2>8
<1>2. CASE ota_on_app_data_unexpected
  <2>1. mode = "app" /\ started /\ to_app # <<>>
    BY <1>2 DEF ota_on_app_data_unexpected, Arrives, Running
  <2>2. BootTypeOK' /\ BootProgress' BY <2>1, BootWaits
  <2>3. to_app' \in Seq(InfoAns \cup DataAns \cup ShortAns)
    BY <1>2, <2>1, ReceivedType DEF ota_on_app_data_unexpected, ClientTypeOK
  <2>4. BoardTypeOK'
    BY <1>2 DEF ota_on_app_data_unexpected, EntersError, BoardTypeOK
  <2>5. ClientTypeOK' /\ ClientProgress'
    BY <1>2, <2>1, <2>3 DEF ota_on_app_data_unexpected, EntersError, ClientTypeOK,
       ClientProgress, OtaStates
  <2>6. QED BY <2>2, <2>4, <2>5
<1>3. CASE DropPacket
  <2>1. BootTypeOK' /\ BootProgress'
    BY <1>3, BootWaits DEF DropPacket, boardVars
  <2>2. to_app' \in Seq(InfoAns \cup DataAns \cup ShortAns)
    BY <1>3, ReceivedType DEF DropPacket, ClientTypeOK
  <2>3. BoardTypeOK' BY <1>3 DEF DropPacket, BoardTypeOK, boardVars
  <2>4. ClientTypeOK' BY <1>3, <2>2 DEF DropPacket, ClientTypeOK, ramVars
  <2>5. ClientProgress'
    BY <1>3 DEF DropPacket, ClientProgress, ramVars, boardVars, Upgrade
  <2>6. QED BY <2>1, <2>3, <2>4, <2>5
<1>4. QED
  BY <1>1, <1>2, <1>3, BlockStep DEF isp_handle, ota_on_app_data

\* The server, its operator, and packets that are lost.
LEMMA LinkStep ==
  ASSUME TypeInv, ServerSteps \/ OperatorEdits \/ PacketLost, UNCHANGED bootVars
  PROVE  TypeInv'
<1> USE DEF TypeInv, TypeOK
<1>1. UNCHANGED <<flash, mode, sysctx, ota_info, ramVars>>
  BY DEF ServerSteps, ServerAnswersCheck, ServerAnswersData, OperatorEdits, PacketLost
<1>2. mishaps' \in 0 .. MaxMishaps
  BY MishapType DEF ServerSteps, ServerAnswersCheck, ServerAnswersData, OperatorEdits,
     PacketLost, BoardTypeOK
<1>3. BoardTypeOK' BY <1>1, <1>2, BoardUntouched DEF flash
<1>4. BootTypeOK' /\ BootProgress' BY <1>1, BootWaits DEF flash
<1>5. ClientProgress' BY <1>1 DEF ClientProgress, ramVars, Upgrade
<1>6. /\ to_server \in Seq(CheckReq \cup DataReq)
      /\ to_app \in Seq(InfoAns \cup DataAns \cup ShortAns)
  BY DEF ClientTypeOK
<1>7. CASE ServerAnswersCheck
  <2>1. to_server' \in Seq(CheckReq \cup DataReq)
    BY <1>6, <1>7, ReceivedType DEF ServerAnswersCheck
  <2>2. \E info \in Images \cup {NoInfo} :
          to_app' = Sent(to_app, [type |-> "LATEST_APP_INFO", info |-> info])
    BY <1>7 DEF ServerAnswersCheck, Offered, ClientTypeOK
  <2>3. to_app' \in Seq(InfoAns \cup DataAns \cup ShortAns)
    BY <1>6, <2>2, SentType DEF InfoAns
  <2>4. ClientTypeOK' BY <1>1, <1>7, <2>1, <2>3 DEF ServerAnswersCheck, ClientTypeOK, ramVars
  <2>5. QED BY <1>3, <1>4, <1>5, <2>4
<1>8. CASE ServerAnswersData
  <2>1. to_server' \in Seq(CheckReq \cup DataReq)
    BY <1>6, <1>8, ReceivedType DEF ServerAnswersData
  <2>2. Head(to_server).offset \in 0 .. NumBlocks
    BY <1>6, <1>8, ReceivedType DEF ServerAnswersData, CheckReq, DataReq
  <2>3. [type |-> "APP_DATA_REFUSED"] \in ShortAns BY DEF ShortAns
  <2>4. \A i \in catalog : [type |-> "APP_DATA", image |-> i,
                            offset |-> Head(to_server).offset] \in DataAns
    BY <2>2 DEF DataAns, ClientTypeOK
  <2>5. \E p \in DataAns \cup ShortAns : to_app' = Sent(to_app, p)
    BY <1>8, <2>3, <2>4 DEF ServerAnswersData
  <2>6. to_app' \in Seq(InfoAns \cup DataAns \cup ShortAns)
    BY <1>6, <2>5, SentType
  <2>7. ClientTypeOK' BY <1>1, <1>8, <2>1, <2>6 DEF ServerAnswersData, ClientTypeOK, ramVars
  <2>8. QED BY <1>3, <1>4, <1>5, <2>7
<1>9. CASE OperatorEdits
  <2>1. catalog' \subseteq Images BY <1>9 DEF OperatorEdits, ClientTypeOK
  <2>2. ClientTypeOK' BY <1>1, <1>9, <2>1 DEF OperatorEdits, ClientTypeOK, ramVars, linkVars
  <2>3. QED BY <1>3, <1>4, <1>5, <2>2
<1>10. CASE PacketLost
  <2>1. /\ to_server' \in Seq(CheckReq \cup DataReq)
        /\ to_app' \in Seq(InfoAns \cup DataAns \cup ShortAns)
    BY <1>6, <1>10, ReceivedType DEF PacketLost
  <2>2. ClientTypeOK' BY <1>1, <1>10, <2>1 DEF PacketLost, ClientTypeOK, ramVars
  <2>3. QED BY <1>3, <1>4, <1>5, <2>2
<1>11. QED BY <1>7, <1>8, <1>9, <1>10 DEF ServerSteps

\* Resets and power cuts of a running application, and the production tool.
LEMMA ResetStep ==
  ASSUME TypeInv, UNCHANGED bootVars,
         \/ AppReset \/ PowerCutInApp \/ PowerCycle
         \/ Reflash /\ UNCHANGED clientVars
  PROVE  TypeInv'
<1> USE DEF TypeInv, TypeOK
<1>1. BootTypeOK' /\ BootProgress'
  BY BootWaits DEF AppReset, PowerCutInApp, PowerCycle, Running, Reflash
<1>2. mishaps' \in 0 .. MaxMishaps
  BY MishapType DEF AppReset, PowerCutInApp, PowerCycle, Reflash, BoardTypeOK
<1>3. CASE AppReset
  <2>1. BoardTypeOK' BY <1>2, <1>3 DEF AppReset, BoardTypeOK, flash, Modes, SysCtx
  <2>2. QED BY <1>1, <1>3, <2>1, RamLostType DEF AppReset, ClientTypeOK, linkVars
<1>4. CASE PowerCutInApp
  <2>1. BoardTypeOK' BY <1>2, <1>4, PowerFailsType DEF PowerCutInApp, BoardTypeOK, flash
  <2>2. QED BY <1>1, <1>4, <2>1, RamLostType DEF PowerCutInApp, ClientTypeOK, linkVars
<1>5. CASE PowerCycle
  <2>1. BoardTypeOK' BY <1>2, <1>5, PowerFailsType DEF PowerCycle, BoardTypeOK, flash
  <2>2. QED BY <1>1, <1>5, <2>1, RamLostType DEF PowerCycle, ClientTypeOK, linkVars
<1>6. CASE Reflash /\ UNCHANGED clientVars
  <2>1. chip' \in Areas /\ meta' \in Infos
    BY <1>6 DEF Reflash, AreaOf, Areas, Cells, Infos
  <2>2. BoardTypeOK' BY <1>2, <1>6, <2>1 DEF Reflash, BoardTypeOK
  <2>3. mode # "app" BY <1>6 DEF Reflash
  <2>4. QED BY <1>1, <1>6, <2>2, <2>3, ClientIdle
<1>7. QED BY <1>3, <1>4, <1>5, <1>6

-----------------------------------------------------------------------------
\* A board as production delivers it.
LEMMA TypeInit == Init => TypeInv
<1> SUFFICES ASSUME Init PROVE TypeInv OBVIOUS
<1>1. NumBlocks \in Nat \ {0} BY StoreAssumption
<1>2. 1 \in Blocks /\ 1 \in 1 .. NumBlocks + 1 /\ 0 \in 0 .. NumBlocks
  BY <1>1 DEF Blocks
<1>3. BlankArea \in Areas /\ \A i \in Images : AreaOf(i) \in Areas
  BY DEF BlankArea, AreaOf, Areas, Cells
<1>4. 0 \in 0 .. MaxMishaps BY BoardAssumption
<1>5. BoardTypeOK
  BY <1>3, <1>4, RecordTypes, NoContextType DEF Init, BoardInit, BoardTypeOK, Infos, Modes
<1>6. BootTypeOK BY <1>2 DEF Init, BootIdle, BootTypeOK, Pcs
<1>7. ClientTypeOK
  <2>1. RamInit /\ to_server = <<>> /\ to_app = <<>> /\ catalog \subseteq Images
    BY DEF Init, ClientInit
  <2>2. to_server \in Seq(CheckReq \cup DataReq)
    BY <2>1
  <2>3. to_app \in Seq(InfoAns \cup DataAns \cup ShortAns)
    BY <2>1
  <2>4. QED
    BY <1>2, <2>1, <2>2, <2>3 DEF RamInit, ClientTypeOK, OtaStates, Apps, FLASH_APP_ID_FACTORY
<1>8. BootProgress
  BY DEF Init, BootIdle, BootProgress, FactoryPcs, LoadPcs
<1>9. ClientProgress BY DEF Init, ClientInit, RamInit, ClientProgress
<1>10. QED BY <1>5, <1>6, <1>7, <1>8, <1>9 DEF TypeInv, TypeOK

\* No step of the boot loader, the application, the link, the server or the
\* world leaves the types; nor does standing still.
LEMMA TypeStep == TypeInv /\ [Next]_vars => TypeInv'
<1> SUFFICES ASSUME TypeInv, [Next]_vars PROVE TypeInv' OBVIOUS
<1>1. CASE BootNext /\ UNCHANGED clientVars BY <1>1, BootTypeStep
<1>2. CASE ClientNext /\ UNCHANGED bootVars
  BY <1>2, InitStep, TimerStep, RunStep, PacketStep, LinkStep, ResetStep DEF ClientNext
<1>3. CASE Reflash /\ UNCHANGED <<bootVars, clientVars>> BY <1>3, ResetStep
<1>4. CASE UNCHANGED vars
  <2>1. BoardTypeOK' BY <1>4 DEF vars, boardVars, TypeInv, TypeOK, BoardTypeOK
  <2>2. BootTypeOK' /\ BootProgress' BY <1>4, BootWaits DEF vars, boardVars
  <2>3. ClientTypeOK'
    BY <1>4 DEF vars, clientVars, ramVars, linkVars, TypeInv, TypeOK, ClientTypeOK
  <2>4. ClientProgress'
    BY <1>4 DEF vars, boardVars, clientVars, ramVars, TypeInv, ClientProgress, Upgrade
  <2>5. QED BY <2>1, <2>2, <2>3, <2>4 DEF TypeInv, TypeOK
<1>5. QED BY <1>1, <1>2, <1>3, <1>4 DEF Next

\* Whatever goes wrong, in whatever order: the copy and load loops stay inside
\* the areas, the boot order is never run past its end, the client downloads
\* only a real image and never past its last block, and the memories hold only
\* what the programs can read back.
THEOREM TypeCorrect == Spec => []TypeOK
<1>1. TypeInv => TypeOK BY DEF TypeInv
<1>2. QED BY <1>1, TypeInit, TypeStep, PTL DEF Spec

-----------------------------------------------------------------------------
(***************************************************************************)
(* What an update, a power cut or a restart may never do to the board, for *)
(* every number of images and blocks and every bound.  The invariants come *)
(* in four layers, each resting on the one before:                         *)
(*   one    which copy of the record is in charge           (any mishap);  *)
(*   two    what is applied is whole and takes charge       (any mishap);  *)
(*   three  the applications in charge are whole            (no record     *)
(*          torn while it is programmed);                                  *)
(*   four   what the chip runs is the one the record names  (no failure of *)
(*          the on-chip flash either).                                     *)
(***************************************************************************)

-----------------------------------------------------------------------------
\* Layer one: who holds the record in charge.

\* A record without a current application was erased, or its program was cut
\* before that field: none of what follows the field was programmed.
BadIsErased(r) ==
  r.current_app = BadApp => /\ r.dlstate = "INVALID"
                            /\ r.info = [a \in Apps |-> ErasedInfo]

RecordsMarked == \A id \in OtaIds : BadIsErased(recs[id])

\* The factory loops run only for an image that is there; the load loops work
\* with the record in charge and would write over the other copy.
BootOwns ==
  /\ pc \in FactoryPcs => FactoryPending
  /\ pc = "saveBackup" => ota_info = FactoryRecord(meta)
  /\ pc \in LoadPcs => sysctx.otaid = ChosenOldId /\ ota_info = ChosenRecord

\* So does the client, but for the announced image in its RAM copy.
ClientOwns ==
  /\ sysctx.otaid = ChosenOldId
  /\ ota_info.current_app \in Apps
  /\ ota_info.current_app = ChosenRecord.current_app
  /\ ota_info.seq = ChosenRecord.seq
  /\ appid_to_upgrade # FLASH_APP_ID_FACTORY
  /\ \A a \in Apps \ {appid_to_upgrade} : ota_info.info[a] = ChosenRecord.info[a]
  /\ ota_state # "APPLYING" => /\ papp = ota_info.current_app
                               /\ appid_to_upgrade # papp

\* Or it works with an erased record: nothing is newer than the version it
\* reads there, so that it never gets past its check.
ClientStuck ==
  /\ ota_info.info[papp] = ErasedInfo
  /\ ota_state \in {"IDLE", "TIMEUP", "CHECKING", "TIMEOUT"}

ClientCharge == Running => ClientOwns \/ ClientStuck

ChargeInv == TypeInv /\ RecordsMarked /\ BootOwns /\ ClientCharge

-----------------------------------------------------------------------------
\* The rule by which a copy comes to be in charge.

LEMMA OldIdType ==
  /\ OlderId \in OtaIds /\ Other(OlderId) \in OtaIds
  /\ ChosenOldId \in OtaIds /\ Other(ChosenOldId) \in OtaIds
  /\ ChosenOldId # Other(ChosenOldId)
  /\ \A id \in OtaIds : Other(id) \in OtaIds /\ Other(Other(id)) = id /\ Other(id) # id
BY DEF ChosenOldId, OlderId, findout_which_ota_info_is_older, Other, OtaIds,
   FLASH_OTA_ID_MASTER, FLASH_OTA_ID_BACKUP

\* A record numbered one above the other copy takes charge as it is written.
LEMMA RewriteTakesCharge ==
  ASSUME recs \in [OtaIds -> OtaInfo], NEW id \in OtaIds, NEW r \in OtaInfo,
         r.current_app # BadApp, r.seq = recs[Other(id)].seq + 1, r.seq <= SeqLimit,
         recs' = [recs EXCEPT ![id] = r]
  PROVE  ChosenOldId' = Other(id) /\ ChosenRecord' = r
<1>1. recs'[id] = r /\ recs'[Other(id)] = recs[Other(id)] BY OldIdType
<1>2. recs[Other(id)].seq \in Nat /\ r.seq # ErasedSeq
  BY OldIdType, StoreAssumption DEF OtaInfo, Seqs, ErasedSeq
<1>3. OlderId' = Other(id)
  BY <1>1, <1>2, StoreAssumption DEF OlderId, findout_which_ota_info_is_older, Other,
     OtaIds, FLASH_OTA_ID_MASTER, FLASH_OTA_ID_BACKUP, ErasedSeq
<1>4. Other(OlderId') = id BY <1>3, OldIdType
<1>5. ChosenOldId' = Other(id) BY <1>1, <1>3, <1>4 DEF ChosenOldId
<1>6. QED BY <1>1, <1>5, OldIdType DEF ChosenRecord

\* The copy in charge stays it when the other one is erased.
LEMMA EraseKeepsCharge ==
  ASSUME recs \in [OtaIds -> OtaInfo], ChosenRecord.current_app # BadApp,
         recs' = [recs EXCEPT ![ChosenOldId] = ErasedRecord]
  PROVE  ChosenRecord' = ChosenRecord
<1> DEFINE id == ChosenOldId
<1>1. id \in OtaIds /\ recs'[id] = ErasedRecord /\ recs'[Other(id)] = recs[Other(id)]
  BY OldIdType
<1>2. ErasedRecord.seq = ErasedSeq /\ ErasedRecord.current_app = BadApp
  BY DEF ErasedRecord
<1>3. recs[Other(id)].seq \in 0 .. ErasedSeq BY <1>1, OldIdType DEF OtaInfo, Seqs
<1>4. OlderId' = FLASH_OTA_ID_MASTER
  BY <1>1, <1>2, <1>3, StoreAssumption DEF OlderId, findout_which_ota_info_is_older,
     Other, OtaIds, FLASH_OTA_ID_MASTER, FLASH_OTA_ID_BACKUP, ErasedSeq
<1>5. ChosenOldId' = id
  <2>1. CASE id = FLASH_OTA_ID_MASTER
    BY <1>1, <1>4, <2>1 DEF ChosenOldId, ChosenRecord
  <2>2. CASE id = FLASH_OTA_ID_BACKUP
    <3>1. Other(OlderId') = id
      BY <1>4, <2>2 DEF Other, FLASH_OTA_ID_MASTER, FLASH_OTA_ID_BACKUP
    <3>2. QED BY <1>1, <1>2, <3>1 DEF ChosenOldId
  <2>3. QED BY <1>1, <2>1, <2>2 DEF OtaIds
<1>6. QED BY <1>1, <1>5 DEF ChosenRecord

\* The rule depends on the records alone.
LEMMA ChargeOfRecords ==
  ASSUME UNCHANGED recs
  PROVE  /\ ChosenOldId' = ChosenOldId /\ ChosenRecord' = ChosenRecord
         /\ OlderId' = OlderId /\ CurrentImage' = CurrentImage
         /\ RecordsMarked => RecordsMarked'
BY DEF ChosenOldId, ChosenRecord, OlderId, CurrentImage, RecordsMarked, BadIsErased

\* What is left of a record with a current application is marked.
LEMMA TornIsMarked ==
  ASSUME NEW r, r.current_app # BadApp
  PROVE  /\ BadIsErased(r) /\ BadIsErased(ErasedRecord)
         /\ \A t \in TornRecords(r) : BadIsErased(t)
<1>1. BadIsErased(r) /\ BadIsErased(ErasedRecord) BY DEF BadIsErased, ErasedRecord
<1>2. ASSUME NEW n \in 0 .. 5
      PROVE  BadIsErased(
        [seq         |-> IF n = 0 THEN TornSeq ELSE r.seq,
         current_app |-> IF n >= 2 THEN r.current_app ELSE BadApp,
         dlstate     |-> IF n >= 3 THEN r.dlstate ELSE "INVALID",
         info        |-> [a \in Apps |-> IF n >= a + 4 THEN r.info[a] ELSE ErasedInfo]])
  BY DEF BadIsErased, Apps, FLASH_APP_ID_FACTORY, FLASH_APP_ID_APP1, FLASH_APP_ID_APP2
<1>3. QED BY <1>1, <1>2 DEF TornRecords

\* A copy that is written, whole or not, is marked.
LEMMA WriteIsMarked ==
  ASSUME RecordsMarked, recs \in [OtaIds -> OtaInfo], NEW id \in OtaIds, NEW r,
         r.current_app # BadApp,
         StoreCut(id, r) \/ SpoiltCopy(id, r) \/ recs' = [recs EXCEPT ![id] = r]
  PROVE  RecordsMarked'
<1>1. \E t \in {r, ErasedRecord} \cup TornRecords(r) : recs' = [recs EXCEPT ![id] = t]
  BY DEF StoreCut, SpoiltCopy
<1>2. PICK t \in {r, ErasedRecord} \cup TornRecords(r) : recs' = [recs EXCEPT ![id] = t]
  BY <1>1
<1>3. BadIsErased(t) BY TornIsMarked
<1>4. QED BY <1>2, <1>3 DEF RecordsMarked

-----------------------------------------------------------------------------
\* Layer one, the boot loader's steps.

LEMMA PendingOf ==
  ASSUME UNCHANGED <<chip, meta>>
  PROVE  FactoryPending' = FactoryPending
BY DEF FactoryPending, check_onchip_factory_metadata, Holds

\* No application runs while the boot loader works, nor after its step.
LEMMA BootNotRunning ==
  ASSUME TypeInv, BootNext, UNCHANGED clientVars
  PROVE  mode # "app" /\ started = FALSE /\ ~Running' /\ started' = FALSE
<1>1. mode # "app"
  BY DEF BootNext, PowerOn, BootSteps, IspReboot, PowerCycleLost, PowerCutInBoot,
     MainStart, EraseFactorySector, CopyFactoryPage, SaveMaster, SaveBackup, EraseMeta,
     check_ota, TryLoad, EraseChipPage, ProgramChipPage, Loaded, EnterIsp, Jump
<1>2. started = FALSE
  BY <1>1 DEF TypeInv, TypeOK, ClientTypeOK, ClientProgress
<1>3. QED BY <1>1, <1>2 DEF clientVars, ramVars, Running

\* Outside its loops the boot loader owns nothing.
LEMMA OwnsNothing ==
  ASSUME pc' \notin FactoryPcs \cup LoadPcs
  PROVE  BootOwns'
BY DEF BootOwns, FactoryPcs

LEMMA FactoryLoops ==
  ASSUME BootOwns, pc \in FactoryPcs, pc' \in {"eraseFactory", "copyFactory", "saveMaster",
         "eraseMeta", "reset"}, UNCHANGED <<chip, meta>>
  PROVE  BootOwns'
BY PendingOf DEF BootOwns, FactoryPcs, LoadPcs

LEMMA LoadLoops ==
  ASSUME BootOwns, pc \in LoadPcs, pc' \in LoadPcs \cup {"leave"},
         UNCHANGED <<recs, sysctx, ota_info>>
  PROVE  BootOwns'
BY ChargeOfRecords DEF BootOwns, FactoryPcs, LoadPcs

LEMMA BootChargeStep ==
  ASSUME ChargeInv, BootNext, UNCHANGED clientVars
  PROVE  RecordsMarked' /\ BootOwns' /\ ClientCharge'
<1>1. ClientCharge' BY BootNotRunning DEF ClientCharge, ChargeInv
<1>2. recs \in [OtaIds -> OtaInfo] /\ RecordsMarked /\ BootOwns
  BY DEF ChargeInv, TypeInv, TypeOK, BoardTypeOK
<1>3. pc # "reset" => mode = "boot" BY DEF ChargeInv, TypeInv, BootProgress
<1>4. BootReset => BootOwns'
  BY OwnsNothing DEF BootReset, LeaveLoops, FactoryPcs, LoadPcs
<1>5. CASE \/ PowerOn \/ EnterIsp \/ Jump \/ IspReboot \/ PowerCycleLost \/ PowerCutInBoot
  <2>1. UNCHANGED recs
    BY <1>5 DEF PowerOn, EnterIsp, Jump, IspReboot, PowerCycleLost, PowerCutInBoot, flash
  <2>2. BootReset \/ pc' = "reset"
    BY <1>3, <1>5 DEF PowerOn, EnterIsp, Jump, IspReboot, PowerCycleLost, PowerCutInBoot,
       BootPowerFails, bootVars
  <2>3. BootOwns' BY <1>4, <2>2, OwnsNothing DEF FactoryPcs, LoadPcs
  <2>4. QED BY <1>1, <1>2, <2>1, <2>3, ChargeOfRecords
<1>6. CASE MainStart
  <2>1. UNCHANGED <<recs, chip, meta>> BY <1>6 DEF MainStart, flash
  <2>2. \/ pc' = "eraseFactory" /\ FactoryPending
        \/ pc' \in {"leave", "checkOta"}
    BY <1>6 DEF MainStart, GoTo, AfterFactory, FactoryPending
  <2>3. BootOwns' BY <2>1, <2>2, PendingOf DEF BootOwns, FactoryPcs, LoadPcs
  <2>4. QED BY <1>1, <1>2, <2>1, <2>3, ChargeOfRecords
<1>7. CASE EraseFactorySector \/ CopyFactoryPage
  <2>1. UNCHANGED <<recs, chip, meta>> /\ pc \in FactoryPcs
    BY <1>7 DEF EraseFactorySector, CopyFactoryPage, FactoryPcs
  <2>2. BootReset \/ pc' \in {"eraseFactory", "copyFactory", "saveMaster", "reset"}
    BY <1>7 DEF EraseFactorySector, CopyFactoryPage, NextBlock, BootPowerFails
  <2>3. BootOwns' BY <1>2, <1>4, <2>1, <2>2, FactoryLoops
  <2>4. QED BY <1>1, <1>2, <2>1, <2>3, ChargeOfRecords
<1>8. CASE SaveMaster
  <2>1. FactoryRecord(meta).current_app # BadApp
    BY DEF FactoryRecord, FLASH_APP_ID_FACTORY, BadApp
  <2>2. \/ StoreCut(FLASH_OTA_ID_MASTER, FactoryRecord(meta))
        \/ SpoiltCopy(FLASH_OTA_ID_MASTER, FactoryRecord(meta))
        \/ recs' = [recs EXCEPT ![FLASH_OTA_ID_MASTER] = FactoryRecord(meta)]
    BY <1>8 DEF SaveMaster
  <2>3. RecordsMarked' BY <1>2, <2>1, <2>2, WriteIsMarked DEF OtaIds
  <2>4. \/ BootReset
        \/ pc' = "reset"
        \/ pc' = "saveBackup" /\ ota_info' = FactoryRecord(meta) /\ UNCHANGED <<chip, meta>>
    BY <1>8 DEF SaveMaster, SpoiltCopy, GoTo
  <2>5. pc \in FactoryPcs BY <1>8 DEF SaveMaster, FactoryPcs
  <2>6. BootOwns' BY <1>2, <1>4, <2>4, <2>5, PendingOf DEF BootOwns, FactoryPcs, LoadPcs
  <2>7. QED BY <1>1, <2>3, <2>6
<1>9. CASE SaveBackup
  <2>1. ota_info.current_app # BadApp
    BY <1>2, <1>9 DEF SaveBackup, BootOwns, FactoryRecord, FLASH_APP_ID_FACTORY, BadApp
  <2>2. \/ StoreCut(FLASH_OTA_ID_BACKUP, ota_info)
        \/ SpoiltCopy(FLASH_OTA_ID_BACKUP, ota_info)
        \/ recs' = [recs EXCEPT ![FLASH_OTA_ID_BACKUP] = ota_info]
    BY <1>9 DEF SaveBackup
  <2>3. RecordsMarked' BY <1>2, <2>1, <2>2, WriteIsMarked DEF OtaIds
  <2>4. BootReset \/ (pc' \in {"eraseMeta", "reset"} /\ UNCHANGED <<chip, meta>>)
    BY <1>9 DEF SaveBackup, SpoiltCopy, GoTo, StoreCut, Toggled
  <2>5. pc \in FactoryPcs BY <1>9 DEF SaveBackup, FactoryPcs
  <2>6. BootOwns' BY <1>2, <1>4, <2>4, <2>5, FactoryLoops
  <2>7. QED BY <1>1, <2>3, <2>6
<1>10. CASE EraseMeta
  <2>1. UNCHANGED recs /\ pc' \in {"reset", "leave", "checkOta"}
    BY <1>10 DEF EraseMeta, GoTo, AfterFactory
  <2>2. BootOwns' BY <2>1, OwnsNothing DEF FactoryPcs, LoadPcs
  <2>3. QED BY <1>1, <1>2, <2>1, <2>2, ChargeOfRecords
<1>11. CASE check_ota
  <2>1. UNCHANGED recs BY <1>11 DEF check_ota, flash
  <2>2. /\ ota_info' = ChosenRecord /\ sysctx'.otaid = ChosenOldId
        /\ pc' \in {"leave", "tryLoad"}
    BY <1>11 DEF check_ota, GoTo, ChosenRecord, ChargeInv, TypeInv, TypeOK, BoardTypeOK,
       SysCtx
  <2>3. BootOwns' BY <2>1, <2>2, ChargeOfRecords DEF BootOwns, FactoryPcs, LoadPcs
  <2>4. QED BY <1>1, <1>2, <2>1, <2>3, ChargeOfRecords
<1>12. CASE TryLoad \/ EraseChipPage \/ ProgramChipPage
  <2>1. UNCHANGED recs /\ pc \in LoadPcs
    BY <1>12 DEF TryLoad, EraseChipPage, ProgramChipPage, flash, LoadPcs
  <2>2. \/ BootReset
        \/ UNCHANGED <<sysctx, ota_info>> /\ pc' \in LoadPcs \cup {"leave"}
    BY <1>12 DEF TryLoad, EraseChipPage, ProgramChipPage, LoadPcs, GoTo, NextBlock,
       LoadFails, LeaveLoops, BootPowerFails
  <2>3. BootOwns' BY <1>2, <1>4, <2>1, <2>2, LoadLoops
  <2>4. QED BY <1>1, <1>2, <2>1, <2>3, ChargeOfRecords
<1>13. CASE Loaded
  <2>1. BootOwns'
    BY <1>4, <1>13, OwnsNothing DEF Loaded, LeaveLoops, FactoryPcs, LoadPcs
  <2>2. CASE UNCHANGED recs BY <1>1, <1>2, <2>1, <2>2, ChargeOfRecords
  <2>3. CASE recs' # recs
    <3>1. Candidate \in Apps /\ ota_info \in OtaInfo /\ sysctx.otaid \in OtaIds
      BY <1>13, CandidateType
      DEF Loaded, LoadPcs, ChargeInv, TypeInv, TypeOK, BoardTypeOK, SysCtx
    <3>2. BootedRecord(ota_info, Candidate).current_app # BadApp
      BY <3>1 DEF BootedRecord, OtaInfo, Apps, BadApp, FLASH_APP_ID_FACTORY,
         FLASH_APP_ID_APP1, FLASH_APP_ID_APP2
    <3>3. \/ StoreCut(sysctx.otaid, BootedRecord(ota_info, Candidate))
          \/ recs' = [recs EXCEPT ![sysctx.otaid] = BootedRecord(ota_info, Candidate)]
      BY <1>13, <2>3 DEF Loaded, Store, flash
    <3>4. RecordsMarked' BY <1>2, <3>1, <3>2, <3>3, WriteIsMarked
    <3>5. QED BY <1>1, <2>1, <3>4
  <2>4. QED BY <2>2, <2>3
<1>14. QED
  BY <1>5, <1>6, <1>7, <1>8, <1>9, <1>10, <1>11, <1>12, <1>13 DEF BootNext, BootSteps

-----------------------------------------------------------------------------
\* Layer one, the steps of the application and of the world.

\* They find the boot loader at its start.
LEMMA ClientBootIdle ==
  ASSUME TypeInv, mode # "boot", UNCHANGED bootVars
  PROVE  pc' = "reset" /\ BootOwns'
<1>1. pc' = "reset" BY DEF TypeInv, BootProgress, bootVars
<1>2. QED BY <1>1, OwnsNothing DEF FactoryPcs, LoadPcs

\* Steps that leave the records and the choice of slots alone keep the charge,
\* as long as they do not move the client on from an erased record.
LEMMA ClientKeepsCharge ==
  ASSUME ClientCharge, Running,
         UNCHANGED <<recs, mode, sysctx, started, papp, appid_to_upgrade>>,
         ota_info' = ota_info \/ ~ClientStuck,
         ota_info'.current_app = ota_info.current_app, ota_info'.seq = ota_info.seq,
         \A a \in Apps \ {appid_to_upgrade} : ota_info'.info[a] = ota_info.info[a],
         ClientStuck => ota_state' \in {"IDLE", "TIMEUP", "CHECKING", "TIMEOUT"},
         ota_state = "APPLYING" => ota_state' = "APPLYING"
  PROVE  ClientCharge'
<1>1. CASE ClientOwns
  <2>1. ClientOwns' BY <1>1, ChargeOfRecords DEF ClientOwns
  <2>2. QED BY <2>1 DEF ClientCharge
<1>2. CASE ClientStuck
  <2>1. ClientStuck' BY <1>2 DEF ClientStuck
  <2>2. QED BY <2>1 DEF ClientCharge
<1>3. QED BY <1>1, <1>2 DEF ClientCharge

\* Nothing is newer than what an erased record says.
LEMMA StuckSeesNoneNewer ==
  ASSUME ClientStuck, NEW info \in Images \cup {NoInfo}
  PROVE  ~IsNewer(info)
<1>1. VersionOf(ErasedInfo) = VersionLimit BY DEF VersionOf
<1>2. VersionOf(info) \in 0 .. VersionLimit BY VersionType DEF Infos
<1>3. QED BY <1>1, <1>2, StoreAssumption DEF ClientStuck, IsNewer

\* A client that writes its record back is in charge of it before and after.
LEMMA WriteBackCharge ==
  ASSUME ChargeInv, Running, ClientOwns, NEW r \in OtaInfo, WriteBack(r),
         r.seq = ota_info.seq + 1, r.seq <= SeqLimit, r.current_app \in Apps,
         \A a \in Apps \ {appid_to_upgrade} : r.info[a] = ota_info.info[a],
         UNCHANGED <<appid_to_upgrade, papp>>,
         \/ ota_state' = "APPLYING"
         \/ r.current_app = ota_info.current_app /\ ota_state # "APPLYING"
  PROVE  RecordsMarked' /\ ClientOwns' /\ ChosenRecord' = r
<1>1. /\ recs \in [OtaIds -> OtaInfo] /\ sysctx \in SysCtx
      /\ ota_info' = r /\ recs' = [recs EXCEPT ![sysctx.otaid] = r]
      /\ sysctx' = Toggled(sysctx)
  BY DEF ChargeInv, TypeInv, TypeOK, BoardTypeOK, WriteBack, Store
<1>2. r.current_app # BadApp
  BY DEF Apps, BadApp, FLASH_APP_ID_FACTORY, FLASH_APP_ID_APP1, FLASH_APP_ID_APP2
<1>3. /\ sysctx.otaid = ChosenOldId /\ sysctx.otaid \in OtaIds
      /\ r.seq = recs[Other(sysctx.otaid)].seq + 1
  BY OldIdType DEF ClientOwns, ChosenRecord
<1>4. ChosenOldId' = Other(sysctx.otaid) /\ ChosenRecord' = r
  BY <1>1, <1>2, <1>3, RewriteTakesCharge
<1>5. sysctx'.otaid = Other(sysctx.otaid) BY <1>1 DEF Toggled, SysCtx
<1>6. RecordsMarked' BY <1>1, <1>2, WriteIsMarked DEF ChargeInv, SysCtx
<1>7. ClientOwns' BY <1>1, <1>4, <1>5 DEF ClientOwns
<1>8. QED BY <1>4, <1>6, <1>7

\* The records the client writes.
LEMMA ClientRecords ==
  ASSUME TypeInv, ota_info.seq < SeqLimit
  PROVE  /\ \A s \in DlStates : [NextRecord(ota_info) EXCEPT !.dlstate = s] \in OtaInfo
         /\ \A s \in DlStates :
              LET r == [NextRecord(ota_info) EXCEPT !.dlstate = s]
              IN  /\ r.seq = ota_info.seq + 1 /\ r.current_app = ota_info.current_app
                  /\ r.info = ota_info.info
         /\ Applied \in OtaInfo /\ Applied.seq = ota_info.seq + 1
         /\ Applied.current_app = appid_to_upgrade /\ Applied.info = ota_info.info
         /\ ota_info.seq + 1 <= SeqLimit
<1>1. ota_info \in OtaInfo /\ appid_to_upgrade \in Apps /\ ota_info.seq \in Nat
  BY StoreAssumption DEF TypeInv, TypeOK, BoardTypeOK, ClientTypeOK, OtaInfo, Seqs,
     ErasedSeq
<1>2. ota_info.seq + 1 <= SeqLimit BY <1>1, StoreAssumption
<1> DEFINE n == NextRecord(ota_info)
<1>3. n \in OtaInfo BY <1>1, NextRecordType DEF NextRecord
<1>4. n.seq = ota_info.seq + 1 /\ n.current_app = ota_info.current_app /\ n.info = ota_info.info
  BY <1>1 DEF NextRecord, OtaInfo
<1> HIDE DEF n
<1>5. \A s \in DlStates :
        LET r == [n EXCEPT !.dlstate = s]
        IN  r \in OtaInfo /\ r.seq = n.seq /\ r.current_app = n.current_app /\ r.info = n.info
  BY <1>3 DEF OtaInfo
<1>6. /\ Applied \in OtaInfo /\ Applied.seq = n.seq
      /\ Applied.current_app = appid_to_upgrade /\ Applied.info = n.info
  <2>1. Applied = [n EXCEPT !.current_app = appid_to_upgrade, !.dlstate = "IDLE"]
    BY DEF Applied, n
  <2>2. QED BY <1>1, <1>3, <2>1 DEF OtaInfo, DlStates
<1>7. QED BY <1>2, <1>4, <1>5, <1>6 DEF n

\* The client writes back as long as it has an announced image.
LEMMA WriterOwns ==
  ASSUME ChargeInv, Running, ota_state \in {"PREPARING", "ERASING", "DOWNLOADING"}
  PROVE  ClientOwns
BY DEF ChargeInv, ClientCharge, ClientStuck

\* A client that has lost its memory owns nothing.
LEMMA RamLostCharge ==
  ASSUME RamLost
  PROVE  ClientCharge'
BY DEF RamLost, ClientCharge, Running

LEMMA WriteBackCutCharge ==
  ASSUME ChargeInv, NEW r, WriteBackCut(r), r.current_app # BadApp
  PROVE  RecordsMarked' /\ ClientCharge'
<1>1. StoreCut(sysctx.otaid, r) /\ RamLost BY DEF WriteBackCut
<1>2. recs \in [OtaIds -> OtaInfo] /\ RecordsMarked /\ sysctx.otaid \in OtaIds
  BY DEF ChargeInv, TypeInv, TypeOK, BoardTypeOK, SysCtx
<1>3. RecordsMarked' BY <1>1, <1>2, WriteIsMarked
<1>4. QED BY <1>1, <1>3, RamLostCharge

\* main up to its loop: whichever copy the client takes for the older one, it
\* only writes over the one that is not in charge.
LEMMA InitCharge ==
  ASSUME ChargeInv, ota_start, UNCHANGED bootVars
  PROVE  RecordsMarked' /\ ClientCharge'
<1> DEFINE newest == recs[Other(OlderId)]
           reset  == [NextRecord(newest) EXCEPT !.dlstate = "IDLE"]
<1>1. /\ recs \in [OtaIds -> OtaInfo] /\ sysctx \in SysCtx /\ newest \in OtaInfo
      /\ RecordsMarked /\ BadIsErased(newest)
  BY OldIdType DEF ChargeInv, TypeInv, TypeOK, BoardTypeOK, RecordsMarked
<1>2. newest.current_app # BadApp => ChosenOldId = OlderId /\ ChosenRecord = newest
  BY DEF ChosenOldId, ChosenRecord
<1>3. newest.dlstate \notin {"INVALID", "IDLE"} => newest.current_app # BadApp
  BY <1>1 DEF BadIsErased
<1>4. newest.seq < SeqLimit =>
        /\ reset \in OtaInfo /\ reset.seq = newest.seq + 1 /\ reset.seq <= SeqLimit
        /\ reset.current_app = newest.current_app /\ reset.info = newest.info
  <2>1. SUFFICES ASSUME newest.seq < SeqLimit
                 PROVE  /\ reset \in OtaInfo /\ reset.seq = newest.seq + 1
                        /\ reset.seq <= SeqLimit
                        /\ reset.current_app = newest.current_app /\ reset.info = newest.info
    OBVIOUS
  <2> DEFINE n == NextRecord(newest)
  <2>2. n \in OtaInfo BY <1>1, <2>1, NextRecordType DEF NextRecord
  <2>3. /\ n.seq = newest.seq + 1 /\ n.current_app = newest.current_app
        /\ n.info = newest.info
    BY <1>1 DEF NextRecord, OtaInfo
  <2>4. newest.seq + 1 <= SeqLimit
    BY <1>1, <2>1, StoreAssumption DEF OtaInfo, Seqs, ErasedSeq
  <2> HIDE DEF n
  <2>5. reset = [n EXCEPT !.dlstate = "IDLE"] BY DEF n
  <2>6. QED BY <2>2, <2>3, <2>4, <2>5 DEF OtaInfo, DlStates
<1> HIDE DEF newest, reset
<1>5. CASE ota_init
  <2>1. /\ papp' = IF newest.current_app = BadApp THEN FLASH_APP_ID_APP2
                   ELSE newest.current_app
        /\ appid_to_upgrade' = Target(newest.current_app)
        /\ sysctx'.otaid = IF newest.dlstate \in {"INVALID", "IDLE"} THEN OlderId
                           ELSE Other(OlderId)
        /\ ota_state' = "IDLE"
    BY <1>1, <1>5 DEF ota_init, newest, SysCtx, ChargeInv, TypeInv, ClientProgress
  <2>2. newest.current_app # BadApp =>
          /\ papp' = newest.current_app /\ appid_to_upgrade' # papp'
          /\ appid_to_upgrade' # FLASH_APP_ID_FACTORY /\ newest.current_app \in Apps
    BY <1>1, <2>1 DEF OtaInfo, Target, FLASH_APP_ID_FACTORY, FLASH_APP_ID_APP1,
       FLASH_APP_ID_APP2
  <2>3. CASE newest.dlstate \in {"INVALID", "IDLE"}
    <3>1. UNCHANGED recs /\ ota_info' = newest BY <1>5, <2>3 DEF ota_init, newest
    <3>2. CASE newest.current_app = BadApp
      <4>1. ota_info'.info[papp'] = ErasedInfo
        BY <1>1, <2>1, <3>1, <3>2 DEF BadIsErased, Apps
      <4>2. ClientStuck' BY <2>1, <4>1 DEF ClientStuck
      <4>3. QED BY <1>1, <3>1, <4>2, ChargeOfRecords DEF ClientCharge
    <3>3. CASE newest.current_app # BadApp
      <4>1. ClientOwns'
        BY <1>2, <2>1, <2>2, <2>3, <3>1, <3>3, ChargeOfRecords DEF ClientOwns
      <4>2. QED BY <1>1, <3>1, <4>1, ChargeOfRecords DEF ClientCharge
    <3>4. QED BY <3>2, <3>3
  <2>4. CASE newest.dlstate \notin {"INVALID", "IDLE"}
    <3>1. /\ newest.seq < SeqLimit /\ ota_info' = reset
          /\ recs' = [recs EXCEPT ![OlderId] = reset]
      BY <1>5, <2>4 DEF ota_init, newest, reset
    <3>2. newest.current_app # BadApp BY <1>3, <2>4
    <3>3. ChosenOldId' = Other(OlderId) /\ ChosenRecord' = reset
      BY <1>1, <1>4, <3>1, <3>2, OldIdType, RewriteTakesCharge DEF newest
    <3>4. ClientOwns'
      BY <1>4, <2>1, <2>2, <2>4, <3>1, <3>2, <3>3 DEF ClientOwns
    <3>5. RecordsMarked' BY <1>1, <1>4, <3>1, <3>2, OldIdType, WriteIsMarked
    <3>6. QED BY <3>4, <3>5 DEF ClientCharge
  <2>5. QED BY <2>3, <2>4
<1>6. CASE ota_init_cut
  <2>1. /\ newest.dlstate \notin {"INVALID", "IDLE"} /\ newest.seq < SeqLimit
        /\ StoreCut(OlderId, reset) /\ RamLost
    BY <1>6 DEF ota_init_cut, newest, reset
  <2>2. reset.current_app # BadApp BY <1>3, <1>4, <2>1
  <2>3. RecordsMarked' BY <1>1, <2>1, <2>2, OldIdType, WriteIsMarked
  <2>4. QED BY <2>1, <2>3, RamLostCharge
<1>7. QED BY <1>5, <1>6 DEF ota_start

\* The handlers that write nothing: the timer, the check, the erase of a
\* sector, every packet but the one that completes an image.
QuietSteps ==
  \/ ota_1s_event \/ ota_run_timeup \/ ota_run_timeout
  \/ ota_run_erase_sector /\ UNCHANGED mode
  \/ ota_on_latest_app_info \/ ota_on_app_data_block \/ ota_on_app_data_crc_error
  \/ ota_on_app_data_verify_error \/ ota_on_app_data_unexpected

LEMMA QuietCharge ==
  ASSUME ChargeInv, QuietSteps
  PROVE  RecordsMarked' /\ ClientCharge'
<1>1. UNCHANGED recs
  BY DEF QuietSteps, ota_1s_event, ota_1s_event_interval, ota_1s_event_timeout,
     ota_run_timeup, ota_run_timeout, ota_run_erase_sector, ota_on_latest_app_info,
     ota_on_app_data_block, ota_on_app_data_crc_error, ota_on_app_data_verify_error,
     ota_on_app_data_unexpected, EntersError, flash, boardVars
<1>2. RecordsMarked' BY <1>1, ChargeOfRecords DEF ChargeInv
<1>3. ClientCharge /\ ota_info \in OtaInfo
  BY DEF ChargeInv, TypeInv, TypeOK, BoardTypeOK
<1>4. CASE ota_on_latest_app_info
  <2>1. /\ Running /\ to_app # <<>> /\ Head(to_app).type = "LATEST_APP_INFO"
        /\ ota_state = "CHECKING"
        /\ UNCHANGED <<recs, mode, sysctx, started, papp, appid_to_upgrade>>
    BY <1>4 DEF ota_on_latest_app_info, Arrives, flash
  <2>2. Head(to_app).info \in Images \cup {NoInfo}
    <3>1. Head(to_app) \in InfoAns \cup DataAns \cup ShortAns
      BY <2>1, ReceivedType DEF ChargeInv, TypeInv, TypeOK, ClientTypeOK
    <3>2. QED BY <2>1, <3>1 DEF InfoAns, DataAns, ShortAns
  <2>3. CASE IsNewer(Head(to_app).info)
    <3>1. ota_info' = [ota_info EXCEPT !.info[appid_to_upgrade] = Head(to_app).info]
      BY <1>4, <2>3 DEF ota_on_latest_app_info
    <3>2. /\ ota_info'.current_app = ota_info.current_app /\ ota_info'.seq = ota_info.seq
          /\ \A a \in Apps \ {appid_to_upgrade} : ota_info'.info[a] = ota_info.info[a]
      BY <1>3, <3>1 DEF OtaInfo
    <3>3. ~ClientStuck BY <2>2, <2>3, StuckSeesNoneNewer
    <3>4. QED BY <1>2, <1>3, <2>1, <3>2, <3>3, ClientKeepsCharge
  <2>4. CASE ~IsNewer(Head(to_app).info)
    <3>1. ota_state' = "IDLE" /\ UNCHANGED ota_info
      BY <1>4, <2>4 DEF ota_on_latest_app_info
    <3>2. QED BY <1>2, <1>3, <2>1, <3>1, ClientKeepsCharge
  <2>5. QED BY <2>3, <2>4
<1>5. CASE ~ota_on_latest_app_info
  <2>1. /\ Running
        /\ UNCHANGED <<recs, mode, sysctx, started, papp, appid_to_upgrade, ota_info>>
        /\ \/ ota_state' = ota_state
           \/ ota_state # "APPLYING" /\ ota_state' \in {"TIMEUP", "TIMEOUT", "CHECKING", "IDLE"}
           \/ ota_state = "DOWNLOADING" /\ ota_state' = "ERROR"
    <3>1. CASE ota_1s_event
      BY <3>1 DEF ota_1s_event, ota_1s_event_interval, ota_1s_event_timeout, boardVars,
         flash
    <3>2. CASE ota_run_timeup \/ ota_run_timeout
      BY <3>2 DEF ota_run_timeup, ota_run_timeout, boardVars
    <3>3. CASE ota_run_erase_sector /\ UNCHANGED mode
      BY <3>3 DEF ota_run_erase_sector, PowerFails, Running
    <3>4. CASE ota_on_app_data_block
      BY <3>4 DEF ota_on_app_data_block, Expected, Arrives
    <3>5. CASE ota_on_app_data_crc_error \/ ota_on_app_data_verify_error
               \/ ota_on_app_data_unexpected
      BY <3>5 DEF ota_on_app_data_crc_error, ota_on_app_data_verify_error,
         ota_on_app_data_unexpected, EntersError, Expected, Arrives
    <3>6. QED BY <1>5, <3>1, <3>2, <3>3, <3>4, <3>5 DEF QuietSteps
  <2>2. ClientStuck => ota_state' \in {"IDLE", "TIMEUP", "CHECKING", "TIMEOUT"}
    BY <2>1 DEF ClientStuck
  <2>3. ota_state = "APPLYING" => ota_state' = "APPLYING" BY <2>1
  <2>4. QED BY <1>2, <1>3, <2>1, <2>2, <2>3, ClientKeepsCharge
<1>6. QED BY <1>4, <1>5

\* The three handlers that write the record back, power failing or not.
WriterSteps == ota_run_preparing \/ ota_run_erased \/ ota_on_app_data_applied

\* The record they write.
Written(r) ==
  \/ ota_state = "PREPARING" /\ r = [NextRecord(ota_info) EXCEPT !.dlstate = "ERASING"]
  \/ ota_state = "ERASING" /\ r = [NextRecord(ota_info) EXCEPT !.dlstate = "DOWNLOADING"]
  \/ ota_state = "DOWNLOADING" /\ r = Applied

LEMMA WriterWrites ==
  ASSUME TypeInv, WriterSteps
  PROVE  /\ Running /\ ota_info.seq < SeqLimit
         /\ ota_state \in {"PREPARING", "ERASING", "DOWNLOADING"}
         /\ \E r \in OtaInfo :
              /\ Written(r)
              /\ r.seq = ota_info.seq + 1 /\ r.seq <= SeqLimit /\ r.info = ota_info.info
              /\ r.current_app \in {ota_info.current_app, appid_to_upgrade}
              /\ \/ WriteBackCut(r)
                 \/ /\ WriteBack(r) /\ UNCHANGED <<started, papp, appid_to_upgrade>>
                    /\ \/ /\ ota_state' \in {"ERASING", "DOWNLOADING"}
                          /\ r.current_app = ota_info.current_app
                       \/ /\ ota_state' = "APPLYING" /\ ota_state = "DOWNLOADING"
                          /\ r.current_app = appid_to_upgrade
<1>1. CASE ota_run_preparing
  <2>1. Running /\ ota_state = "PREPARING" /\ ota_info.seq < SeqLimit
    BY <1>1 DEF ota_run_preparing
  <2> DEFINE r == [NextRecord(ota_info) EXCEPT !.dlstate = "ERASING"]
  <2>2. /\ r \in OtaInfo /\ r.seq = ota_info.seq + 1 /\ r.seq <= SeqLimit
        /\ r.info = ota_info.info /\ r.current_app = ota_info.current_app
    BY <2>1, ClientRecords DEF DlStates
  <2>3. \/ WriteBackCut(r)
        \/ /\ WriteBack(r) /\ UNCHANGED <<started, papp, appid_to_upgrade>>
           /\ ota_state' = "ERASING"
    BY <1>1 DEF ota_run_preparing
  <2>4. Written(r) BY <2>1 DEF Written
  <2> HIDE DEF r
  <2>5. QED BY <2>1, <2>2, <2>3, <2>4
<1>2. CASE ota_run_erased
  <2>1. Running /\ ota_state = "ERASING" /\ ota_info.seq < SeqLimit
    BY <1>2 DEF ota_run_erased
  <2> DEFINE r == [NextRecord(ota_info) EXCEPT !.dlstate = "DOWNLOADING"]
  <2>2. /\ r \in OtaInfo /\ r.seq = ota_info.seq + 1 /\ r.seq <= SeqLimit
        /\ r.info = ota_info.info /\ r.current_app = ota_info.current_app
    BY <2>1, ClientRecords DEF DlStates
  <2>3. \/ WriteBackCut(r)
        \/ /\ WriteBack(r) /\ UNCHANGED <<started, papp, appid_to_upgrade>>
           /\ ota_state' = "DOWNLOADING"
    BY <1>2 DEF ota_run_erased
  <2>4. Written(r) BY <2>1 DEF Written
  <2> HIDE DEF r
  <2>5. QED BY <2>1, <2>2, <2>3, <2>4
<1>3. CASE ota_on_app_data_applied
  <2>1. Running /\ ota_state = "DOWNLOADING" /\ ota_info.seq < SeqLimit
    BY <1>3 DEF ota_on_app_data_applied, Expected, Arrives
  <2>2. /\ Applied \in OtaInfo /\ Applied.seq = ota_info.seq + 1 /\ Applied.seq <= SeqLimit
        /\ Applied.info = ota_info.info /\ Applied.current_app = appid_to_upgrade
    BY <2>1, ClientRecords
  <2>3. \/ WriteBackCut(Applied)
        \/ /\ WriteBack(Applied) /\ UNCHANGED <<started, papp, appid_to_upgrade>>
           /\ ota_state' = "APPLYING"
    BY <1>3 DEF ota_on_app_data_applied
  <2>4. Written(Applied) BY <2>1 DEF Written
  <2>5. QED BY <2>1, <2>2, <2>3, <2>4
<1>4. QED BY <1>1, <1>2, <1>3 DEF WriterSteps

LEMMA WriterCharge ==
  ASSUME ChargeInv, WriterSteps
  PROVE  RecordsMarked' /\ ClientCharge'
<1>1. TypeInv BY DEF ChargeInv
<1>2. /\ Running /\ ota_state \in {"PREPARING", "ERASING", "DOWNLOADING"}
      /\ ota_state # "APPLYING"
  BY <1>1, WriterWrites
<1>3. ClientOwns BY <1>2, WriterOwns
<1>4. PICK r \in OtaInfo :
        /\ r.seq = ota_info.seq + 1 /\ r.seq <= SeqLimit /\ r.info = ota_info.info
        /\ r.current_app \in {ota_info.current_app, appid_to_upgrade}
        /\ \/ WriteBackCut(r)
           \/ /\ WriteBack(r) /\ UNCHANGED <<started, papp, appid_to_upgrade>>
              /\ \/ ota_state' \in {"ERASING", "DOWNLOADING"} /\ r.current_app = ota_info.current_app
                 \/ ota_state' = "APPLYING" /\ r.current_app = appid_to_upgrade
  BY <1>1, WriterWrites
<1>5. r.current_app \in Apps
  <2>1. ota_info.current_app \in Apps BY <1>3 DEF ClientOwns
  <2>2. appid_to_upgrade \in Apps BY <1>1 DEF TypeInv, TypeOK, ClientTypeOK
  <2>3. QED BY <1>4, <2>1, <2>2
<1>6. CASE WriteBackCut(r)
  BY <1>5, <1>6, WriteBackCutCharge
  DEF Apps, BadApp, FLASH_APP_ID_FACTORY, FLASH_APP_ID_APP1, FLASH_APP_ID_APP2
<1>7. CASE WriteBack(r) /\ UNCHANGED <<started, papp, appid_to_upgrade>>
           /\ \/ ota_state' \in {"ERASING", "DOWNLOADING"} /\ r.current_app = ota_info.current_app
              \/ ota_state' = "APPLYING" /\ r.current_app = appid_to_upgrade
  BY <1>2, <1>3, <1>4, <1>5, <1>7, WriteBackCharge DEF ClientCharge
<1>8. QED BY <1>4, <1>6, <1>7

\* The packets and the link between the board and the server, and a packet
\* the application drops.
LEMMA LinkCharge ==
  ASSUME ChargeInv, DropPacket \/ ServerSteps \/ OperatorEdits \/ PacketLost,
         UNCHANGED bootVars
  PROVE  /\ UNCHANGED <<flash, mode, sysctx, ota_info, ramVars>>
         /\ RecordsMarked' /\ BootOwns' /\ ClientCharge'
<1>1. UNCHANGED <<flash, mode, sysctx, ota_info, ramVars>>
  BY DEF DropPacket, ServerSteps, ServerAnswersCheck, ServerAnswersData, OperatorEdits,
     PacketLost, boardVars, flash
<1>2. UNCHANGED <<recs, slots, chip, meta, pc>> BY <1>1 DEF flash, bootVars
<1>3. RecordsMarked' BY <1>2, ChargeOfRecords DEF ChargeInv
<1>4. BootOwns' BY <1>1, <1>2, ChargeOfRecords, PendingOf DEF ChargeInv, BootOwns
<1>5. ClientCharge'
  BY <1>1, <1>2, ChargeOfRecords DEF ChargeInv, ClientCharge, ClientOwns, ClientStuck,
     Running, ramVars
<1>6. QED BY <1>1, <1>3, <1>4, <1>5

LEMMA ClientChargeStep ==
  ASSUME ChargeInv, ClientNext, UNCHANGED bootVars
  PROVE  RecordsMarked' /\ BootOwns' /\ ClientCharge'
<1>1. CASE DropPacket \/ ServerSteps \/ OperatorEdits \/ PacketLost BY <1>1, LinkCharge
<1>2. CASE ota_start
  <2>1. mode = "app" BY <1>2 DEF ota_start, ota_init, ota_init_cut
  <2>2. QED BY <1>2, <2>1, ClientBootIdle, InitCharge DEF ChargeInv
<1>3. CASE QuietSteps
  <2>1. mode = "app"
    BY <1>3 DEF QuietSteps, ota_1s_event, ota_1s_event_interval, ota_1s_event_timeout,
       ota_run_timeup, ota_run_timeout, ota_run_erase_sector, ota_on_latest_app_info,
       ota_on_app_data_block, ota_on_app_data_crc_error, ota_on_app_data_verify_error,
       ota_on_app_data_unexpected, Expected, Arrives, Running
  <2>2. QED BY <1>3, <2>1, ClientBootIdle, QuietCharge DEF ChargeInv
<1>4. CASE WriterSteps
  <2>1. mode = "app" BY <1>4, WriterWrites DEF Running, ChargeInv
  <2>2. QED BY <1>4, <2>1, ClientBootIdle, WriterCharge DEF ChargeInv
<1>5. CASE \/ ota_run_erase_sector /\ mode' # mode
           \/ ota_on_app_data_cut \/ AppReset \/ PowerCutInApp \/ PowerCycle
  <2>1. mode = "app" /\ UNCHANGED recs /\ RamLost
    BY <1>5 DEF ota_run_erase_sector, ota_on_app_data_cut, AppReset, PowerCutInApp,
       PowerCycle, Expected, Arrives, Running, flash
  <2>2. QED BY <2>1, ClientBootIdle, RamLostCharge, ChargeOfRecords DEF ChargeInv
<1>6. QED
  BY <1>1, <1>2, <1>3, <1>4, <1>5
  DEF ClientNext, isp_handle, ota_on_app_data, ota_run, QuietSteps, WriterSteps

LEMMA ChargeInit == Init => ChargeInv
<1> SUFFICES ASSUME Init PROVE ChargeInv OBVIOUS
<1>1. TypeInv BY TypeInit
<1>2. RecordsMarked
  BY DEF Init, BoardInit, RecordsMarked, BadIsErased, ErasedRecord
<1>3. BootOwns BY DEF Init, BootIdle, BootOwns, FactoryPcs, LoadPcs
<1>4. ClientCharge BY DEF Init, BoardInit, ClientCharge, Running
<1>5. QED BY <1>1, <1>2, <1>3, <1>4 DEF ChargeInv

LEMMA ChargeStep == ChargeInv /\ [Next]_vars => ChargeInv'
<1> SUFFICES ASSUME ChargeInv, [Next]_vars PROVE ChargeInv' OBVIOUS
<1>1. TypeInv /\ TypeInv' BY TypeStep DEF ChargeInv
<1>2. CASE BootNext /\ UNCHANGED clientVars BY <1>1, <1>2, BootChargeStep DEF ChargeInv
<1>3. CASE ClientNext /\ UNCHANGED bootVars BY <1>1, <1>3, ClientChargeStep DEF ChargeInv
<1>4. CASE Reflash /\ UNCHANGED <<bootVars, clientVars>>
  <2>1. mode = "off" /\ mode' = "off" /\ UNCHANGED recs BY <1>4 DEF Reflash
  <2>2. BootOwns' BY <1>1, <1>4, <2>1, ClientBootIdle
  <2>3. QED BY <1>1, <2>1, <2>2, ChargeOfRecords DEF ChargeInv, ClientCharge, Running
<1>5. CASE UNCHANGED vars
  <2>1. UNCHANGED <<recs, chip, meta, mode, sysctx, ota_info, pc, ramVars>>
    BY <1>5 DEF vars, boardVars, bootVars, clientVars
  <2>2. BootOwns' BY <2>1, ChargeOfRecords, PendingOf DEF ChargeInv, BootOwns
  <2>3. ClientCharge'
    BY <2>1, ChargeOfRecords DEF ChargeInv, ClientCharge, ClientOwns, ClientStuck,
       Running, ramVars
  <2>4. QED BY <1>1, <2>1, <2>2, <2>3, ChargeOfRecords DEF ChargeInv
<1>6. QED BY <1>2, <1>3, <1>4, <1>5 DEF Next

-----------------------------------------------------------------------------
\* Layer one, what follows from it.

\* One copy is written, whole or not.
OnlyCopy(id) == \E r : recs' = [recs EXCEPT ![id] = r]

LEMMA StoreIsOnly ==
  ASSUME NEW id, NEW r, StoreCut(id, r) \/ (WriteBack(r) /\ id = sysctx.otaid)
  PROVE  OnlyCopy(id)
BY DEF OnlyCopy, StoreCut, WriteBack, Store

\* The rest of the client writes no record.
LEMMA OtherRecords ==
  ASSUME ClientNext, ~WriterSteps, ~ota_start
  PROVE  UNCHANGED recs
BY DEF WriterSteps, ClientNext, ota_1s_event, ota_1s_event_interval,
     ota_1s_event_timeout, ota_run, ota_run_timeup, ota_run_timeout, ota_run_erase_sector,
     isp_handle, ota_on_latest_app_info, ota_on_app_data, ota_on_app_data_block,
     ota_on_app_data_crc_error, ota_on_app_data_verify_error, ota_on_app_data_unexpected,
     ota_on_app_data_cut, EntersError, DropPacket, ServerSteps, ServerAnswersCheck,
     ServerAnswersData, OperatorEdits, PacketLost, AppReset, PowerCutInApp, PowerCycle,
     flash, boardVars

\* Who writes a record without a factory image to install writes the copy
\* that is not in charge.
LEMMA RecordWriters ==
  ASSUME ChargeInv, Next
  PROVE  UNCHANGED recs \/ FactoryPending \/ OnlyCopy(ChosenOldId)
<1>1. CASE BootNext
  <2>1. CASE SaveMaster \/ SaveBackup
    BY <2>1 DEF SaveMaster, SaveBackup, ChargeInv, BootOwns, FactoryPcs
  <2>2. CASE Loaded
    <3>1. sysctx.otaid = ChosenOldId
      BY <2>2 DEF Loaded, ChargeInv, BootOwns, LoadPcs
    <3>2. \/ UNCHANGED recs
          \/ StoreCut(sysctx.otaid, BootedRecord(ota_info, Candidate))
          \/ recs' = [recs EXCEPT ![sysctx.otaid] = BootedRecord(ota_info, Candidate)]
      BY <2>2 DEF Loaded, Store, flash
    <3>3. QED BY <3>1, <3>2, StoreIsOnly DEF OnlyCopy
  <2>3. CASE ~(SaveMaster \/ SaveBackup \/ Loaded)
    BY <1>1, <2>3 DEF BootNext, BootSteps, PowerOn, IspReboot, PowerCycleLost,
       PowerCutInBoot, MainStart, EraseFactorySector, CopyFactoryPage, EraseMeta,
       check_ota, TryLoad, EraseChipPage, ProgramChipPage, EnterIsp, Jump, flash
  <2>4. QED BY <2>1, <2>2, <2>3
<1>2. CASE WriterSteps
  <2>1. sysctx.otaid = ChosenOldId
    BY <1>2, WriterWrites, WriterOwns DEF ChargeInv, ClientOwns
  <2>2. \E r : WriteBackCut(r) \/ WriteBack(r) BY <1>2, WriterWrites DEF ChargeInv
  <2>3. QED BY <2>1, <2>2, StoreIsOnly DEF WriteBackCut
<1>3. CASE ota_start
  <2> DEFINE newest == recs[Other(OlderId)]
             reset  == [NextRecord(newest) EXCEPT !.dlstate = "IDLE"]
  <2>1. \/ UNCHANGED recs
        \/ /\ newest.dlstate \notin {"INVALID", "IDLE"}
           /\ StoreCut(OlderId, reset) \/ recs' = [recs EXCEPT ![OlderId] = reset]
    BY <1>3 DEF ota_start, ota_init, ota_init_cut
  <2>2. newest.dlstate \notin {"INVALID", "IDLE"} => newest.current_app # BadApp
    BY OldIdType DEF ChargeInv, RecordsMarked, BadIsErased
  <2>3. newest.current_app # BadApp => ChosenOldId = OlderId BY DEF ChosenOldId
  <2> HIDE DEF newest, reset
  <2>4. UNCHANGED recs \/ OnlyCopy(OlderId)
    <3>1. StoreCut(OlderId, reset) => OnlyCopy(OlderId)
      BY DEF StoreCut, OnlyCopy
    <3>2. recs' = [recs EXCEPT ![OlderId] = reset] => OnlyCopy(OlderId) BY DEF OnlyCopy
    <3>3. QED BY <2>1, <3>1, <3>2
  <2>5. UNCHANGED recs \/ ChosenOldId = OlderId BY <2>1, <2>2, <2>3
  <2>6. QED BY <2>4, <2>5
<1>4. CASE ClientNext /\ ~WriterSteps /\ ~ota_start BY <1>4, OtherRecords
<1>5. CASE Reflash BY <1>5 DEF Reflash
<1>6. QED BY <1>1, <1>2, <1>3, <1>4, <1>5 DEF Next

\* common.h calls the copy with the smaller sequence number safe to write.
\* Whatever goes wrong, records torn while they are programmed included: once
\* the factory image is installed no step of the boot loader (the record after
\* a boot of another application) or of the client (ota_init's reset, the
\* records before the erase, the download and the reboot) touches the copy a
\* reset would choose.
THEOREM ChosenRecordIsKept == Spec => KeepsChosenRecord
<1>1. ChargeInv /\ [Next]_vars =>
        [ ~FactoryPending =>
            \A id \in OtaIds : recs'[id] # recs[id] => id = ChosenOldId ]_vars
  <2> SUFFICES ASSUME ChargeInv, Next, ~FactoryPending, NEW id \in OtaIds,
                      recs'[id] # recs[id]
               PROVE  id = ChosenOldId
    OBVIOUS
  <2>1. OnlyCopy(ChosenOldId) BY RecordWriters
  <2>2. recs \in [OtaIds -> OtaInfo] BY DEF ChargeInv, TypeInv, TypeOK, BoardTypeOK
  <2>3. QED BY <2>1, <2>2 DEF OnlyCopy
<1>2. QED BY <1>1, ChargeInit, ChargeStep, PTL DEF Spec, KeepsChosenRecord

\* Who writes a slot without a factory image to install is the client, and
\* it writes the slot that is not the current application's.
LEMMA SlotWriters ==
  ASSUME ChargeInv, Next
  PROVE  \/ UNCHANGED slots
         \/ FactoryPending
         \/ /\ Running /\ ClientOwns
            /\ ota_state \in {"ERASING", "DOWNLOADING"}
            /\ \E b, c : slots' = SetBlock(slots, appid_to_upgrade, b, c)
<1>1. CASE BootNext
  <2>1. CASE EraseFactorySector \/ CopyFactoryPage
    BY <2>1 DEF EraseFactorySector, CopyFactoryPage, ChargeInv, BootOwns, FactoryPcs
  <2>2. CASE ~(EraseFactorySector \/ CopyFactoryPage)
    BY <1>1, <2>2 DEF BootNext, BootSteps, PowerOn, IspReboot, PowerCycleLost,
       PowerCutInBoot, MainStart, SaveMaster, SaveBackup, EraseMeta, check_ota, TryLoad,
       EraseChipPage, ProgramChipPage, Loaded, EnterIsp, Jump, flash
  <2>3. QED BY <2>1, <2>2
<1>2. CASE ota_run_erase_sector \/ (ota_on_app_data /\ ~ota_on_app_data_unexpected)
  <2>1. Running /\ ota_state \in {"ERASING", "DOWNLOADING"}
    BY <1>2 DEF ota_run_erase_sector, ota_on_app_data, ota_on_app_data_block,
       ota_on_app_data_applied, ota_on_app_data_crc_error, ota_on_app_data_verify_error,
       ota_on_app_data_cut, Expected, Arrives
  <2>2. \E b, c : slots' = SetBlock(slots, appid_to_upgrade, b, c)
    BY <1>2 DEF ota_run_erase_sector, ota_on_app_data, ota_on_app_data_block,
       ota_on_app_data_applied, ota_on_app_data_crc_error, ota_on_app_data_verify_error,
       ota_on_app_data_cut, Programs
  <2>3. QED BY <2>1, <2>2, WriterOwns
<1>3. CASE ota_start \/ ota_1s_event
  BY <1>3 DEF ota_start, ota_init, ota_init_cut, ota_1s_event, ota_1s_event_interval,
     ota_1s_event_timeout, flash, boardVars
<1>4. CASE ota_run /\ ~ota_run_erase_sector
  BY <1>4 DEF ota_run, ota_run_timeup, ota_run_timeout, ota_run_preparing,
     ota_run_erased, boardVars
<1>5. CASE \/ ota_on_latest_app_info \/ ota_on_app_data_unexpected \/ DropPacket
           \/ ServerSteps \/ OperatorEdits \/ PacketLost
           \/ AppReset \/ PowerCutInApp \/ PowerCycle
  BY <1>5 DEF ota_on_latest_app_info, ota_on_app_data_unexpected, EntersError,
     DropPacket, ServerSteps, ServerAnswersCheck, ServerAnswersData, OperatorEdits,
     PacketLost, AppReset, PowerCutInApp, PowerCycle, flash, boardVars
<1>6. CASE Reflash BY <1>6 DEF Reflash
<1>7. QED
  BY <1>1, <1>2, <1>3, <1>4, <1>5, <1>6 DEF Next, ClientNext, isp_handle

\* A write of one slot leaves the other ones.
LEMMA SetBlockElsewhere ==
  ASSUME slots \in [Apps -> Areas], NEW a, NEW b, NEW c, NEW d \in Apps, d # a,
         slots' = SetBlock(slots, a, b, c)
  PROVE  slots'[d] = slots[d]
BY DEF SetBlock

\* Target never names the application that runs: whatever goes wrong, no step
\* erases or programs a block of the slot a reset would load from.
THEOREM CurrentSlotIsKept == Spec => KeepsCurrentSlot
<1>1. ChargeInv /\ [Next]_vars =>
        [ (~FactoryPending /\ ChosenRecord.current_app # BadApp) =>
            slots'[ChosenRecord.current_app] = slots[ChosenRecord.current_app] ]_vars
  <2> SUFFICES ASSUME ChargeInv, Next, ~FactoryPending
               PROVE  slots'[ChosenRecord.current_app] = slots[ChosenRecord.current_app]
    OBVIOUS
  <2>1. CASE UNCHANGED slots BY <2>1
  <2>2. CASE /\ ClientOwns /\ ota_state \in {"ERASING", "DOWNLOADING"}
             /\ \E b, c : slots' = SetBlock(slots, appid_to_upgrade, b, c)
    <3>1. ChosenRecord.current_app \in Apps /\ ChosenRecord.current_app # appid_to_upgrade
      BY <2>2 DEF ClientOwns
    <3>2. slots \in [Apps -> Areas] BY DEF ChargeInv, TypeInv, TypeOK, BoardTypeOK
    <3>3. QED BY <2>2, <3>1, <3>2, SetBlockElsewhere
  <2>3. QED BY <2>1, <2>2, SlotWriters
<1>2. QED BY <1>1, ChargeInit, ChargeStep, PTL DEF Spec, KeepsCurrentSlot

-----------------------------------------------------------------------------
\* Layer two: what is applied is whole, and comes to be in charge.

\* A CRC that matches so far stands for the blocks that are programmed.
DownloadHeld ==
  (ota_state = "DOWNLOADING" /\ crc_matches) =>
    \A b \in 1 .. received : slots[appid_to_upgrade][b] = Upgrade

DownloadInv == ChargeInv /\ DownloadHeld /\ AppliedIsChosen

\* The boot loader finds and leaves the client idle.
LEMMA BootClientIdle ==
  ASSUME TypeInv, BootNext, UNCHANGED clientVars
  PROVE  ota_state = "IDLE" /\ ota_state' = "IDLE" /\ DownloadHeld' /\ AppliedIsChosen'
<1>1. ota_state = "IDLE" /\ UNCHANGED ota_state
  BY BootNotRunning DEF TypeInv, ClientProgress, clientVars, ramVars
<1>2. QED BY <1>1 DEF DownloadHeld, AppliedIsChosen

\* The block that completes an image completes it in its slot.
LEMMA AppliedIsWhole ==
  ASSUME DownloadInv, ota_on_app_data_applied
  PROVE  Holds(slots'[appid_to_upgrade], Upgrade)
<1>1. /\ Expected /\ Landed = Payload /\ IsLast /\ CrcNow /\ Programs(Landed)
      /\ ota_state = "DOWNLOADING" /\ TypeInv
  BY DEF ota_on_app_data_applied, Expected, Arrives, DownloadInv, ChargeInv
<1>2. /\ Upgrade \in Images /\ Size[Upgrade] \in Nat
      /\ received \in Nat /\ received < Size[Upgrade] /\ received + 1 \in Blocks
  BY <1>1, StoreAssumption DEF TypeInv, TypeOK, ClientTypeOK, ClientProgress, Blocks
<1>3. Size[Upgrade] = received + 1 BY <1>1, <1>2 DEF IsLast
<1>4. \A b \in 1 .. received : slots[appid_to_upgrade][b] = Upgrade
  BY <1>1 DEF DownloadInv, DownloadHeld, CrcNow
<1>5. /\ slots \in [Apps -> Areas] /\ appid_to_upgrade \in Apps
      /\ slots' = SetBlock(slots, appid_to_upgrade, received + 1, Upgrade)
  BY <1>1 DEF TypeInv, TypeOK, BoardTypeOK, ClientTypeOK, Programs, CrcNow
<1>6. \A b \in 1 .. received + 1 : slots'[appid_to_upgrade][b] = Upgrade
  <2>1. /\ slots[appid_to_upgrade] \in [Blocks -> Cells]
        /\ slots'[appid_to_upgrade] = [slots[appid_to_upgrade] EXCEPT ![received + 1] = Upgrade]
    BY <1>5 DEF SetBlock, Areas
  <2>2. \A b \in 1 .. received : b \in Blocks /\ b # received + 1
    BY <1>2, StoreAssumption DEF Blocks
  <2>3. \A b \in 1 .. received + 1 : b = received + 1 \/ b \in 1 .. received BY <1>2
  <2>4. QED BY <1>2, <1>4, <2>1, <2>2, <2>3
<1>7. QED BY <1>2, <1>3, <1>6 DEF Holds

\* The record that makes it current comes to be in charge.
LEMMA AppliedCharge ==
  ASSUME DownloadInv, WriterSteps, ota_state' = "APPLYING"
  PROVE  /\ ChosenRecord'.current_app = appid_to_upgrade'
         /\ Loadable(ChosenRecord, appid_to_upgrade)'
<1>1. ChargeInv /\ ClientOwns /\ Running /\ sysctx.otaid = ChosenOldId
      /\ ota_state # "APPLYING" /\ appid_to_upgrade \in Apps
  BY WriterWrites, WriterOwns
  DEF DownloadInv, ChargeInv, ClientOwns, TypeInv, TypeOK, ClientTypeOK
<1>2. PICK r \in OtaInfo :
        /\ r.seq = ota_info.seq + 1 /\ r.seq <= SeqLimit /\ r.info = ota_info.info
        /\ r.current_app = appid_to_upgrade /\ ota_state = "DOWNLOADING"
        /\ WriteBack(r) /\ UNCHANGED <<started, papp, appid_to_upgrade>>
  <2>1. ASSUME NEW r, WriteBackCut(r) PROVE FALSE BY <2>1 DEF WriteBackCut, RamLost
  <2>2. QED BY <2>1, WriterWrites DEF DownloadInv, ChargeInv
<1>3. ChosenRecord' = r BY <1>1, <1>2, WriteBackCharge
<1>4. ota_on_app_data_applied
  BY <1>2 DEF WriterSteps, ota_run_preparing, ota_run_erased
<1>5. Holds(slots'[appid_to_upgrade], Upgrade) BY <1>4, AppliedIsWhole
<1>6. r.info[appid_to_upgrade] = Upgrade BY <1>2 DEF Upgrade
<1>7. QED BY <1>2, <1>3, <1>5, <1>6 DEF Loadable

\* The other steps of the client change what is downloaded block by block.
LEMMA DownloadSteps ==
  ASSUME TypeInv, ClientNext
  PROVE  \/ ota_state' \notin {"DOWNLOADING", "APPLYING"}
         \/ UNCHANGED <<ota_state, crc_matches, received, slots, recs,
                        appid_to_upgrade, ota_info>>
         \/ ota_on_app_data_block
         \/ WriterSteps /\ ota_state' = "DOWNLOADING" /\ received' = 0
         \/ WriterSteps /\ ota_state' = "APPLYING"
<1>1. CASE ota_start \/ ota_1s_event
  BY <1>1 DEF ota_start, ota_init, ota_init_cut, RamLost, TypeInv, ClientProgress,
     ota_1s_event, ota_1s_event_interval, ota_1s_event_timeout, flash, boardVars
<1>2. CASE ota_run
  BY <1>2 DEF ota_run, ota_run_timeup, ota_run_timeout, ota_run_preparing,
     ota_run_erase_sector, ota_run_erased, WriterSteps, WriteBackCut, RamLost
<1>3. CASE isp_handle /\ ~DropPacket
  BY <1>3 DEF isp_handle, ota_on_latest_app_info, ota_on_app_data,
     ota_on_app_data_applied, ota_on_app_data_crc_error, ota_on_app_data_verify_error,
     ota_on_app_data_unexpected, ota_on_app_data_cut, EntersError, WriterSteps,
     WriteBackCut, RamLost
<1>4. CASE DropPacket \/ ServerSteps \/ OperatorEdits \/ PacketLost
  BY <1>4 DEF DropPacket, ServerSteps, ServerAnswersCheck, ServerAnswersData,
     OperatorEdits, PacketLost, flash, boardVars, ramVars
<1>5. CASE AppReset \/ PowerCutInApp \/ PowerCycle
  BY <1>5 DEF AppReset, PowerCutInApp, PowerCycle, RamLost
<1>6. QED BY <1>1, <1>2, <1>3, <1>4, <1>5 DEF ClientNext

\* A block in the middle extends what the CRC stands for.
LEMMA BlockHeld ==
  ASSUME DownloadInv, ota_on_app_data_block
  PROVE  DownloadHeld' /\ AppliedIsChosen'
<1>1. /\ Expected /\ Landed = Payload /\ Programs(Landed) /\ TypeInv
      /\ ota_state = "DOWNLOADING" /\ ota_state' = "DOWNLOADING"
      /\ received' = received + 1 /\ crc_matches' = CrcNow
      /\ UNCHANGED <<ota_info, appid_to_upgrade>>
  BY DEF ota_on_app_data_block, Expected, Arrives, DownloadInv, ChargeInv
<1>2. received \in Nat /\ received + 1 \in Blocks
  BY <1>1, StoreAssumption DEF TypeInv, TypeOK, ClientTypeOK, ClientProgress, Blocks
<1>3. SUFFICES ASSUME CrcNow, NEW b \in 1 .. received + 1
               PROVE  slots'[appid_to_upgrade][b] = Upgrade
  BY <1>1 DEF DownloadHeld, AppliedIsChosen, Upgrade
<1>4. \A c \in 1 .. received : slots[appid_to_upgrade][c] = Upgrade
  BY <1>1, <1>3 DEF DownloadInv, DownloadHeld, CrcNow
<1>5. /\ slots[appid_to_upgrade] \in [Blocks -> Cells]
      /\ slots'[appid_to_upgrade] = [slots[appid_to_upgrade] EXCEPT ![received + 1] = Upgrade]
  BY <1>1, <1>3 DEF TypeInv, TypeOK, BoardTypeOK, ClientTypeOK, Programs, CrcNow,
     SetBlock, Areas
<1>6. b = received + 1 \/ (b \in 1 .. received /\ b \in Blocks /\ b # received + 1)
  BY <1>2, <1>3, StoreAssumption DEF Blocks
<1>7. QED BY <1>2, <1>4, <1>5, <1>6

LEMMA DownloadInit == Init => DownloadInv
<1>1. Init => ota_state = "IDLE" BY DEF Init, ClientInit, RamInit
<1>2. QED BY <1>1, ChargeInit DEF DownloadInv, DownloadHeld, AppliedIsChosen

LEMMA DownloadStep == DownloadInv /\ [Next]_vars => DownloadInv'
<1> SUFFICES ASSUME DownloadInv, [Next]_vars PROVE DownloadInv' OBVIOUS
<1>1. ChargeInv' /\ TypeInv BY ChargeStep DEF DownloadInv, ChargeInv
<1>2. SUFFICES DownloadHeld' /\ AppliedIsChosen' BY <1>1 DEF DownloadInv
<1>3. CASE ota_state' \notin {"DOWNLOADING", "APPLYING"}
  BY <1>3 DEF DownloadHeld, AppliedIsChosen
<1>4. CASE UNCHANGED <<ota_state, crc_matches, received, slots, recs,
                       appid_to_upgrade, ota_info>>
  BY <1>4, ChargeOfRecords
  DEF DownloadInv, DownloadHeld, AppliedIsChosen, Upgrade, Loadable, Holds
<1>5. CASE BootNext /\ UNCHANGED clientVars BY <1>1, <1>5, BootClientIdle
<1>6. CASE ClientNext
  <2>1. CASE ota_on_app_data_block BY <2>1, BlockHeld
  <2>2. CASE WriterSteps /\ ota_state' = "DOWNLOADING" /\ received' = 0
    BY <2>2 DEF DownloadHeld, AppliedIsChosen
  <2>3. CASE WriterSteps /\ ota_state' = "APPLYING"
    BY <2>3, AppliedCharge DEF DownloadHeld, AppliedIsChosen
  <2>4. QED BY <1>1, <1>3, <1>4, <1>6, <2>1, <2>2, <2>3, DownloadSteps
<1>7. CASE Reflash /\ UNCHANGED <<bootVars, clientVars>>
  BY <1>1, <1>3, <1>7 DEF Reflash, TypeInv, ClientProgress, clientVars, ramVars
<1>8. CASE UNCHANGED vars
  BY <1>4, <1>8 DEF vars, boardVars, clientVars, ramVars
<1>9. QED BY <1>5, <1>6, <1>7, <1>8 DEF Next

\* Whatever else goes wrong, APPLYING keeps its promise: a CRC that matched over
\* all the blocks means that all of them are in the slot, and the record that
\* names it is the one the next boot chooses.
THEOREM AppliedStaysChosen == Spec => []AppliedIsChosen
<1>1. DownloadInv => AppliedIsChosen BY DEF DownloadInv
<1>2. QED BY <1>1, DownloadInit, DownloadStep, PTL DEF Spec

-----------------------------------------------------------------------------
\* Layer three: the applications the record in charge names are whole.  A record
\* torn while it is programmed may carry a number that puts it in charge
\* without its applications, so that this layer leaves that mishap out; a
\* record that is only erased is covered.

SettledBy(r) ==
  /\ r.current_app # BadApp
  /\ Loadable(r, r.current_app)
  /\ Loadable(r, FLASH_APP_ID_FACTORY)

Settled == SettledBy(ChosenRecord)

\* Also while the boot loader chooses and loads: a chip page that refuses its
\* erase may leave the metadata of a factory image that is installed already.
SettledOnce == (~FactoryPending \/ pc \in {"checkOta"} \cup LoadPcs) => Settled

\* What the factory copy has done so far.
CopyHeld ==
  /\ pc \in {"saveMaster", "saveBackup", "eraseMeta"} =>
       Holds(slots[FLASH_APP_ID_FACTORY], meta)
  /\ pc \in {"saveBackup", "eraseMeta"} => recs[FLASH_OTA_ID_MASTER] = FactoryRecord(meta)
  /\ pc = "eraseMeta" => recs[FLASH_OTA_ID_BACKUP] = FactoryRecord(meta)

\* The application that is being loaded is whole.
CandidateHeld ==
  pc \in LoadPcs \ {"tryLoad"} => Holds(slots[Candidate], ota_info.info[Candidate])

Installed == SettledOnce /\ CopyHeld /\ CandidateHeld

WholeInv == DownloadInv /\ Installed

-----------------------------------------------------------------------------
\* A power cut while the other copy is written leaves the choice alone.
LEMMA StoreCutKeepsCharge ==
  ASSUME "torn" \notin Mishaps, TypeInv, NEW r, ChosenRecord.current_app # BadApp,
         StoreCut(ChosenOldId, r)
  PROVE  ChosenRecord' = ChosenRecord
<1>1. recs' = [recs EXCEPT ![ChosenOldId] = ErasedRecord] BY DEF StoreCut, Mishap
<1>2. QED BY <1>1, EraseKeepsCharge DEF TypeInv, TypeOK, BoardTypeOK

\* Both copies name a whole factory image.
LEMMA CopySettles ==
  ASSUME TypeInv, CopyHeld, pc = "eraseMeta"
  PROVE  Settled /\ ChosenRecord = FactoryRecord(meta) /\ CurrentImage = meta
<1>1. \A id \in OtaIds : recs[id] = FactoryRecord(meta) BY DEF CopyHeld, OtaIds
<1>2. ChosenRecord = FactoryRecord(meta) BY <1>1, OldIdType DEF ChosenRecord
<1>3. /\ FactoryRecord(meta).current_app = FLASH_APP_ID_FACTORY
      /\ FactoryRecord(meta).info[FLASH_APP_ID_FACTORY] = meta
  BY DEF FactoryRecord, Apps
<1>4. Holds(slots[FLASH_APP_ID_FACTORY], meta) BY DEF CopyHeld
<1>5. Settled
  BY <1>2, <1>3, <1>4 DEF Settled, SettledBy, Loadable, BadApp, FLASH_APP_ID_FACTORY
<1>6. QED BY <1>2, <1>3, <1>5 DEF CurrentImage

\* A factory image on the chip passes the test of its first bytes.
LEMMA PendingIsValid ==
  ASSUME TypeInv, FactoryPending
  PROVE  /\ is_valid_on_chip_app_program(chip) /\ check_onchip_factory_metadata
         /\ meta \in Images /\ chip[1] = meta
<1>1. meta \in Images /\ Size[meta] \in Blocks /\ chip \in Areas
  BY StoreAssumption
  DEF FactoryPending, check_onchip_factory_metadata, Holds, TypeInv, TypeOK, BoardTypeOK
<1>2. 1 \in 1 .. Size[meta] BY <1>1, StoreAssumption DEF Blocks
<1>3. chip[1] = meta
  BY <1>2 DEF FactoryPending, check_onchip_factory_metadata, Holds
<1>4. meta # Blank /\ meta # TornHead
  BY <1>1, StoreAssumption DEF Images, Blank, TornHead
<1>5. QED
  BY <1>1, <1>3, <1>4 DEF is_valid_on_chip_app_program, FactoryPending

\* A reset of the boot loader has nothing to hold but what is settled.
LEMMA ResetInstalled ==
  ASSUME pc' = "reset", FactoryPending' \/ Settled'
  PROVE  SettledOnce' /\ CopyHeld' /\ CandidateHeld'
BY DEF SettledOnce, CopyHeld, CandidateHeld, LoadPcs

LEMMA SettledOf ==
  ASSUME UNCHANGED <<recs, slots>>
  PROVE  Settled' = Settled
BY ChargeOfRecords DEF Settled, SettledBy, Loadable, Holds

\* Layer three, the factory copy.
LEMMA FactoryWholeStep ==
  ASSUME WholeInv, EraseFactorySector \/ CopyFactoryPage \/ SaveMaster \/ SaveBackup
  PROVE  SettledOnce' /\ CopyHeld' /\ CandidateHeld'
<1>1. FactoryPending /\ pc \in FactoryPcs
  BY DEF WholeInv, DownloadInv, ChargeInv, BootOwns, EraseFactorySector,
     CopyFactoryPage, SaveMaster, SaveBackup, FactoryPcs
<1>2. UNCHANGED <<chip, meta>>
  BY DEF EraseFactorySector, CopyFactoryPage, SaveMaster, SaveBackup, StoreCut
<1>3. FactoryPending' /\ meta \in Images
  BY <1>1, <1>2, PendingOf, PendingIsValid DEF WholeInv, DownloadInv, ChargeInv
<1>4. CASE pc' = "reset" BY <1>3, <1>4, ResetInstalled
<1>5. CASE pc' # "reset"
  <2>1. pc' \notin {"checkOta"} \cup LoadPcs
    BY <1>5 DEF EraseFactorySector, CopyFactoryPage, SaveMaster, SaveBackup, SpoiltCopy,
       NextBlock, BootPowerFails, BootReset, LeaveLoops, GoTo, LoadPcs
  <2>2. SettledOnce' /\ CandidateHeld' BY <1>3, <2>1 DEF SettledOnce, CandidateHeld
  <2>3. CASE EraseFactorySector
    <3>1. pc' \in {"eraseFactory", "copyFactory"}
      BY <1>5, <2>3 DEF EraseFactorySector, NextBlock, BootPowerFails, BootReset,
         LeaveLoops
    <3>2. QED BY <2>2, <3>1 DEF CopyHeld
  <2>4. CASE CopyFactoryPage
    <3>1. \/ pc' = "copyFactory"
          \/ pc' = "saveMaster" /\ CopyVerifies(slots'[FLASH_APP_ID_FACTORY])
      BY <1>5, <2>4 DEF CopyFactoryPage, NextBlock, BootPowerFails, BootReset, LeaveLoops
    <3>2. CopyVerifies(slots'[FLASH_APP_ID_FACTORY]) =>
            Holds(slots'[FLASH_APP_ID_FACTORY], meta)
      BY <1>1 DEF CopyVerifies, FactoryPending, check_onchip_factory_metadata, Holds
    <3>3. CopyHeld' BY <1>2, <3>1, <3>2 DEF CopyHeld, Holds
    <3>4. QED BY <2>2, <3>3
  <2>5. CASE SaveMaster
    <3>1. /\ pc = "saveMaster" /\ pc' = "saveBackup" /\ UNCHANGED <<slots, meta>>
          /\ recs' = [recs EXCEPT ![FLASH_OTA_ID_MASTER] = FactoryRecord(meta)]
      BY <1>2, <1>5, <2>5 DEF SaveMaster, SpoiltCopy, GoTo, BootReset, LeaveLoops
    <3>2. recs'[FLASH_OTA_ID_MASTER] = FactoryRecord(meta)
      BY <3>1 DEF WholeInv, DownloadInv, ChargeInv, TypeInv, TypeOK, BoardTypeOK, OtaIds
    <3>3. CopyHeld' BY <3>1, <3>2 DEF WholeInv, Installed, CopyHeld, Holds, FactoryRecord
    <3>4. QED BY <2>2, <3>3
  <2>6. CASE SaveBackup
    <3>1. /\ pc = "saveBackup" /\ pc' = "eraseMeta" /\ UNCHANGED <<slots, meta>>
          /\ recs' = [recs EXCEPT ![FLASH_OTA_ID_BACKUP] = ota_info]
      BY <1>2, <1>5, <2>6 DEF SaveBackup, SpoiltCopy, GoTo, BootReset, LeaveLoops
    <3>2. ota_info = FactoryRecord(meta)
      BY <3>1 DEF WholeInv, DownloadInv, ChargeInv, BootOwns
    <3>3. /\ recs'[FLASH_OTA_ID_BACKUP] = FactoryRecord(meta)
          /\ recs'[FLASH_OTA_ID_MASTER] = recs[FLASH_OTA_ID_MASTER]
      BY <3>1, <3>2 DEF WholeInv, DownloadInv, ChargeInv, TypeInv, TypeOK, BoardTypeOK,
         OtaIds, FLASH_OTA_ID_MASTER, FLASH_OTA_ID_BACKUP
    <3>4. CopyHeld'
      BY <3>1, <3>3 DEF WholeInv, Installed, CopyHeld, Holds, FactoryRecord
    <3>5. QED BY <2>2, <3>4
  <2>7. QED BY <2>2, <2>3, <2>4, <2>5, <2>6
<1>6. QED BY <1>4, <1>5

\* Layer three, the choice of an application and its copy to the chip.
LEMMA LoadWholeStep ==
  ASSUME "torn" \notin Mishaps, WholeInv,
         check_ota \/ TryLoad \/ EraseChipPage \/ ProgramChipPage \/ Loaded
  PROVE  SettledOnce' /\ CopyHeld' /\ CandidateHeld'
<1>1. pc \in {"checkOta"} \cup LoadPcs /\ Settled
  BY DEF check_ota, TryLoad, EraseChipPage, ProgramChipPage, Loaded, LoadPcs,
     WholeInv, Installed, SettledOnce
<1>2. pc' \in LoadPcs \cup {"leave", "reset"}
  BY DEF check_ota, TryLoad, EraseChipPage, ProgramChipPage, Loaded, LoadPcs, GoTo,
     NextBlock, LoadFails, LeaveLoops, BootReset, BootPowerFails
<1>3. CopyHeld' BY <1>2 DEF CopyHeld, LoadPcs
<1>4. CASE check_ota \/ TryLoad \/ EraseChipPage \/ ProgramChipPage
  <2>1. UNCHANGED <<recs, slots>>
    BY <1>4 DEF check_ota, TryLoad, EraseChipPage, ProgramChipPage, flash
  <2>2. SettledOnce' BY <1>1, <2>1, SettledOf DEF SettledOnce
  <2>3. CandidateHeld'
    <3>1. CASE check_ota
      BY <3>1 DEF check_ota, GoTo, CandidateHeld, LoadPcs
    <3>2. CASE TryLoad
      BY <3>2 DEF TryLoad, GoTo, LoadFails, LeaveLoops, flash, CandidateHeld, LoadPcs,
         Candidate, Holds
    <3>3. CASE EraseChipPage \/ ProgramChipPage
      <4>1. Holds(slots[Candidate], ota_info.info[Candidate])
        BY <3>3 DEF EraseChipPage, ProgramChipPage, WholeInv, Installed, CandidateHeld,
           LoadPcs
      <4>2. \/ pc' \in {"tryLoad", "leave", "reset"}
            \/ UNCHANGED <<slots, turn, ota_info>>
        BY <3>3 DEF EraseChipPage, ProgramChipPage, NextBlock, LoadFails, LeaveLoops,
           BootPowerFails, BootReset
      <4>3. QED BY <4>1, <4>2 DEF CandidateHeld, Candidate, Holds, LoadPcs
    <3>4. QED BY <1>4, <3>1, <3>2, <3>3
  <2>4. QED BY <1>3, <2>2, <2>3
<1>5. CASE Loaded
  <2>1. pc' \in {"leave", "reset"} /\ CandidateHeld' /\ UNCHANGED <<slots, chip, meta>>
    BY <1>5 DEF Loaded, LeaveLoops, BootReset, StoreCut, CandidateHeld, LoadPcs, flash
  <2>2. /\ sysctx.otaid = ChosenOldId /\ ota_info = ChosenRecord
        /\ Candidate \in Apps /\ Holds(slots[Candidate], ota_info.info[Candidate])
        /\ TypeInv
    BY <1>5, CandidateType
    DEF Loaded, LoadPcs, WholeInv, DownloadInv, ChargeInv, BootOwns, Installed,
       CandidateHeld
  <2>3. recs \in [OtaIds -> OtaInfo] /\ ChosenRecord \in OtaInfo /\ ChosenOldId \in OtaIds
    BY <2>2, OldIdType DEF TypeInv, TypeOK, BoardTypeOK, ChosenRecord
  <2> DEFINE r == BootedRecord(ota_info, Candidate)
  <2>4. \/ UNCHANGED recs
        \/ StoreCut(ChosenOldId, r)
        \/ recs' = [recs EXCEPT ![ChosenOldId] = r] /\ ota_info.seq < SeqLimit
    BY <1>5, <2>2 DEF Loaded, Store, flash
  <2>5. Settled'
    <3>1. CASE UNCHANGED recs BY <1>1, <2>1, <3>1, SettledOf
    <3>2. CASE StoreCut(ChosenOldId, r)
      <4>1. ChosenRecord' = ChosenRecord
        BY <1>1, <2>2, <3>2, StoreCutKeepsCharge DEF Settled, SettledBy
      <4>2. QED BY <1>1, <2>1, <4>1 DEF Settled, SettledBy, Loadable, Holds
    <3>3. CASE recs' = [recs EXCEPT ![ChosenOldId] = r] /\ ota_info.seq < SeqLimit
      <4>1. ota_info \in OtaInfo /\ ota_info.seq \in Nat
        BY <2>2, <2>3, StoreAssumption DEF OtaInfo, Seqs, ErasedSeq
      <4>2. [ota_info EXCEPT !.seq = @ + 1] \in OtaInfo BY <3>3, <4>1, NextRecordType
      <4>3. /\ r \in OtaInfo /\ r.seq = ota_info.seq + 1 /\ r.current_app = Candidate
            /\ r.info = ota_info.info
        BY <2>2, <4>1, <4>2 DEF BootedRecord, OtaInfo
      <4>4. r.current_app # BadApp
        BY <2>2, <4>3 DEF Apps, BadApp, FLASH_APP_ID_FACTORY, FLASH_APP_ID_APP1,
           FLASH_APP_ID_APP2
      <4>5. r.seq = recs[Other(ChosenOldId)].seq + 1 /\ r.seq <= SeqLimit
        BY <2>2, <3>3, <4>1, <4>3, StoreAssumption DEF ChosenRecord
      <4> HIDE DEF r
      <4>6. ChosenRecord' = r
        BY <2>3, <3>3, <4>3, <4>4, <4>5, RewriteTakesCharge
      <4>7. SettledBy(r)
        BY <1>1, <2>2, <4>3, <4>4 DEF Settled, SettledBy, Loadable
      <4>8. QED BY <2>1, <4>6, <4>7 DEF Settled, SettledBy, Loadable, Holds
    <3>4. QED BY <2>4, <3>1, <3>2, <3>3
  <2>6. QED BY <1>3, <2>1, <2>5 DEF SettledOnce
<1>6. QED BY <1>4, <1>5

LEMMA BootWholeStep ==
  ASSUME "torn" \notin Mishaps, WholeInv, BootNext, UNCHANGED clientVars
  PROVE  Installed'
<1>1. TypeInv /\ SettledOnce /\ CopyHeld /\ (pc # "reset" => mode = "boot")
  BY DEF WholeInv, DownloadInv, ChargeInv, Installed, TypeInv, BootProgress
<1>2. CASE PowerOn \/ EnterIsp \/ Jump \/ IspReboot \/ PowerCycleLost \/ PowerCutInBoot
  <2>1. UNCHANGED <<recs, slots, chip, meta>> /\ pc' = "reset"
    BY <1>1, <1>2 DEF PowerOn, EnterIsp, Jump, IspReboot, PowerCycleLost, PowerCutInBoot,
       BootPowerFails, BootReset, LeaveLoops, bootVars, flash
  <2>2. FactoryPending' \/ Settled'
    BY <1>1, <2>1, PendingOf, SettledOf DEF SettledOnce
  <2>3. QED BY <2>1, <2>2, ResetInstalled DEF Installed
<1>3. CASE MainStart
  <2>1. UNCHANGED <<recs, slots, chip, meta>> /\ pc' \in {"eraseFactory", "leave", "checkOta"}
    BY <1>3 DEF MainStart, GoTo, AfterFactory, flash
  <2>2. FactoryPending => pc' = "eraseFactory"
    BY <1>1, <1>3, PendingIsValid DEF MainStart, GoTo
  <2>3. ~FactoryPending => Settled BY <1>1 DEF SettledOnce
  <2>4. SettledOnce'
    BY <2>1, <2>2, <2>3, PendingOf, SettledOf DEF SettledOnce, LoadPcs
  <2>5. CopyHeld' /\ CandidateHeld' BY <2>1 DEF CopyHeld, CandidateHeld, LoadPcs
  <2>6. QED BY <2>4, <2>5 DEF Installed
<1>4. CASE EraseFactorySector \/ CopyFactoryPage \/ SaveMaster \/ SaveBackup
  BY <1>4, FactoryWholeStep DEF Installed
<1>5. CASE EraseMeta
  <2>1. UNCHANGED <<recs, slots>> /\ pc' \in {"reset", "leave", "checkOta"}
    BY <1>5 DEF EraseMeta, GoTo, AfterFactory
  <2>2. Settled' BY <1>1, <1>5, <2>1, CopySettles, SettledOf DEF EraseMeta
  <2>3. SettledOnce' /\ CopyHeld' /\ CandidateHeld'
    BY <2>1, <2>2 DEF SettledOnce, CopyHeld, CandidateHeld, LoadPcs
  <2>4. QED BY <2>3 DEF Installed
<1>6. CASE check_ota \/ TryLoad \/ EraseChipPage \/ ProgramChipPage \/ Loaded
  BY <1>6, LoadWholeStep DEF Installed
<1>7. QED BY <1>2, <1>3, <1>4, <1>5, <1>6 DEF BootNext, BootSteps

-----------------------------------------------------------------------------
\* Layer three, the application.

\* What a step of the client leaves of the slots a settled record names.
LEMMA ClientSlots ==
  ASSUME ChargeInv, Next, ~FactoryPending, Settled
  PROVE  /\ slots'[ChosenRecord.current_app] = slots[ChosenRecord.current_app]
         /\ slots'[FLASH_APP_ID_FACTORY] = slots[FLASH_APP_ID_FACTORY]
<1>1. ChosenRecord \in OtaInfo /\ slots \in [Apps -> Areas]
  BY OldIdType DEF ChosenRecord, ChargeInv, TypeInv, TypeOK, BoardTypeOK
<1>2. ChosenRecord.current_app \in Apps /\ FLASH_APP_ID_FACTORY \in Apps
  BY <1>1 DEF Settled, SettledBy, OtaInfo, Apps
<1>3. CASE UNCHANGED slots BY <1>3
<1>4. CASE ClientOwns /\ ota_state \in {"ERASING", "DOWNLOADING"}
  <2>1. /\ ChosenRecord.current_app # appid_to_upgrade
        /\ FLASH_APP_ID_FACTORY # appid_to_upgrade
    BY <1>4 DEF ClientOwns
  <2>2. UNCHANGED slots \/ \E b, c : slots' = SetBlock(slots, appid_to_upgrade, b, c)
    BY SlotWriters
  <2>3. QED BY <1>1, <1>2, <2>1, <2>2, SetBlockElsewhere
<1>5. QED BY <1>3, <1>4, SlotWriters

\* The chip is the boot loader's.
LEMMA ClientLeavesChip ==
  ASSUME ClientNext
  PROVE  UNCHANGED <<chip, meta>> /\ FactoryPending' = FactoryPending
<1>1. CASE ota_start \/ ota_1s_event
  BY <1>1, PendingOf DEF ota_start, ota_init, ota_init_cut, StoreCut, ota_1s_event,
     ota_1s_event_interval, ota_1s_event_timeout, flash, boardVars
<1>2. CASE ota_run
  BY <1>2, PendingOf DEF ota_run, ota_run_timeup, ota_run_timeout, ota_run_preparing,
     ota_run_erase_sector, ota_run_erased, WriteBack, WriteBackCut, StoreCut, boardVars
<1>3. CASE isp_handle
  BY <1>3, PendingOf DEF isp_handle, ota_on_latest_app_info, ota_on_app_data,
     ota_on_app_data_block, ota_on_app_data_applied, ota_on_app_data_crc_error,
     ota_on_app_data_verify_error, ota_on_app_data_unexpected, ota_on_app_data_cut,
     EntersError, DropPacket, WriteBack, WriteBackCut, StoreCut, flash, boardVars
<1>4. CASE \/ ServerSteps \/ OperatorEdits \/ PacketLost
           \/ AppReset \/ PowerCutInApp \/ PowerCycle
  BY <1>4, PendingOf DEF ServerSteps, ServerAnswersCheck, ServerAnswersData,
     OperatorEdits, PacketLost, AppReset, PowerCutInApp, PowerCycle, flash
<1>5. QED BY <1>1, <1>2, <1>3, <1>4 DEF ClientNext

\* What writing the record back leaves in charge is whole.
LEMMA WriterWhole ==
  ASSUME "torn" \notin Mishaps, WholeInv, WriterSteps, UNCHANGED bootVars
  PROVE  /\ FactoryPending \/ Settled'
         /\ CurrentImage' = IF ota_state' = "APPLYING" THEN Upgrade ELSE CurrentImage
<1>1. ChargeInv /\ TypeInv /\ ClientOwns /\ Running /\ ota_state # "APPLYING"
  BY WriterWrites, WriterOwns DEF WholeInv, DownloadInv, ChargeInv
<1>2. /\ sysctx.otaid = ChosenOldId /\ ChosenRecord.current_app # BadApp
      /\ ota_info.current_app = ChosenRecord.current_app
      /\ ota_info.current_app \in Apps /\ appid_to_upgrade \in Apps
      /\ ota_info.current_app # appid_to_upgrade
      /\ FLASH_APP_ID_FACTORY # appid_to_upgrade /\ FLASH_APP_ID_FACTORY \in Apps
      /\ \A a \in Apps \ {appid_to_upgrade} : ota_info.info[a] = ChosenRecord.info[a]
  BY <1>1 DEF ClientOwns, Apps, BadApp, FLASH_APP_ID_FACTORY, FLASH_APP_ID_APP1,
     FLASH_APP_ID_APP2, TypeInv, TypeOK, ClientTypeOK
<1>3. ~FactoryPending =>
        /\ Settled
        /\ slots'[ChosenRecord.current_app] = slots[ChosenRecord.current_app]
        /\ slots'[FLASH_APP_ID_FACTORY] = slots[FLASH_APP_ID_FACTORY]
  <2>1. ClientNext BY DEF WriterSteps, ClientNext, ota_run, isp_handle, ota_on_app_data
  <2>2. QED
    BY <1>1, <2>1, ClientSlots DEF WholeInv, Installed, SettledOnce, Next
<1>4. PICK r \in OtaInfo :
        /\ r.seq = ota_info.seq + 1 /\ r.seq <= SeqLimit /\ r.info = ota_info.info
        /\ \/ WriteBackCut(r)
           \/ /\ WriteBack(r) /\ UNCHANGED <<started, papp, appid_to_upgrade>>
              /\ \/ /\ ota_state' \in {"ERASING", "DOWNLOADING"}
                    /\ r.current_app = ota_info.current_app
                 \/ /\ ota_state' = "APPLYING" /\ ota_state = "DOWNLOADING"
                    /\ r.current_app = appid_to_upgrade
  BY <1>1, WriterWrites
<1>5. CASE WriteBackCut(r)
  <2>1. ota_state' = "IDLE" /\ ChosenRecord' = ChosenRecord
    BY <1>1, <1>2, <1>5, StoreCutKeepsCharge DEF WriteBackCut, RamLost
  <2>2. ~FactoryPending => Settled'
    BY <1>3, <2>1 DEF Settled, SettledBy, Loadable, Holds
  <2>3. CurrentImage' = CurrentImage BY <2>1 DEF CurrentImage
  <2>4. QED BY <2>1, <2>2, <2>3
<1>6. CASE /\ WriteBack(r) /\ UNCHANGED <<started, papp, appid_to_upgrade>>
           /\ ota_state' \in {"ERASING", "DOWNLOADING"}
           /\ r.current_app = ota_info.current_app
  <2>1. ChosenRecord' = r BY <1>1, <1>2, <1>4, <1>6, WriteBackCharge
  <2>2. /\ r.current_app = ChosenRecord.current_app
        /\ r.info[r.current_app] = ChosenRecord.info[r.current_app]
        /\ r.info[FLASH_APP_ID_FACTORY] = ChosenRecord.info[FLASH_APP_ID_FACTORY]
    BY <1>2, <1>4, <1>6
  <2>3. ~FactoryPending => Settled'
    BY <1>3, <2>1, <2>2 DEF Settled, SettledBy, Loadable, Holds
  <2>4. CurrentImage' = CurrentImage BY <2>1, <2>2 DEF CurrentImage
  <2>5. QED BY <1>6, <2>3, <2>4
<1>7. CASE /\ WriteBack(r) /\ UNCHANGED <<started, papp, appid_to_upgrade>>
           /\ ota_state' = "APPLYING" /\ ota_state = "DOWNLOADING"
           /\ r.current_app = appid_to_upgrade
  <2>1. ChosenRecord' = r BY <1>1, <1>2, <1>4, <1>7, WriteBackCharge
  <2>2. Loadable(ChosenRecord, appid_to_upgrade)'
    BY <1>7, AppliedCharge DEF WholeInv
  <2>3. r.info[appid_to_upgrade] = Upgrade BY <1>4 DEF Upgrade
  <2>4. r.info[FLASH_APP_ID_FACTORY] = ChosenRecord.info[FLASH_APP_ID_FACTORY]
    BY <1>2, <1>4
  <2>5. r.current_app # BadApp
    BY <1>2, <1>7 DEF Apps, BadApp, FLASH_APP_ID_FACTORY, FLASH_APP_ID_APP1,
       FLASH_APP_ID_APP2
  <2>6. ~FactoryPending => Settled'
    BY <1>3, <1>7, <2>1, <2>2, <2>4, <2>5 DEF Settled, SettledBy, Loadable, Holds
  <2>7. CurrentImage' = Upgrade BY <1>7, <2>1, <2>3 DEF CurrentImage
  <2>8. QED BY <1>7, <2>6, <2>7
<1>8. QED BY <1>4, <1>5, <1>6, <1>7

\* main up to its loop leaves what is whole in charge.
LEMMA InitWhole ==
  ASSUME "torn" \notin Mishaps, WholeInv, ota_start
  PROVE  /\ FactoryPending \/ Settled'
         /\ ~FactoryPending => CurrentImage' = CurrentImage
<1> DEFINE newest == recs[Other(OlderId)]
           reset  == [NextRecord(newest) EXCEPT !.dlstate = "IDLE"]
<1>1. /\ recs \in [OtaIds -> OtaInfo] /\ newest \in OtaInfo /\ TypeInv
      /\ BadIsErased(newest) /\ UNCHANGED slots
  BY OldIdType DEF WholeInv, DownloadInv, ChargeInv, TypeInv, TypeOK, BoardTypeOK,
     RecordsMarked, ota_start, ota_init, ota_init_cut
<1>2. CASE UNCHANGED recs
  BY <1>1, <1>2, SettledOf, ChargeOfRecords DEF WholeInv, Installed, SettledOnce
<1>3. CASE recs' # recs
  <2>1. /\ newest.dlstate \notin {"INVALID", "IDLE"} /\ newest.seq < SeqLimit
        /\ StoreCut(OlderId, reset) \/ recs' = [recs EXCEPT ![OlderId] = reset]
    BY <1>3 DEF ota_start, ota_init, ota_init_cut
  <2>2. newest.current_app # BadApp BY <1>1, <2>1 DEF BadIsErased
  <2>3. ChosenOldId = OlderId /\ ChosenRecord = newest
    BY <2>2 DEF ChosenOldId, ChosenRecord
  <2>4. /\ reset \in OtaInfo /\ reset.seq = newest.seq + 1 /\ reset.seq <= SeqLimit
        /\ reset.current_app = newest.current_app /\ reset.info = newest.info
    <3> DEFINE n == NextRecord(newest)
    <3>1. n \in OtaInfo BY <1>1, <2>1, NextRecordType DEF NextRecord
    <3>2. /\ n.seq = newest.seq + 1 /\ n.current_app = newest.current_app
          /\ n.info = newest.info
      BY <1>1 DEF NextRecord, OtaInfo
    <3>3. newest.seq + 1 <= SeqLimit
      BY <1>1, <2>1, StoreAssumption DEF OtaInfo, Seqs, ErasedSeq
    <3> HIDE DEF n
    <3>4. reset = [n EXCEPT !.dlstate = "IDLE"] BY DEF n
    <3>5. QED BY <3>1, <3>2, <3>3, <3>4 DEF OtaInfo, DlStates
  <2> HIDE DEF newest, reset
  <2>5. \/ ChosenRecord' = ChosenRecord
        \/ ChosenRecord' = reset
    <3>1. CASE StoreCut(OlderId, reset)
      BY <1>1, <2>2, <2>3, <3>1, StoreCutKeepsCharge
    <3>2. CASE recs' = [recs EXCEPT ![OlderId] = reset]
      BY <1>1, <2>2, <2>4, <3>2, OldIdType, RewriteTakesCharge DEF newest
    <3>3. QED BY <2>1, <3>1, <3>2
  <2>6. /\ ChosenRecord'.current_app = ChosenRecord.current_app
        /\ ChosenRecord'.info = ChosenRecord.info
    BY <2>3, <2>4, <2>5
  <2>7. ~FactoryPending => Settled BY DEF WholeInv, Installed, SettledOnce
  <2>8. QED
    BY <1>1, <2>6, <2>7 DEF Settled, SettledBy, Loadable, Holds, CurrentImage
<1>4. QED BY <1>2, <1>3

LEMMA ClientWholeStep ==
  ASSUME "torn" \notin Mishaps, WholeInv, ClientNext, UNCHANGED bootVars
  PROVE  Installed'
<1>1. ChargeInv /\ TypeInv /\ Installed BY DEF WholeInv, DownloadInv, ChargeInv
<1>2. FactoryPending' = FactoryPending BY ClientLeavesChip
<1>3. FactoryPending \/ Settled'
  <2>1. CASE ota_start BY <2>1, InitWhole
  <2>2. CASE WriterSteps BY <2>2, WriterWhole
  <2>3. CASE ~ota_start /\ ~WriterSteps
    <3>1. ChosenRecord' = ChosenRecord BY <2>3, OtherRecords, ChargeOfRecords
    <3>2. ~FactoryPending =>
            /\ Settled
            /\ slots'[ChosenRecord.current_app] = slots[ChosenRecord.current_app]
            /\ slots'[FLASH_APP_ID_FACTORY] = slots[FLASH_APP_ID_FACTORY]
      BY <1>1, ClientSlots DEF Installed, SettledOnce, Next
    <3>3. QED BY <3>1, <3>2 DEF Settled, SettledBy, Loadable, Holds
  <2>4. QED BY <2>1, <2>2, <2>3
<1>4. SettledOnce' /\ CopyHeld' /\ CandidateHeld'
  <2>1. pc' = pc BY DEF bootVars
  <2>2. CASE pc = "reset" BY <1>2, <1>3, <2>1, <2>2, ResetInstalled
  <2>3. CASE pc # "reset"
    <3>1. mode = "boot" BY <1>1, <2>3 DEF TypeInv, BootProgress
    <3>2. DropPacket \/ ServerSteps \/ OperatorEdits \/ PacketLost
      BY <3>1 DEF ClientNext, ota_start, ota_init, ota_init_cut, ota_1s_event,
         ota_1s_event_interval, ota_1s_event_timeout, ota_run, ota_run_timeup,
         ota_run_timeout, ota_run_preparing, ota_run_erase_sector, ota_run_erased,
         isp_handle, ota_on_latest_app_info, ota_on_app_data, ota_on_app_data_block,
         ota_on_app_data_applied, ota_on_app_data_crc_error,
         ota_on_app_data_verify_error, ota_on_app_data_unexpected, ota_on_app_data_cut,
         Expected, Arrives, Running, AppReset, PowerCutInApp, PowerCycle
    <3>3. UNCHANGED <<recs, slots, chip, meta, ota_info, bootVars>>
      BY <1>1, <3>2, LinkCharge DEF flash
    <3>4. QED
      BY <1>1, <3>3, PendingOf, SettledOf
      DEF Installed, SettledOnce, CopyHeld, CandidateHeld, Candidate, Holds, bootVars,
          FactoryRecord
  <2>4. QED BY <2>2, <2>3
<1>5. QED BY <1>4 DEF Installed

LEMMA WholeInit == Init => WholeInv
<1> SUFFICES ASSUME Init PROVE WholeInv OBVIOUS
<1>1. FactoryPending
  BY StoreAssumption DEF Init, BoardInit, FactoryPending, check_onchip_factory_metadata,
     Holds, AreaOf, Blocks
<1>2. pc = "reset" BY DEF Init, BootIdle
<1>3. QED
  BY <1>1, <1>2, DownloadInit DEF WholeInv, Installed, SettledOnce, CopyHeld,
     CandidateHeld, LoadPcs

LEMMA WholeStep ==
  ASSUME "torn" \notin Mishaps
  PROVE  WholeInv /\ [Next]_vars => WholeInv'
<1> SUFFICES ASSUME WholeInv, [Next]_vars PROVE WholeInv' OBVIOUS
<1>1. DownloadInv' BY DownloadStep DEF WholeInv
<1>2. CASE BootNext /\ UNCHANGED clientVars BY <1>1, <1>2, BootWholeStep DEF WholeInv
<1>3. CASE ClientNext /\ UNCHANGED bootVars BY <1>1, <1>3, ClientWholeStep DEF WholeInv
<1>4. CASE Reflash /\ UNCHANGED <<bootVars, clientVars>>
  <2>1. pc' = "reset"
    BY <1>4 DEF Reflash, WholeInv, DownloadInv, ChargeInv, TypeInv, BootProgress, bootVars
  <2>2. FactoryPending'
    BY <1>4, StoreAssumption DEF Reflash, FactoryPending, check_onchip_factory_metadata,
       Holds, AreaOf, Blocks
  <2>3. QED BY <1>1, <2>1, <2>2, ResetInstalled DEF WholeInv, Installed
<1>5. CASE UNCHANGED vars
  <2>1. UNCHANGED <<recs, slots, chip, meta, ota_info, pc, turn>>
    BY <1>5 DEF vars, boardVars, bootVars
  <2>2. SettledOnce' /\ CopyHeld' /\ CandidateHeld'
    BY <2>1, PendingOf, SettledOf DEF WholeInv, Installed, SettledOnce, CopyHeld,
       CandidateHeld, Candidate, Holds, FactoryRecord
  <2>3. QED BY <1>1, <2>2 DEF WholeInv, Installed
<1>6. QED BY <1>2, <1>3, <1>4, <1>5 DEF Next

\* Unless a record is torn while it is programmed: at every moment, whatever
\* power cuts, resets, failed copies to the chip and NOR blocks, lost packets
\* and edits of the server came before, the application a reset would choose is
\* in its slot, whole - or a factory image waits to be installed.
THEOREM CurrentStaysLoadable ==
  ASSUME "torn" \notin Mishaps
  PROVE  Spec => []CurrentLoadable
<1>1. WholeInv => CurrentLoadable
  BY DEF WholeInv, Installed, SettledOnce, Settled, SettledBy, CurrentLoadable
<1>2. QED BY <1>1, WholeInit, WholeStep, PTL DEF Spec

\* Under the same proviso the factory application, the last of the boot order,
\* stays whole: no download is ever sent to its slot.
THEOREM FactoryStaysLoadable ==
  ASSUME "torn" \notin Mishaps
  PROVE  Spec => []FactoryLoadable
<1>1. WholeInv => FactoryLoadable
  BY DEF WholeInv, Installed, SettledOnce, Settled, SettledBy, FactoryLoadable
<1>2. QED BY <1>1, WholeInit, WholeStep, PTL DEF Spec

-----------------------------------------------------------------------------
\* Layer four: what the chip runs.  A page that refuses its erase or program
\* makes the boot loader fall back on another application, which may be older
\* or leave the chip half programmed; this layer leaves that out as well.
SoundFlash == "torn" \notin Mishaps /\ "iapfault" \notin Mishaps

\* The metadata page is erased once its image is installed, before anything
\* touches the chip.
MetaTells ==
  /\ meta \in Images => FactoryPending
  /\ (mode \in {"isp", "app", "lost"} \/ pc \in {"checkOta", "leave"} \cup LoadPcs) =>
       meta \notin Images

\* The flag says what the chip looks like, until the chip is written.
FlagTells ==
  /\ pc \in FactoryPcs => sysctx.onchip_app_valid
  /\ pc \in {"checkOta", "tryLoad"} => 
       (sysctx.onchip_app_valid <=> is_valid_on_chip_app_program(chip))

\* Loops start at the first block, and the first choice loads.
LoopsStart ==
  /\ pc \notin {"eraseFactory", "copyFactory", "eraseChip", "programChip"} => block = 1
  /\ pc \in LoadPcs => turn = 1

\* The current application is on the chip - or the chip was found invalid.
OnChip == Holds(chip, CurrentImage) \/ ~is_valid_on_chip_app_program(chip)

ChipProgress ==
  /\ pc = "eraseChip" => \A b \in 1 .. block - 1 : chip[b] = Blank
  /\ pc = "programChip" =>
       /\ block <= Size[CurrentImage]
       /\ \A b \in 1 .. block - 1 : chip[b] = CurrentImage
       /\ \A b \in block .. NumBlocks : chip[b] = Blank
  /\ pc = "loaded" => OnChip
  /\ pc = "leave" => sysctx.dfu \/ OnChip

AppRuns ==
  /\ LostOnlyIfInvalid
  /\ mode = "app" => ota_state = "APPLYING" \/ Holds(chip, CurrentImage)

\* What is downloaded is newer than what runs.
DownloadsNewer ==
  ota_state \in {"PREPARING", "ERASING", "DOWNLOADING"} =>
    VersionOf(Upgrade) > VersionOf(ota_info.info[papp])

Runs == /\ MetaTells /\ FlagTells /\ LoopsStart /\ ChipProgress
        /\ AppRuns /\ DownloadsNewer

RunsInv == WholeInv /\ Runs

-----------------------------------------------------------------------------
\* Outside the boot loader's loops there is little to tell.
LEMMA ResetRuns ==
  ASSUME MetaTells, pc' = "reset", block' = 1, mode' \in {"off", "boot"},
         ota_state' = "IDLE", UNCHANGED meta, UNCHANGED chip \/ meta \notin Images
  PROVE  Runs'
<1>1. meta' \in Images => FactoryPending' BY PendingOf DEF MetaTells
<1>2. MetaTells' BY <1>1 DEF MetaTells, LoadPcs
<1>3. QED
  BY <1>2 DEF Runs, FlagTells, LoopsStart, ChipProgress, AppRuns, LostOnlyIfInvalid,
     DownloadsNewer, FactoryPcs, LoadPcs

\* A boot loader that has gone back to its start.
LEMMA BackToReset ==
  ASSUME RunsInv, ota_state' = "IDLE", BootPowerFails, UNCHANGED meta,
         UNCHANGED chip \/ meta \notin Images
  PROVE  Runs'
BY ResetRuns DEF RunsInv, Runs, BootPowerFails, PowerFails, BootReset, LeaveLoops

\* With nothing pending the record in charge names a real image.
LEMMA SettledImage ==
  ASSUME WholeInv, ~FactoryPending
  PROVE  /\ Settled /\ CurrentImage \in Images /\ Size[CurrentImage] \in Blocks
         /\ ChosenRecord \in OtaInfo /\ ChosenRecord.current_app \in Apps
         /\ Holds(slots[ChosenRecord.current_app], CurrentImage)
<1>1. Settled BY DEF WholeInv, Installed, SettledOnce
<1>2. ChosenRecord \in OtaInfo
  BY OldIdType DEF ChosenRecord, WholeInv, DownloadInv, ChargeInv, TypeInv, TypeOK,
     BoardTypeOK
<1>3. /\ ChosenRecord.current_app \in Apps
      /\ Holds(slots[ChosenRecord.current_app], CurrentImage)
  BY <1>1, <1>2 DEF Settled, SettledBy, Loadable, OtaInfo, CurrentImage
<1>4. QED BY <1>1, <1>2, <1>3, StoreAssumption DEF Holds

\* A real image on the chip shows in the first block.
LEMMA HeldShows ==
  ASSUME NEW i, Holds(chip, i)
  PROVE  i \in Images /\ chip[1] = i /\ is_valid_on_chip_app_program(chip)
<1>1. i \in Images /\ Size[i] \in Blocks BY StoreAssumption DEF Holds
<1>2. 1 \in 1 .. Size[i] BY <1>1, StoreAssumption DEF Blocks
<1>3. chip[1] = i BY <1>2 DEF Holds
<1>4. i # Blank /\ i # TornHead BY <1>1, StoreAssumption DEF Images, Blank, TornHead
<1>5. QED BY <1>1, <1>3, <1>4 DEF is_valid_on_chip_app_program

\* The steps of the boot loader that write neither the chip nor its metadata,
\* up to the choice.
LEMMA FactoryRunsStep ==
  ASSUME RunsInv, ota_state' = "IDLE",
         EraseFactorySector \/ CopyFactoryPage \/ SaveMaster \/ SaveBackup
  PROVE  Runs'
<1>1. MetaTells /\ FlagTells /\ LoopsStart /\ TypeInv /\ mode = "boot" /\ pc \in FactoryPcs
  BY DEF RunsInv, Runs, WholeInv, DownloadInv, ChargeInv, EraseFactorySector,
     CopyFactoryPage, SaveMaster, SaveBackup, FactoryPcs
<1>2. UNCHANGED <<chip, meta>>
  BY DEF EraseFactorySector, CopyFactoryPage, SaveMaster, SaveBackup, StoreCut
<1>3. CASE BootReset /\ mode' = "off"
  BY <1>1, <1>2, <1>3, ResetRuns DEF BootReset, LeaveLoops
<1>4. CASE EraseFactorySector /\ mode' = mode
  <2>1. /\ pc' \in {"eraseFactory", "copyFactory"} /\ sysctx' = sysctx
    BY <1>1, <1>4 DEF EraseFactorySector, NextBlock, BootPowerFails, PowerFails
  <2>2. MetaTells' BY <1>1, <1>2, <1>4, <2>1, PendingOf DEF MetaTells, LoadPcs
  <2>3. QED
    BY <1>1, <1>4, <2>1, <2>2 DEF Runs, FlagTells, LoopsStart, ChipProgress, AppRuns,
       LostOnlyIfInvalid, DownloadsNewer, FactoryPcs, LoadPcs
<1>5. CASE CopyFactoryPage /\ mode' = mode
  <2>1. /\ \/ pc' = "copyFactory"
           \/ pc' \in {"saveMaster", "reset"} /\ block' = 1
        /\ sysctx' = sysctx
    BY <1>1, <1>5 DEF CopyFactoryPage, NextBlock, BootPowerFails, PowerFails
  <2>2. MetaTells' BY <1>1, <1>2, <1>5, <2>1, PendingOf DEF MetaTells, LoadPcs
  <2>3. QED
    BY <1>1, <1>5, <2>1, <2>2 DEF Runs, FlagTells, LoopsStart, ChipProgress, AppRuns,
       LostOnlyIfInvalid, DownloadsNewer, FactoryPcs, LoadPcs
<1>6. CASE (SaveMaster \/ SaveBackup) /\ mode' = mode
  <2>1. /\ pc' \in {"saveBackup", "eraseMeta", "reset"} /\ block' = block
        /\ sysctx'.onchip_app_valid = sysctx.onchip_app_valid
        /\ pc \in {"saveMaster", "saveBackup"}
    BY <1>1, <1>6 DEF SaveMaster, SaveBackup, SpoiltCopy, GoTo, StoreCut, PowerFails, Toggled,
       TypeInv, TypeOK, BoardTypeOK, SysCtx
  <2>2. MetaTells' BY <1>1, <1>2, <1>6, <2>1, PendingOf DEF MetaTells, LoadPcs
  <2>3. QED
    BY <1>1, <1>6, <2>1, <2>2 DEF Runs, FlagTells, LoopsStart, ChipProgress, AppRuns,
       LostOnlyIfInvalid, DownloadsNewer, FactoryPcs, LoadPcs
<1>7. mode' = mode \/ (BootReset /\ mode' = "off")
  BY DEF EraseFactorySector, CopyFactoryPage, SaveMaster, SaveBackup, StoreCut,
     BootPowerFails, PowerFails
<1>8. QED BY <1>3, <1>4, <1>5, <1>6, <1>7

\* The application whose turn it is, is the current one, and whole.
LEMMA CandidateIsCurrent ==
  ASSUME RunsInv, pc \in LoadPcs
  PROVE  /\ meta \notin Images /\ ~FactoryPending /\ mode = "boot"
         /\ Candidate = ota_info.current_app /\ ota_info.info[Candidate] = CurrentImage
         /\ CurrentImage \in Images /\ Size[CurrentImage] \in Blocks
         /\ Holds(slots[Candidate], CurrentImage)
<1>1. meta \notin Images /\ ~FactoryPending /\ mode = "boot"
  BY DEF RunsInv, Runs, MetaTells, WholeInv, DownloadInv, ChargeInv, TypeInv,
     BootProgress, LoadPcs, FactoryPending, check_onchip_factory_metadata, Holds
<1>2. ota_info = ChosenRecord /\ turn = 1
  BY DEF RunsInv, Runs, LoopsStart, WholeInv, DownloadInv, ChargeInv, BootOwns
<1>3. Candidate = ota_info.current_app
  BY <1>2 DEF Candidate, BootOrder
<1>4. QED BY <1>1, <1>2, <1>3, SettledImage DEF RunsInv, CurrentImage

\* The erase of the chip, from the first page to the last.
LEMMA EraseRunsStep ==
  ASSUME SoundFlash, RunsInv, ota_state' = "IDLE", EraseChipPage
  PROVE  Runs'
<1>1. /\ MetaTells /\ LoopsStart /\ ChipProgress /\ meta \notin Images /\ mode = "boot"
      /\ turn = 1 /\ pc = "eraseChip" /\ UNCHANGED <<recs, slots, meta>>
  BY CandidateIsCurrent DEF RunsInv, Runs, LoopsStart, EraseChipPage, LoadPcs
<1>2. CASE BootPowerFails BY <1>1, <1>2, BackToReset
<1>3. CASE ~BootPowerFails
  <2>1. /\ chip' = [chip EXCEPT ![block] = Blank]
        /\ NextBlock(NumBlocks, "programChip") /\ UNCHANGED mode
    BY <1>3 DEF EraseChipPage, Mishap, SoundFlash
  <2>2. chip \in [Blocks -> Cells] /\ block \in Blocks
    BY DEF RunsInv, WholeInv, DownloadInv, ChargeInv, TypeInv, TypeOK, BoardTypeOK,
       BootTypeOK, Areas
  <2>3. \A b \in 1 .. block : chip'[b] = Blank
    BY <1>1, <2>1, <2>2, StoreAssumption DEF ChipProgress, Blocks
  <2>4. CurrentImage' = CurrentImage /\ CurrentImage \in Images /\ Size[CurrentImage] \in Blocks
    BY <1>1, ChargeOfRecords, CandidateIsCurrent DEF LoadPcs, CurrentImage
  <2>5. MetaTells' BY <1>1 DEF MetaTells
  <2>6. CASE block < NumBlocks
    <3>1. pc' = "eraseChip" /\ block' = block + 1 /\ turn' = 1
      BY <1>1, <2>1, <2>6 DEF NextBlock
    <3>2. \A b \in 1 .. block' - 1 : chip'[b] = Blank
      BY <2>2, <2>3, <3>1 DEF Blocks
    <3>3. QED
      BY <1>1, <2>1, <2>5, <3>1, <3>2 DEF Runs, FlagTells, LoopsStart, ChipProgress,
         AppRuns, LostOnlyIfInvalid, DownloadsNewer, FactoryPcs
  <2>7. CASE ~(block < NumBlocks)
    <3>1. pc' = "programChip" /\ block' = 1 /\ turn' = 1
      BY <1>1, <2>1, <2>7 DEF NextBlock
    <3>2. block = NumBlocks BY <2>2, <2>7, StoreAssumption DEF Blocks
    <3>3. /\ block' <= (Size[CurrentImage])'
          /\ \A b \in 1 .. block' - 1 : chip'[b] = CurrentImage'
          /\ \A b \in block' .. NumBlocks : chip'[b] = Blank
      BY <2>3, <2>4, <3>1, <3>2 DEF Blocks
    <3>4. QED
      BY <1>1, <2>1, <2>5, <3>1, <3>3 DEF Runs, FlagTells, LoopsStart, ChipProgress,
         AppRuns, LostOnlyIfInvalid, DownloadsNewer, FactoryPcs
  <2>8. QED BY <2>6, <2>7
<1>4. QED BY <1>2, <1>3

\* The program of the chip: every block takes, and the last one completes the
\* current application.
LEMMA ProgramRunsStep ==
  ASSUME SoundFlash, RunsInv, ota_state' = "IDLE", ProgramChipPage
  PROVE  Runs'
<1>1. /\ MetaTells /\ LoopsStart /\ ChipProgress /\ meta \notin Images /\ mode = "boot"
      /\ turn = 1 /\ pc = "programChip" /\ UNCHANGED <<recs, slots, meta>>
  BY CandidateIsCurrent DEF RunsInv, Runs, LoopsStart, ProgramChipPage, LoadPcs
<1>2. CASE BootPowerFails BY <1>1, <1>2, BackToReset
<1>3. CASE ~BootPowerFails
  <2>1. chip \in [Blocks -> Cells] /\ block \in Blocks
    BY DEF RunsInv, WholeInv, DownloadInv, ChargeInv, TypeInv, TypeOK, BoardTypeOK,
       BootTypeOK, Areas
  <2>2. /\ CurrentImage \in Images /\ Size[CurrentImage] \in Blocks
        /\ Holds(slots[Candidate], CurrentImage) /\ ota_info.info[Candidate] = CurrentImage
    BY <1>1, CandidateIsCurrent DEF LoadPcs
  <2>3. block <= Size[CurrentImage] /\ chip[block] = Blank
    BY <1>1, <2>1, StoreAssumption DEF ChipProgress, Blocks
  <2>4. slots[Candidate][block] = CurrentImage
    BY <2>1, <2>2, <2>3 DEF Holds, Blocks
  <2>5. /\ chip' = [chip EXCEPT ![block] = CurrentImage]
        /\ NextBlock(Size[CurrentImage], "loaded") /\ UNCHANGED mode
    BY <1>3, <2>2, <2>3, <2>4 DEF ProgramChipPage, TakesBlock, Mishap, SoundFlash,
       BlocksToProgram
  <2>6. \A b \in 1 .. block : chip'[b] = CurrentImage
    BY <1>1, <2>1, <2>5, StoreAssumption DEF ChipProgress, Blocks
  <2>7. \A b \in block + 1 .. NumBlocks : chip'[b] = Blank
    <3>1. \A b \in block + 1 .. NumBlocks : b \in Blocks /\ b # block /\ b \in block .. NumBlocks
      BY <2>1, StoreAssumption DEF Blocks
    <3>2. QED BY <1>1, <2>1, <2>5, <3>1 DEF ChipProgress
  <2>8. CurrentImage' = CurrentImage BY <1>1, ChargeOfRecords DEF CurrentImage
  <2>9. MetaTells' BY <1>1 DEF MetaTells
  <2>10. CASE block < Size[CurrentImage]
    <3>1. pc' = "programChip" /\ block' = block + 1 /\ turn' = 1
      BY <1>1, <2>5, <2>10 DEF NextBlock
    <3>2. /\ block' <= (Size[CurrentImage])'
          /\ \A b \in 1 .. block' - 1 : chip'[b] = CurrentImage'
          /\ \A b \in block' .. NumBlocks : chip'[b] = Blank
      BY <2>1, <2>2, <2>6, <2>7, <2>8, <2>10, <3>1 DEF Blocks
    <3>3. QED
      BY <1>1, <2>5, <2>9, <3>1, <3>2 DEF Runs, FlagTells, LoopsStart, ChipProgress,
         AppRuns, LostOnlyIfInvalid, DownloadsNewer, FactoryPcs
  <2>11. CASE ~(block < Size[CurrentImage])
    <3>1. pc' = "loaded" /\ block' = 1 /\ turn' = 1
      BY <1>1, <2>5, <2>11 DEF NextBlock
    <3>2. block = Size[CurrentImage] BY <2>1, <2>2, <2>3, <2>11 DEF Blocks
    <3>3. OnChip' BY <2>2, <2>6, <2>8, <3>2 DEF OnChip, Holds
    <3>4. QED
      BY <1>1, <2>5, <2>9, <3>1, <3>3 DEF Runs, FlagTells, LoopsStart, ChipProgress,
         AppRuns, LostOnlyIfInvalid, DownloadsNewer, FactoryPcs
  <2>12. QED BY <2>10, <2>11
<1>4. QED BY <1>2, <1>3

\* The start of main and the end of the factory copy.
LEMMA StartRunsStep ==
  ASSUME SoundFlash, RunsInv, ota_state' = "IDLE", MainStart \/ EraseMeta
  PROVE  Runs'
<1>1. /\ MetaTells /\ FlagTells /\ LoopsStart /\ TypeInv /\ mode = "boot" /\ mode' = mode
      /\ UNCHANGED <<chip, turn>> /\ block = 1 /\ block' = 1 /\ turn' = 1
  BY DEF RunsInv, Runs, WholeInv, DownloadInv, ChargeInv, MainStart, EraseMeta, GoTo,
     flash, LoopsStart, TypeInv, BootProgress, LoadPcs, FactoryPcs
<1>2. CASE MainStart
  <2>1. /\ pc = "reset" /\ meta' = meta
        /\ sysctx'.onchip_app_valid = is_valid_on_chip_app_program(chip)
        /\ sysctx'.dfu = sysctx.dfu
        /\ pc' = IF FactoryPending THEN "eraseFactory" ELSE AfterFactory(sysctx)
    BY <1>1, <1>2, PendingIsValid DEF MainStart, GoTo, FactoryPending, flash, AfterFactory
  <2>2. MetaTells'
    BY <1>1, <2>1, PendingOf DEF MetaTells, AfterFactory, LoadPcs
  <2>3. FlagTells'
    BY <1>1, <2>1, PendingIsValid
    DEF FlagTells, AfterFactory, FactoryPcs, is_valid_on_chip_app_program
  <2>4. LoopsStart' /\ ChipProgress'
    BY <1>1, <2>1 DEF LoopsStart, ChipProgress, AfterFactory, LoadPcs
  <2>5. AppRuns' /\ DownloadsNewer'
    BY <1>1 DEF AppRuns, LostOnlyIfInvalid, DownloadsNewer
  <2>6. QED BY <2>2, <2>3, <2>4, <2>5 DEF Runs
<1>3. CASE EraseMeta
  <2>1. /\ pc = "eraseMeta" /\ meta' = ErasedInfo /\ sysctx' = sysctx
        /\ pc' = AfterFactory(sysctx)
    BY <1>3 DEF EraseMeta, GoTo, Mishap, SoundFlash
  <2>2. MetaTells' BY <2>1, StoreAssumption DEF MetaTells, ErasedInfo, Images
  <2>3. FlagTells'
    <3>1. FactoryPending /\ sysctx.onchip_app_valid
      BY <1>1, <2>1 DEF RunsInv, WholeInv, DownloadInv, ChargeInv, BootOwns, FlagTells,
         FactoryPcs
    <3>2. is_valid_on_chip_app_program(chip) BY <1>1, <3>1, PendingIsValid
    <3>3. is_valid_on_chip_app_program(chip)'
      BY <1>1, <3>2 DEF is_valid_on_chip_app_program
    <3>4. QED BY <1>1, <2>1, <3>1, <3>3 DEF FlagTells, AfterFactory, FactoryPcs
  <2>4. LoopsStart' /\ ChipProgress'
    BY <1>1, <2>1 DEF LoopsStart, ChipProgress, AfterFactory, LoadPcs
  <2>5. AppRuns' /\ DownloadsNewer'
    BY <1>1 DEF AppRuns, LostOnlyIfInvalid, DownloadsNewer
  <2>6. QED BY <2>2, <2>3, <2>4, <2>5 DEF Runs
<1>4. QED BY <1>2, <1>3

\* The choice: the first application tried is there, and needs a copy or none.
LEMMA ChoiceRunsStep ==
  ASSUME SoundFlash, RunsInv, ota_state' = "IDLE", check_ota \/ TryLoad \/ Loaded
  PROVE  Runs'
<1>1. /\ MetaTells /\ FlagTells /\ LoopsStart /\ ChipProgress /\ TypeInv /\ mode = "boot"
      /\ UNCHANGED <<chip, meta>> /\ meta \notin Images /\ ~FactoryPending
  BY DEF RunsInv, Runs, WholeInv, DownloadInv, ChargeInv, check_ota, TryLoad, Loaded,
     flash, StoreCut, MetaTells, LoadPcs, FactoryPending, check_onchip_factory_metadata,
     Holds
<1>2. MetaTells' BY <1>1 DEF MetaTells
<1>3. CASE check_ota
  <2>1. /\ pc = "checkOta" /\ UNCHANGED <<mode, block, turn>> /\ block = 1 /\ turn = 1
        /\ sysctx'.onchip_app_valid = sysctx.onchip_app_valid
    BY <1>1, <1>3 DEF check_ota, GoTo, LoopsStart, TypeInv, TypeOK, BoardTypeOK, SysCtx,
       BootProgress, LoadPcs
  <2>2. pc' = "tryLoad"
    <3>1. Settled BY <1>1, SettledImage DEF RunsInv
    <3>2. QED BY <1>3, <3>1 DEF check_ota, GoTo, Settled, SettledBy, ChosenRecord
  <2>3. QED
    BY <1>1, <1>2, <2>1, <2>2 DEF Runs, FlagTells, LoopsStart, ChipProgress, AppRuns,
       LostOnlyIfInvalid, DownloadsNewer, FactoryPcs
<1>4. CASE TryLoad
  <2>1. /\ ota_info.info[Candidate] = CurrentImage /\ Holds(slots[Candidate], CurrentImage)
        /\ pc = "tryLoad" /\ UNCHANGED <<mode, recs, sysctx>>
    BY <1>4, CandidateIsCurrent DEF TryLoad, LoadPcs, flash
  <2>2. GoTo(IF NeedCopyFlashToChip(CurrentImage) THEN "eraseChip" ELSE "loaded")
    BY <1>4, <2>1 DEF TryLoad
  <2>3. /\ UNCHANGED <<block, turn>> /\ block = 1 /\ turn = 1
        /\ pc' \in {"eraseChip", "loaded"}
    BY <1>1, <2>1, <2>2 DEF GoTo, LoopsStart, LoadPcs
  <2>4. CurrentImage' = CurrentImage BY <2>1, ChargeOfRecords DEF CurrentImage
  <2>5. pc' = "loaded" => OnChip'
    BY <1>1, <2>1, <2>2, <2>4 DEF GoTo, NeedCopyFlashToChip, FlagTells, OnChip, Holds
  <2>6. QED
    BY <1>1, <1>2, <2>1, <2>3, <2>5 DEF Runs, FlagTells, LoopsStart, ChipProgress,
       AppRuns, LostOnlyIfInvalid, DownloadsNewer, FactoryPcs
<1>5. CASE Loaded
  <2>1. /\ pc = "loaded" /\ ota_info.current_app = Candidate /\ OnChip
    BY <1>1, <1>5, CandidateIsCurrent DEF Loaded, LoadPcs, ChipProgress
  <2>2. LeaveLoops("leave") /\ UNCHANGED <<flash, mode>>
    BY <1>5, <2>1 DEF Loaded
  <2>3. OnChip'
    BY <1>1, <2>1, <2>2, ChargeOfRecords DEF flash, OnChip, CurrentImage, Holds
  <2>4. QED
    BY <1>1, <1>2, <2>2, <2>3 DEF Runs, FlagTells, LoopsStart, ChipProgress, AppRuns,
       LostOnlyIfInvalid, DownloadsNewer, FactoryPcs, LoadPcs, LeaveLoops
<1>6. QED BY <1>3, <1>4, <1>5

\* The end of main, and what power and keys do to the boot loader.
LEMMA LeaveRunsStep ==
  ASSUME SoundFlash, RunsInv, ota_state' = "IDLE",
         PowerOn \/ EnterIsp \/ Jump \/ IspReboot \/ PowerCycleLost \/ PowerCutInBoot
  PROVE  Runs'
<1>1. /\ MetaTells /\ LoopsStart /\ ChipProgress /\ TypeInv /\ UNCHANGED flash
      /\ (pc # "reset" => mode = "boot")
  BY DEF RunsInv, Runs, WholeInv, DownloadInv, ChargeInv, TypeInv, BootProgress,
     PowerOn, EnterIsp, Jump, IspReboot, PowerCycleLost, PowerCutInBoot
<1>2. pc' = "reset" /\ block' = 1
  BY <1>1 DEF PowerOn, EnterIsp, Jump, IspReboot, PowerCycleLost, PowerCutInBoot,
     BootPowerFails, BootReset, LeaveLoops, bootVars, LoopsStart
<1>3. CASE mode' \in {"off", "boot"} BY <1>1, <1>2, <1>3, ResetRuns DEF flash
<1>4. CASE EnterIsp \/ Jump
  <2>1. pc = "leave" /\ meta \notin Images
    BY <1>1, <1>4 DEF EnterIsp, Jump, MetaTells
  <2>2. MetaTells' BY <1>1, <2>1 DEF MetaTells, flash
  <2>3. CurrentImage' = CurrentImage BY <1>1, ChargeOfRecords DEF CurrentImage, flash
  <2>4. AppRuns'
    <3>1. CASE EnterIsp BY <3>1 DEF EnterIsp, AppRuns, LostOnlyIfInvalid
    <3>2. CASE Jump
      <4>1. OnChip /\ chip' = chip
        BY <1>1, <2>1, <3>2 DEF Jump, StaysInIsp, ChipProgress, flash
      <4>2. CASE Holds(chip, CurrentImage)
        <5>1. mode' = "app" BY <3>2, <4>2, HeldShows DEF Jump
        <5>2. QED BY <2>3, <4>1, <4>2, <5>1 DEF AppRuns, LostOnlyIfInvalid, Holds
      <4>3. CASE ~is_valid_on_chip_app_program(chip)
        <5>1. mode' = "lost" BY <3>2, <4>3, HeldShows DEF Jump
        <5>2. QED BY <4>1, <4>3, <5>1 DEF AppRuns, LostOnlyIfInvalid
      <4>4. QED BY <4>1, <4>2, <4>3 DEF OnChip
    <3>3. QED BY <1>4, <3>1, <3>2
  <2>5. QED
    BY <1>2, <2>2, <2>4 DEF Runs, FlagTells, LoopsStart, ChipProgress, DownloadsNewer,
       FactoryPcs, LoadPcs
<1>5. QED
  BY <1>3, <1>4 DEF PowerOn, IspReboot, PowerCycleLost, PowerCutInBoot, BootPowerFails,
     PowerFails

LEMMA BootRunsStep ==
  ASSUME SoundFlash, RunsInv, BootNext, UNCHANGED clientVars
  PROVE  Runs'
<1>1. ota_state' = "IDLE" BY BootClientIdle DEF RunsInv, WholeInv, DownloadInv, ChargeInv
<1>2. QED
  BY <1>1, FactoryRunsStep, StartRunsStep, ChoiceRunsStep, EraseRunsStep, ProgramRunsStep,
     LeaveRunsStep DEF BootNext, BootSteps

-----------------------------------------------------------------------------
\* Layer four, the application.

\* A step of the client is one of the link, the start, a handler that writes no
\* record, one that writes one, or the end of the program.
ResetSteps ==
  \/ ota_run_erase_sector /\ mode' # mode
  \/ ota_on_app_data_cut \/ AppReset \/ PowerCutInApp \/ PowerCycle

LEMMA ClientKinds ==
  ASSUME ClientNext
  PROVE  \/ DropPacket \/ ServerSteps \/ OperatorEdits \/ PacketLost
         \/ ota_start \/ QuietSteps \/ WriterSteps \/ ResetSteps
BY DEF ClientNext, isp_handle, ota_on_app_data, ota_run, QuietSteps, WriterSteps,
   ResetSteps

\* What each kind does to the state of the client and to the mode.
LEMMA QuietState ==
  ASSUME QuietSteps
  PROVE  /\ mode = "app" /\ mode' = mode /\ ota_state # "APPLYING"
         /\ UNCHANGED <<papp, appid_to_upgrade>>
         /\ \/ /\ ota_on_latest_app_info /\ ota_state' = "PREPARING"
               /\ IsNewer(Head(to_app).info)
               /\ ota_info' = [ota_info EXCEPT !.info[appid_to_upgrade] = Head(to_app).info]
            \/ ota_info' = ota_info /\ ota_state' \notin {"PREPARING", "ERASING", "DOWNLOADING"}
            \/ ota_info' = ota_info /\ ota_state' = ota_state
<1>1. CASE ota_on_latest_app_info
  BY <1>1 DEF ota_on_latest_app_info, Arrives, Running
<1>2. CASE ota_1s_event
  BY <1>2 DEF ota_1s_event, ota_1s_event_interval, ota_1s_event_timeout, Running,
     boardVars
<1>3. CASE ota_run_timeup \/ ota_run_timeout \/ (ota_run_erase_sector /\ UNCHANGED mode)
  BY <1>3 DEF ota_run_timeup, ota_run_timeout, ota_run_erase_sector, PowerFails, Running,
     boardVars
<1>4. CASE \/ ota_on_app_data_block \/ ota_on_app_data_crc_error
           \/ ota_on_app_data_verify_error \/ ota_on_app_data_unexpected
  BY <1>4 DEF ota_on_app_data_block, ota_on_app_data_crc_error,
     ota_on_app_data_verify_error, ota_on_app_data_unexpected, EntersError, Expected,
     Arrives, Running
<1>5. QED BY <1>1, <1>2, <1>3, <1>4 DEF QuietSteps

LEMMA ResetState ==
  ASSUME ResetSteps
  PROVE  mode = "app" /\ mode' \in {"off", "boot"} /\ ota_state' = "IDLE"
BY DEF ResetSteps, ota_run_erase_sector, ota_on_app_data_cut, AppReset, PowerCutInApp,
   PowerCycle, Expected, Arrives, Running, PowerFails, RamLost

LEMMA StartState ==
  ASSUME TypeInv, ota_start
  PROVE  /\ mode = "app" /\ mode' \in {"app", "off"}
         /\ ota_state = "IDLE" /\ ota_state' = "IDLE"
BY DEF ota_start, ota_init, ota_init_cut, RamLost, StoreCut, PowerFails, TypeInv,
   ClientProgress

LEMMA WriterState ==
  ASSUME TypeInv, WriterSteps
  PROVE  /\ mode = "app" /\ ota_state \in {"PREPARING", "ERASING", "DOWNLOADING"}
         /\ \/ mode' = "off" /\ ota_state' = "IDLE"
            \/ /\ mode' = "app" /\ ota_state' \in {"ERASING", "DOWNLOADING", "APPLYING"}
               /\ ota_info'.info = ota_info.info /\ UNCHANGED <<papp, appid_to_upgrade>>
<1>1. PICK r \in OtaInfo :
        /\ r.info = ota_info.info
        /\ \/ WriteBackCut(r)
           \/ /\ WriteBack(r) /\ UNCHANGED <<started, papp, appid_to_upgrade>>
              /\ ota_state' \in {"ERASING", "DOWNLOADING", "APPLYING"}
  BY WriterWrites
<1>2. Running /\ ota_state \in {"PREPARING", "ERASING", "DOWNLOADING"} BY WriterWrites
<1>3. QED
  BY <1>1, <1>2 DEF WriteBackCut, WriteBack, StoreCut, PowerFails, RamLost, Running

\* Nothing but the last block of an image and the factory copy changes what a
\* reset would run.
LEMMA ClientCurrent ==
  ASSUME SoundFlash, WholeInv, ClientNext, UNCHANGED bootVars, ~FactoryPending
  PROVE  CurrentImage' = IF WriterSteps /\ ota_state' = "APPLYING" THEN Upgrade
                         ELSE CurrentImage
<1>1. CASE WriterSteps BY <1>1, WriterWhole DEF SoundFlash
<1>2. CASE ota_start
  <2>1. ota_state' # "APPLYING" BY <1>2, StartState DEF WholeInv, DownloadInv, ChargeInv
  <2>2. QED BY <1>2, <2>1, InitWhole DEF SoundFlash
<1>3. CASE ~WriterSteps /\ ~ota_start
  BY <1>3, OtherRecords, ChargeOfRecords DEF CurrentImage
<1>4. QED BY <1>1, <1>2, <1>3

\* What is downloaded stays newer than what asked for it.
LEMMA NewerStep ==
  ASSUME WholeInv, DownloadsNewer, ClientNext, UNCHANGED bootVars
  PROVE  DownloadsNewer'
<1>1. TypeInv /\ ClientCharge BY DEF WholeInv, DownloadInv, ChargeInv
<1>2. CASE DropPacket \/ ServerSteps \/ OperatorEdits \/ PacketLost
  BY <1>2, LinkCharge DEF WholeInv, DownloadInv, DownloadsNewer, ramVars, Upgrade
<1>3. CASE ota_start BY <1>1, <1>3, StartState DEF DownloadsNewer
<1>4. CASE QuietSteps
  <2>1. CASE ota_state' \notin {"PREPARING", "ERASING", "DOWNLOADING"}
    BY <2>1 DEF DownloadsNewer
  <2>2. CASE ota_info' = ota_info /\ ota_state' = ota_state
    BY <1>4, <2>2, QuietState DEF DownloadsNewer, Upgrade
  <2>3. CASE /\ ota_on_latest_app_info /\ IsNewer(Head(to_app).info)
             /\ ota_info' = [ota_info EXCEPT !.info[appid_to_upgrade] = Head(to_app).info]
    <3>1. UNCHANGED <<papp, appid_to_upgrade>> BY <1>4, QuietState
    <3>2. /\ Running /\ to_app # <<>> /\ Head(to_app).type = "LATEST_APP_INFO"
          /\ ota_state = "CHECKING"
      BY <2>3 DEF ota_on_latest_app_info, Arrives
    <3>3. Head(to_app).info \in Images \cup {NoInfo}
      <4>1. Head(to_app) \in InfoAns \cup DataAns \cup ShortAns
        BY <1>1, <3>2, ReceivedType DEF TypeInv, TypeOK, ClientTypeOK
      <4>2. QED BY <3>2, <4>1 DEF InfoAns, DataAns, ShortAns
    <3>4. papp # appid_to_upgrade
      BY <1>1, <2>3, <3>2, <3>3, StuckSeesNoneNewer DEF ClientCharge, ClientOwns
    <3>5. ota_info \in OtaInfo /\ papp \in Apps /\ appid_to_upgrade \in Apps
      BY <1>1 DEF TypeInv, TypeOK, BoardTypeOK, ClientTypeOK
    <3>6. /\ ota_info'.info[appid_to_upgrade] = Head(to_app).info
          /\ ota_info'.info[papp] = ota_info.info[papp]
      BY <2>3, <3>4, <3>5 DEF OtaInfo
    <3>7. QED BY <2>3, <3>1, <3>6 DEF DownloadsNewer, Upgrade, IsNewer
  <2>4. QED BY <1>4, <2>1, <2>2, <2>3, QuietState
<1>5. CASE WriterSteps
  <2>1. ota_state \in {"PREPARING", "ERASING", "DOWNLOADING"} BY <1>1, <1>5, WriterState
  <2>2. QED BY <1>1, <1>5, <2>1, WriterState DEF DownloadsNewer, Upgrade
<1>6. CASE ResetSteps BY <1>6, ResetState DEF DownloadsNewer
<1>7. QED BY <1>2, <1>3, <1>4, <1>5, <1>6, ClientKinds

LEMMA ClientRunsStep ==
  ASSUME SoundFlash, RunsInv, ClientNext, UNCHANGED bootVars
  PROVE  Runs'
<1>1. /\ MetaTells /\ FlagTells /\ LoopsStart /\ ChipProgress /\ AppRuns /\ WholeInv
      /\ TypeInv /\ UNCHANGED <<chip, meta, pc, block, turn>>
      /\ FactoryPending' = FactoryPending
  BY ClientLeavesChip DEF RunsInv, Runs, WholeInv, DownloadInv, ChargeInv, bootVars
<1>2. DownloadsNewer' BY NewerStep DEF RunsInv, Runs
<1>3. CASE DropPacket \/ ServerSteps \/ OperatorEdits \/ PacketLost
  <2>1. UNCHANGED <<recs, mode, sysctx, ota_state>>
    BY <1>1, <1>3, LinkCharge DEF WholeInv, DownloadInv, flash, ramVars
  <2>2. CurrentImage' = CurrentImage BY <2>1, ChargeOfRecords DEF CurrentImage
  <2>3. MetaTells' /\ FlagTells' /\ LoopsStart'
    BY <1>1, <2>1 DEF MetaTells, FlagTells, LoopsStart
  <2>4. ChipProgress' /\ AppRuns'
    BY <1>1, <2>1, <2>2 DEF ChipProgress, AppRuns, LostOnlyIfInvalid, OnChip, Holds
  <2>5. QED BY <1>2, <2>3, <2>4 DEF Runs
<1>4. CASE ota_start \/ QuietSteps \/ WriterSteps \/ ResetSteps
  <2>1. /\ mode = "app" /\ mode' \in {"app", "off", "boot"}
        /\ mode' = "app" /\ ota_state = "APPLYING" => ota_state' = "APPLYING"
    BY <1>1, <1>4, StartState, QuietState, WriterState, ResetState
  <2>2. pc = "reset" BY <1>1, <2>1 DEF TypeInv, BootProgress
  <2>3. meta \notin Images /\ ~FactoryPending
    BY <1>1, <2>1 DEF MetaTells, FactoryPending, check_onchip_factory_metadata, Holds
  <2>4. MetaTells' BY <1>1, <2>3 DEF MetaTells
  <2>5. FlagTells' /\ LoopsStart' /\ ChipProgress'
    BY <1>1, <2>2 DEF FlagTells, LoopsStart, ChipProgress, FactoryPcs, LoadPcs
  <2>6. mode' = "app" /\ ota_state' # "APPLYING" => Holds(chip, CurrentImage)'
    <3>1. SUFFICES ASSUME mode' = "app", ota_state' # "APPLYING"
                   PROVE  Holds(chip, CurrentImage)'
      OBVIOUS
    <3>2. Holds(chip, CurrentImage) BY <1>1, <2>1, <3>1 DEF AppRuns
    <3>3. CurrentImage' = CurrentImage BY <1>1, <2>3, <3>1, ClientCurrent
    <3>4. QED BY <1>1, <3>2, <3>3 DEF Holds
  <2>7. AppRuns' BY <2>1, <2>6 DEF AppRuns, LostOnlyIfInvalid
  <2>8. QED BY <1>2, <2>4, <2>5, <2>7 DEF Runs
<1>5. QED BY <1>3, <1>4, ClientKinds

LEMMA RunsInit == Init => RunsInv
<1> SUFFICES ASSUME Init PROVE RunsInv OBVIOUS
<1>1. FactoryPending
  BY StoreAssumption DEF Init, BoardInit, FactoryPending, check_onchip_factory_metadata,
     Holds, AreaOf, Blocks
<1>2. pc = "reset" /\ block = 1 /\ mode = "off" /\ ota_state = "IDLE"
  BY DEF Init, BootIdle, ClientInit, RamInit, BoardInit
<1>3. QED
  BY <1>1, <1>2, WholeInit DEF RunsInv, Runs, MetaTells, FlagTells, LoopsStart,
     ChipProgress, AppRuns, LostOnlyIfInvalid, DownloadsNewer, FactoryPcs, LoadPcs

LEMMA RunsStep ==
  ASSUME SoundFlash
  PROVE  RunsInv /\ [Next]_vars => RunsInv'
<1> SUFFICES ASSUME RunsInv, [Next]_vars PROVE RunsInv' OBVIOUS
<1>1. WholeInv' BY WholeStep DEF RunsInv, SoundFlash
<1>2. CASE BootNext /\ UNCHANGED clientVars BY <1>1, <1>2, BootRunsStep DEF RunsInv
<1>3. CASE ClientNext /\ UNCHANGED bootVars BY <1>1, <1>3, ClientRunsStep DEF RunsInv
<1>4. CASE Reflash /\ UNCHANGED <<bootVars, clientVars>>
  <2>1. /\ mode = "off" /\ mode' = "off" /\ pc = "reset" /\ pc' = "reset"
        /\ ota_state' = "IDLE" /\ block' = 1
    BY <1>4 DEF Reflash, RunsInv, Runs, LoopsStart, WholeInv, DownloadInv, ChargeInv,
       TypeInv, BootProgress, ClientProgress, bootVars, clientVars, ramVars
  <2>2. FactoryPending'
    BY <1>4, StoreAssumption DEF Reflash, FactoryPending, check_onchip_factory_metadata,
       Holds, AreaOf, Blocks
  <2>3. QED
    BY <1>1, <2>1, <2>2 DEF RunsInv, Runs, MetaTells, FlagTells, LoopsStart,
       ChipProgress, AppRuns, LostOnlyIfInvalid, DownloadsNewer, FactoryPcs, LoadPcs
<1>5. CASE UNCHANGED vars
  <2>1. UNCHANGED <<recs, chip, meta, mode, sysctx, ota_info, pc, block, turn, papp,
                    ota_state, appid_to_upgrade>>
    BY <1>5 DEF vars, boardVars, bootVars, clientVars, ramVars
  <2>2. CurrentImage' = CurrentImage BY <2>1, ChargeOfRecords DEF CurrentImage
  <2>3. MetaTells' BY <2>1, PendingOf DEF RunsInv, Runs, MetaTells
  <2>4. FlagTells' /\ LoopsStart' /\ DownloadsNewer'
    BY <2>1 DEF RunsInv, Runs, FlagTells, LoopsStart, DownloadsNewer, Upgrade
  <2>5. ChipProgress' /\ AppRuns'
    BY <2>1, <2>2 DEF RunsInv, Runs, ChipProgress, AppRuns, LostOnlyIfInvalid, OnChip,
       Holds
  <2>6. QED BY <1>1, <2>3, <2>4, <2>5 DEF RunsInv, Runs
<1>6. QED BY <1>2, <1>3, <1>4, <1>5 DEF Next

\* With a sound on-chip flash a CPU is sent into an area without an image only
\* if the first bytes of the chip fail the boot loader's own test, erased or
\* half erased, and it took it that nothing needs copying (main.c:442).
THEOREM LostFailsTest ==
  ASSUME SoundFlash
  PROVE  Spec => []LostOnlyIfInvalid
<1>1. RunsInv => LostOnlyIfInvalid BY DEF RunsInv, Runs, AppRuns
<1>2. QED BY <1>1, RunsInit, RunsStep, PTL DEF Spec

\* With a sound on-chip flash what runs is, bit for bit, the image the record
\* in charge calls current, except between an update and its reset.
THEOREM CurrentStaysRunning ==
  ASSUME SoundFlash
  PROVE  Spec => []RunsCurrent
<1>1. RunsInv => RunsCurrent BY DEF RunsInv, Runs, AppRuns, RunsCurrent, Running
<1>2. QED BY <1>1, RunsInit, RunsStep, PTL DEF Spec

-----------------------------------------------------------------------------
\* The refinement of AtomicUpdate, step by step.

\* What a reset would run, as the abstract specification sees it.
Seen == IF FactoryPending THEN meta ELSE CurrentImage

\* Setting a factory image up makes it the one the record names.
LEMMA SetUpStep ==
  ASSUME SoundFlash, RunsInv, BootNext, UNCHANGED clientVars
  PROVE  /\ Seen' = Seen
         /\ FactoryPending' = FactoryPending \/ (FactoryPending /\ ~FactoryPending')
<1>1. WholeInv /\ TypeInv BY DEF RunsInv, WholeInv, DownloadInv, ChargeInv
<1>2. CASE EraseMeta
  <2>1. /\ pc = "eraseMeta" /\ meta' = ErasedInfo /\ UNCHANGED recs /\ FactoryPending
    BY <1>1, <1>2 DEF EraseMeta, Mishap, SoundFlash, WholeInv, DownloadInv, ChargeInv,
       BootOwns, FactoryPcs
  <2>2. ~FactoryPending'
    BY <2>1, StoreAssumption DEF FactoryPending, check_onchip_factory_metadata, Holds,
       ErasedInfo, Images
  <2>3. CurrentImage' = meta
    BY <1>1, <2>1, CopySettles, ChargeOfRecords DEF WholeInv, Installed, CurrentImage
  <2>4. QED BY <2>1, <2>2, <2>3 DEF Seen
<1>3. CASE EraseChipPage \/ ProgramChipPage
  <2>1. ~FactoryPending /\ meta \notin Images /\ UNCHANGED <<recs, meta>>
    BY <1>3, CandidateIsCurrent DEF EraseChipPage, ProgramChipPage, LoadPcs
  <2>2. FactoryPending' = FactoryPending
    BY <2>1 DEF FactoryPending, check_onchip_factory_metadata, Holds
  <2>3. QED BY <2>1, <2>2, ChargeOfRecords DEF Seen, CurrentImage
<1>4. CASE ~EraseMeta /\ ~EraseChipPage /\ ~ProgramChipPage
  <2>1. UNCHANGED <<chip, meta>>
    BY <1>4 DEF BootNext, BootSteps, PowerOn, MainStart, EraseFactorySector,
       CopyFactoryPage, SaveMaster, SaveBackup, check_ota, TryLoad, Loaded, EnterIsp,
       Jump, IspReboot, PowerCycleLost, PowerCutInBoot, StoreCut, flash
  <2>2. FactoryPending' = FactoryPending BY <2>1, PendingOf
  <2>3. CASE FactoryPending BY <2>1, <2>2, <2>3 DEF Seen
  <2>4. CASE ~FactoryPending
    <3>1. UNCHANGED recs
      <4>1. CASE Loaded
        BY <4>1, CandidateIsCurrent DEF Loaded, LoadPcs, flash
      <4>2. CASE ~Loaded
        BY <1>1, <1>4, <2>4, <4>2 DEF BootNext, BootSteps, PowerOn, MainStart,
           EraseFactorySector, CopyFactoryPage, SaveMaster, SaveBackup, check_ota,
           TryLoad, EnterIsp, Jump, IspReboot, PowerCycleLost, PowerCutInBoot, flash,
           WholeInv, DownloadInv, ChargeInv, BootOwns, FactoryPcs
      <4>3. QED BY <4>1, <4>2
    <3>2. QED BY <2>2, <2>4, <3>1, ChargeOfRecords DEF Seen, CurrentImage
  <2>5. Seen' = Seen BY <2>3, <2>4
  <2>6. QED BY <2>2, <2>5
<1>5. QED BY <1>2, <1>3, <1>4

\* The last block of an image replaces what a reset would run by a newer one.
LEMMA UpdateStep ==
  ASSUME SoundFlash, RunsInv, ClientNext, UNCHANGED bootVars
  PROVE  /\ FactoryPending' = FactoryPending
         /\ \/ Seen' = Seen
            \/ /\ ~FactoryPending
               /\ Seen' \in {i \in Images : Version[i] > Version[Seen]}
<1>1. /\ WholeInv /\ TypeInv /\ DownloadsNewer /\ UNCHANGED meta
      /\ FactoryPending' = FactoryPending
  BY ClientLeavesChip DEF RunsInv, Runs, WholeInv, DownloadInv, ChargeInv
<1>2. CASE FactoryPending \/ ~(WriterSteps /\ ota_state' = "APPLYING")
  BY <1>1, <1>2, ClientCurrent DEF Seen
<1>3. CASE ~FactoryPending /\ WriterSteps /\ ota_state' = "APPLYING"
  <2>1. Seen' = Upgrade /\ Seen = CurrentImage
    BY <1>1, <1>3, ClientCurrent DEF Seen
  <2>2. /\ ClientOwns /\ ota_state \in {"PREPARING", "ERASING", "DOWNLOADING"}
        /\ ota_state # "APPLYING"
    BY <1>1, <1>3, WriterOwns, WriterWrites DEF WholeInv, DownloadInv, ChargeInv
  <2>3. /\ papp = ChosenRecord.current_app
        /\ ota_info.info[papp] = ChosenRecord.info[papp]
    BY <2>2 DEF ClientOwns
  <2>4. ota_info.info[papp] = CurrentImage BY <2>3 DEF CurrentImage
  <2>5. VersionOf(Upgrade) > VersionOf(CurrentImage)
    BY <1>1, <2>2, <2>4 DEF DownloadsNewer
  <2>6. Upgrade \in Images /\ CurrentImage \in Images
    BY <1>1, <1>3, <2>2, SettledImage DEF TypeInv, ClientProgress
  <2>7. \A i \in Images : VersionOf(i) = Version[i]
    BY StoreAssumption DEF VersionOf, Images, NoInfo, ErasedInfo
  <2>8. QED BY <1>1, <1>3, <2>1, <2>5, <2>6, <2>7
<1>4. QED BY <1>2, <1>3

\* With a sound on-chip flash the board behaves as AtomicUpdate says: whatever
\* cuts, resets and losses come between, the image a reset would run is a
\* factory image or changes in one step to a newer one, never to an older one
\* and never to none.
THEOREM UpdatesAreAtomic ==
  ASSUME SoundFlash
  PROVE  Spec => UpdatesAtomically
<1>1. Init => Promise!Init
  <2>1. SUFFICES ASSUME Init PROVE Promise!Init OBVIOUS
  <2>2. FactoryPending /\ meta \in Images
    <3>1. PICK image \in Images : chip = AreaOf(image) /\ meta = image
      BY <2>1 DEF Init, BoardInit
    <3>2. QED
      BY <3>1, StoreAssumption DEF FactoryPending, check_onchip_factory_metadata, Holds,
         AreaOf, Blocks
  <2>3. FactoryPending = TRUE
    BY <2>2 DEF FactoryPending, check_onchip_factory_metadata, Holds
  <2>4. QED BY <2>2, <2>3 DEF Promise!Init
<1>2. RunsInv /\ [Next]_vars => [Promise!Next]_<<Seen, FactoryPending>>
  <2>1. SUFFICES ASSUME RunsInv, [Next]_vars
                 PROVE  [Promise!Next]_<<Seen, FactoryPending>>
    OBVIOUS
  <2>2. CASE BootNext /\ UNCHANGED clientVars
    BY <2>1, <2>2, SetUpStep DEF Promise!Next, Promise!SetUp, Seen
  <2>3. CASE ClientNext /\ UNCHANGED bootVars
    BY <2>1, <2>3, UpdateStep DEF Promise!Next, Promise!Update, Seen
  <2>4. CASE Reflash /\ UNCHANGED <<bootVars, clientVars>>
    BY <2>4, StoreAssumption DEF Reflash, Promise!Next, Promise!Produce, FactoryPending,
       check_onchip_factory_metadata, Holds, AreaOf, Blocks
  <2>5. CASE UNCHANGED vars
    BY <2>5, PendingOf, ChargeOfRecords DEF Seen, CurrentImage, vars, boardVars
  <2>6. QED BY <2>1, <2>2, <2>3, <2>4, <2>5 DEF Next
<1>3. QED
  BY <1>1, <1>2, RunsInit, RunsStep, PTL DEF Spec, UpdatesAtomically, Promise!Spec, Seen
=============================================================================
