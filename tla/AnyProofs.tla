----------------------------- MODULE AnyProofs -----------------------------
(***************************************************************************)
(* What the boot loader does with a NOR flash and a chip that hold         *)
(* anything at all: not only the records and areas from which TLC starts   *)
(* AnySpec, but every record and every area that can be stored, for every  *)
(* number of images and blocks.                                            *)
(***************************************************************************)
EXTENDS AnyStore, TLAPS

\* Any content of the memories, at the start of a boot nobody asked to stay
\* in the boot loader.
ContentsInit ==
  /\ recs \in [OtaIds -> OtaInfo] /\ slots \in [Apps -> Areas]
  /\ chip \in Areas /\ meta \in Infos
  /\ mode = "boot" /\ sysctx \in SysCtx /\ ~sysctx.dfu /\ ota_info \in OtaInfo
  /\ BootIdle /\ boots = 1

ContentsSpec == ContentsInit /\ [][AnyNext]_anyVars

\* Factory metadata that name an image describe the one on the chip.
MetaTells == meta \in Images => Holds(chip, meta)

-----------------------------------------------------------------------------
FactoryPcs == {"eraseFactory", "copyFactory", "saveMaster", "saveBackup", "eraseMeta"}
LoadPcs    == {"tryLoad", "eraseChip", "programChip", "loaded"}
LoopPcs    == {"eraseFactory", "copyFactory", "eraseChip", "programChip"}

\* The n-th application to try is not in its slot.
Fails(s, r, n) ==
  LET a == BootOrder(r.current_app)[n] IN ~Holds(s[a], r.info[a])

Current == Chosen.info[Chosen.current_app]
Wanted  == ota_info.info[Candidate]

Types ==
  /\ recs \in [OtaIds -> OtaInfo] /\ chip \in Areas /\ meta \in Infos
  /\ mode \in {"boot", "isp", "app", "lost"}
  /\ sysctx \in SysCtx /\ ~sysctx.dfu /\ ota_info \in OtaInfo
  /\ pc \in Pcs /\ block \in Blocks /\ turn \in 1 .. 3 /\ boots \in {1, 2}
  /\ pc # "reset" => mode = "boot"
  /\ pc \notin LoopPcs => block = 1
  /\ pc \notin LoadPcs => turn = 1

\* The factory copy runs only for an image that is on the chip.
Copied == pc \in FactoryPcs => Holds(chip, meta)

\* The flag tells of the chip until that is erased.
Flag ==
  /\ pc \in FactoryPcs \cup {"checkOta", "tryLoad"} =>
       sysctx.onchip_app_valid = is_valid_on_chip_app_program(chip)
  /\ pc \in {"eraseChip", "programChip"} => sysctx.onchip_app_valid

\* The applications before the one whose turn it is did not load.
Trying ==
  pc \in LoadPcs =>
    /\ ota_info = Chosen /\ sysctx.otaid = ChosenOldId
    /\ Chosen.current_app \in Apps
    /\ turn <= Len(BootOrder(Chosen.current_app))
    /\ \A n \in 1 .. turn - 1 : Fails(slots, Chosen, n)
    /\ pc # "tryLoad" => ~Fails(slots, Chosen, turn)

\* How far the copy to the chip has come.
Copying ==
  /\ pc = "eraseChip" => \A b \in 1 .. block - 1 : chip[b] = Blank
  /\ pc = "programChip" => /\ block <= Size[Wanted]
                           /\ \A b \in 1 .. block - 1 : chip[b] = Wanted
                           /\ \A b \in block .. NumBlocks : chip[b] = Blank
  /\ pc = "loaded" => Holds(chip, Wanted) \/ ~is_valid_on_chip_app_program(chip)

\* The application the record in charge calls current can be loaded if any
\* can, and it is on the chip - or the chip fails the test of its first bytes,
\* which the boot loader takes for a chip that needs no copy.
Settled ==
  SomeLoadable(Chosen) => /\ Holds(slots[Chosen.current_app], Current)
                          /\ Holds(chip, Current) \/ ~is_valid_on_chip_app_program(chip)

Ends ==
  /\ pc = "leave" \/ mode # "boot" => Settled
  /\ mode = "app" => is_valid_on_chip_app_program(chip)

BootInv == Types /\ Copied /\ Flag /\ Trying /\ Copying /\ Ends

-----------------------------------------------------------------------------
LEMMA OtherIds ==
  /\ OlderId \in OtaIds /\ ChosenOldId \in OtaIds
  /\ \A id \in OtaIds : Other(id) \in OtaIds /\ Other(Other(id)) = id /\ Other(id) # id
BY DEF ChosenOldId, OlderId, findout_which_ota_info_is_older, Other, OtaIds,
   FLASH_OTA_ID_MASTER, FLASH_OTA_ID_BACKUP

\* The order check_ota tries begins with the current application.
LEMMA OrderType ==
  ASSUME NEW a \in Apps
  PROVE  /\ Len(BootOrder(a)) \in 1 .. 3 /\ 1 <= Len(BootOrder(a))
         /\ BootOrder(a)[1] = a
         /\ \A n \in 1 .. Len(BootOrder(a)) : BootOrder(a)[n] \in Apps
BY DEF BootOrder, Apps, FLASH_APP_ID_FACTORY, FLASH_APP_ID_APP1, FLASH_APP_ID_APP2

\* The choice of a record depends on the records alone, what loads on the
\* slots too.
LEMMA ChoiceOf ==
  ASSUME UNCHANGED recs
  PROVE  ChosenOldId' = ChosenOldId /\ Chosen' = Chosen
BY DEF ChosenOldId, Chosen, OlderId

LEMMA LoadsOf ==
  ASSUME UNCHANGED <<recs, slots>>
  PROVE  /\ Current' = Current
         /\ SomeLoadable(Chosen)' = SomeLoadable(Chosen)
         /\ UNCHANGED chip => Settled' = Settled
<1>1. Chosen' = Chosen BY ChoiceOf
<1>2. Current' = Current BY <1>1 DEF Current
<1>3. SomeLoadable(Chosen)' = SomeLoadable(Chosen) BY <1>1 DEF SomeLoadable, Holds
<1>4. UNCHANGED chip => Settled' = Settled BY <1>1, <1>2, <1>3 DEF Settled, Holds
<1>5. QED BY <1>2, <1>3, <1>4

\* An image on the chip passes the boot loader's test.
LEMMA HeldIsValid ==
  ASSUME NEW area, NEW i, Holds(area, i)
  PROVE  i \in Images /\ is_valid_on_chip_app_program(area)
BY StoreAssumption DEF Holds, Images, Blank, TornHead, Blocks, is_valid_on_chip_app_program

LEMMA RoundType ==
  ASSUME block \in Blocks, NEW n \in Blocks, NEW p, NextBlock(n, p)
  PROVE  /\ UNCHANGED turn /\ block' \in Blocks
         /\ \/ block < n /\ block' = block + 1 /\ pc' = pc
            \/ n <= block /\ block' = 1 /\ pc' = p
BY StoreAssumption DEF NextBlock, Blocks

\* A record numbered one above the one in charge takes charge as it is written
\* over the other copy.
LEMMA NextTakesCharge ==
  ASSUME recs \in [OtaIds -> OtaInfo], NEW r \in OtaInfo, r.current_app # BadApp,
         r.seq = Chosen.seq + 1, r.seq <= SeqLimit,
         recs' = [recs EXCEPT ![ChosenOldId] = r]
  PROVE  Chosen' = r
<1> DEFINE id == ChosenOldId
<1>1. id \in OtaIds /\ recs'[id] = r /\ recs'[Other(id)] = recs[Other(id)] BY OtherIds
<1>2. recs[Other(id)].seq \in Nat /\ r.seq # ErasedSeq
      /\ r.seq = recs[Other(id)].seq + 1
  BY OtherIds, StoreAssumption DEF OtaInfo, Seqs, ErasedSeq, Chosen
<1>3. OlderId' = Other(id)
  BY <1>1, <1>2, StoreAssumption DEF OlderId, findout_which_ota_info_is_older, Other,
     OtaIds, FLASH_OTA_ID_MASTER, FLASH_OTA_ID_BACKUP, ErasedSeq
<1>4. Other(OlderId') = id BY <1>1, <1>3, OtherIds
<1>5. ChosenOldId' = Other(id) BY <1>1, <1>3, <1>4 DEF ChosenOldId
<1>6. QED BY <1>1, <1>5, OtherIds DEF Chosen

-----------------------------------------------------------------------------
\* The steps of the factory copy, which nothing disturbs.
LEMMA FactoryStep ==
  ASSUME Mishaps = {}, BootInv, UNCHANGED boots,
         \/ MainStart \/ EraseFactorySector \/ CopyFactoryPage \/ SaveMaster
         \/ SaveBackup \/ EraseMeta
  PROVE  /\ BootInv' /\ UNCHANGED <<chip, mode>>
         /\ MainStart => UNCHANGED flash
<1> USE DEF BootInv
<1>1. /\ UNCHANGED <<chip, mode, turn>> /\ mode = "boot" /\ turn = 1
      /\ sysctx' \in SysCtx /\ ~sysctx'.dfu
      /\ ~MainStart => sysctx'.onchip_app_valid = sysctx.onchip_app_valid
      /\ MainStart => UNCHANGED flash
  <2>1. CASE MainStart
    BY <2>1 DEF MainStart, GoTo, flash, Types, Pcs, LoadPcs, SysCtx, Apps, OtaIds,
       FLASH_APP_ID_FACTORY, FLASH_OTA_ID_MASTER, is_valid_on_chip_app_program
  <2>2. CASE ~MainStart
    BY <2>2, OtherIds DEF EraseFactorySector, CopyFactoryPage, SaveMaster, SaveBackup,
       EraseMeta, Mishap, StoreCut, SpoiltCopy, GoTo, NextBlock, Toggled, Types, LoadPcs,
       SysCtx
  <2>3. QED BY <2>1, <2>2
<1>2. /\ pc' \in Pcs \ LoadPcs /\ block' \in Blocks
      /\ pc' \notin LoopPcs => block' = 1
      /\ pc' # "leave"
  <2>1. CASE MainStart
    BY <2>1 DEF MainStart, GoTo, AfterFactory, Types, Pcs, LoadPcs, LoopPcs
  <2>2. CASE EraseFactorySector \/ CopyFactoryPage
    <3>1. pc \in {"eraseFactory", "copyFactory"} /\ meta \in Images
      BY <2>2 DEF EraseFactorySector, CopyFactoryPage, Copied, FactoryPcs, Holds
    <3>2. Size[meta] \in Blocks BY <3>1, StoreAssumption
    <3>3. PICK p \in {"copyFactory", "saveMaster", "reset"} : NextBlock(Size[meta], p)
      BY <2>2 DEF EraseFactorySector, CopyFactoryPage, Mishap
    <3>4. /\ block' \in Blocks
          /\ \/ pc' = pc
             \/ block' = 1 /\ pc' = p
      BY <3>2, <3>3, RoundType DEF Types
    <3>5. QED BY <3>1, <3>4 DEF Pcs, LoadPcs, LoopPcs
  <2>3. CASE SaveMaster \/ SaveBackup \/ EraseMeta
    BY <2>3 DEF SaveMaster, SaveBackup, EraseMeta, StoreCut, SpoiltCopy, Mishap, GoTo,
       AfterFactory, Types, Pcs, LoadPcs, LoopPcs
  <2>4. QED BY <2>1, <2>2, <2>3
<1>3. /\ recs' \in [OtaIds -> OtaInfo] /\ ota_info' \in OtaInfo /\ meta' \in Infos
      /\ pc' \in FactoryPcs => UNCHANGED meta
  <2>1. CASE SaveMaster
    <3>1. meta \in Images BY <2>1 DEF SaveMaster, Copied, FactoryPcs, Holds
    <3>2. FactoryRecord(meta) \in OtaInfo
      BY <3>1, StoreAssumption DEF FactoryRecord, OtaInfo, Seqs, ErasedSeq, DlStates,
         Infos, NoInfo, Apps
    <3>3. QED
      BY <2>1, <3>2 DEF SaveMaster, StoreCut, SpoiltCopy, Mishap, Types, OtaIds
  <2>2. CASE ~SaveMaster
    BY <2>2 DEF MainStart, EraseFactorySector, CopyFactoryPage, SaveBackup, EraseMeta,
       StoreCut, SpoiltCopy, Mishap, GoTo, NextBlock, AfterFactory, Types, Infos, OtaIds,
       flash, FactoryPcs
  <2>3. QED BY <2>1, <2>2
<1>4. Types'
  BY <1>1, <1>2, <1>3 DEF Types
<1>5. Copied'
  <2>1. CASE MainStart
    BY <1>1, <2>1 DEF MainStart, GoTo, AfterFactory, Copied, FactoryPcs, flash,
       check_onchip_factory_metadata, Holds
  <2>2. CASE ~MainStart
    <3>1. pc \in FactoryPcs
      BY <2>2 DEF EraseFactorySector, CopyFactoryPage, SaveMaster, SaveBackup,
         EraseMeta, FactoryPcs
    <3>2. QED BY <1>1, <1>3, <3>1 DEF Copied, Holds
  <2>3. QED BY <2>1, <2>2
<1>6. Flag'
  <2>1. pc' \notin {"eraseChip", "programChip"} BY <1>2 DEF LoadPcs
  <2>2. CASE MainStart
    BY <1>1, <2>1, <2>2 DEF MainStart, Flag, is_valid_on_chip_app_program
  <2>3. CASE ~MainStart
    <3>1. pc \in FactoryPcs
      BY <2>3 DEF EraseFactorySector, CopyFactoryPage, SaveMaster, SaveBackup,
         EraseMeta, FactoryPcs
    <3>2. QED BY <1>1, <2>1, <2>3, <3>1 DEF Flag
  <2>4. QED BY <2>2, <2>3
<1>7. Trying' /\ Copying' /\ Ends'
  BY <1>1, <1>2 DEF Trying, Copying, Ends, LoadPcs
<1>8. QED BY <1>1, <1>4, <1>5, <1>6, <1>7

-----------------------------------------------------------------------------
\* The application whose turn it is, in the terms of the record in charge.
LEMMA CandidateIs ==
  ASSUME BootInv, pc \in LoadPcs
  PROVE  /\ Candidate = BootOrder(Chosen.current_app)[turn] /\ Candidate \in Apps
         /\ Wanted = Chosen.info[Candidate] /\ Wanted \in Infos
         /\ Fails(slots, Chosen, turn) = ~Holds(slots[Candidate], Wanted)
         /\ turn \in 1 .. Len(BootOrder(Chosen.current_app))
<1>1. /\ ota_info = Chosen /\ Chosen.current_app \in Apps /\ turn \in 1 .. 3
      /\ turn <= Len(BootOrder(Chosen.current_app)) /\ ota_info \in OtaInfo
  BY DEF BootInv, Trying, Types
<1>2. turn \in 1 .. Len(BootOrder(Chosen.current_app)) BY <1>1, OrderType
<1>3. Candidate = BootOrder(Chosen.current_app)[turn] /\ Candidate \in Apps
  BY <1>1, <1>2, OrderType DEF Candidate
<1>4. Wanted = Chosen.info[Candidate] /\ Wanted \in Infos
  BY <1>1, <1>3 DEF Wanted, OtaInfo
<1>5. Fails(slots, Chosen, turn) = ~Holds(slots[Candidate], Wanted) BY <1>3, <1>4 DEF Fails, Holds
<1>6. QED BY <1>2, <1>3, <1>4, <1>5

\* check_ota, with a record that names an application or without one.
LEMMA CheckStep ==
  ASSUME BootInv, check_ota, UNCHANGED boots
  PROVE  BootInv' /\ UNCHANGED <<flash, mode>>
<1>1. /\ UNCHANGED <<recs, slots, chip, meta, mode, block, turn>>
      /\ ota_info' = Chosen /\ sysctx' = [sysctx EXCEPT !.otaid = ChosenOldId]
      /\ \/ Chosen.current_app = BadApp /\ pc' = "leave"
         \/ Chosen.current_app # BadApp /\ pc' = "tryLoad"
      /\ mode = "boot" /\ pc = "checkOta"
  BY DEF check_ota, GoTo, flash, Chosen
<1>2. /\ Types /\ Flag /\ block = 1 /\ turn = 1
  BY <1>1 DEF BootInv, Types, LoopPcs, LoadPcs
<1>3. Chosen \in OtaInfo BY <1>2, OtherIds DEF Types, Chosen
<1>4. Types'
  BY <1>1, <1>2, <1>3, OtherIds DEF Types, SysCtx, Pcs, LoopPcs, LoadPcs
<1>5. Copied' /\ Flag' /\ Copying'
  BY <1>1, <1>2 DEF Copied, Flag, Copying, FactoryPcs, Types, SysCtx
<1>6. Trying'
  <2>1. ChosenOldId' = ChosenOldId /\ Chosen' = Chosen BY <1>1, ChoiceOf
  <2>2. CASE pc' = "tryLoad"
    <3>1. Chosen.current_app \in Apps BY <1>1, <1>3, <2>2 DEF OtaInfo
    <3>2. 1 <= Len(BootOrder(Chosen.current_app)) BY <3>1, OrderType
    <3>3. sysctx'.otaid = ChosenOldId BY <1>1, <1>2 DEF Types, SysCtx
    <3>4. QED BY <1>1, <1>2, <2>1, <2>2, <3>1, <3>2, <3>3 DEF Trying
  <2>3. CASE pc' = "leave" BY <2>3 DEF Trying, LoadPcs
  <2>4. QED BY <1>1, <2>2, <2>3
<1>7. Ends'
  <2>1. pc' = "leave" => ~SomeLoadable(Chosen) BY <1>1 DEF SomeLoadable
  <2>2. pc' = "leave" => ~SomeLoadable(Chosen)' BY <1>1, <2>1, LoadsOf
  <2>3. QED BY <1>1, <2>2 DEF Ends, Settled
<1>8. QED BY <1>1, <1>4, <1>5, <1>6, <1>7 DEF BootInv, flash

\* try_load_flash_app up to the copy.
LEMMA TryStep ==
  ASSUME BootInv, TryLoad, UNCHANGED boots
  PROVE  BootInv' /\ UNCHANGED <<flash, mode>>
<1>1. /\ UNCHANGED <<recs, slots, chip, meta, mode, sysctx, ota_info>>
      /\ mode = "boot" /\ pc = "tryLoad" /\ pc \in LoadPcs
  BY DEF TryLoad, flash, LoadPcs
<1>2. Types /\ Flag /\ Trying /\ block = 1 BY <1>1 DEF BootInv, Types, LoopPcs
<1>3. /\ ota_info = Chosen /\ sysctx.otaid = ChosenOldId
      /\ Chosen.current_app \in Apps /\ \A n \in 1 .. turn - 1 : Fails(slots, Chosen, n)
      /\ turn \in 1 .. Len(BootOrder(Chosen.current_app))
      /\ Len(BootOrder(Chosen.current_app)) \in 1 .. 3
  BY <1>1, <1>2, CandidateIs, OrderType DEF Trying
<1>4. /\ ChosenOldId' = ChosenOldId /\ Chosen' = Chosen
      /\ SomeLoadable(Chosen)' = SomeLoadable(Chosen)
  BY <1>1, ChoiceOf, LoadsOf
<1>5. CASE Fails(slots, Chosen, turn)
  <2>1. LoadFails BY <1>1, <1>5, CandidateIs DEF TryLoad, Wanted
  <2>2. \A n \in 1 .. turn : Fails(slots, Chosen, n) BY <1>3, <1>5
  <2>3. CASE turn < Len(BootOrder(Chosen.current_app))
    <3>1. pc' = "tryLoad" /\ block' = 1 /\ turn' = turn + 1
      BY <1>3, <2>1, <2>3 DEF LoadFails
    <3>2. turn' \in 1 .. 3
      <4>1. PICK last \in 1 .. 3 : last = Len(BootOrder(Chosen.current_app)) BY <1>3
      <4>2. turn \in 1 .. 3 /\ turn < last BY <1>2, <2>3, <4>1 DEF Types
      <4>3. \A t, m \in 1 .. 3 : t < m => t + 1 \in 1 .. 3 OBVIOUS
      <4>4. QED BY <3>1, <4>1, <4>2, <4>3
    <3>3. Types'
      BY <1>1, <1>2, <3>1, <3>2, StoreAssumption DEF Types, Pcs, LoopPcs, LoadPcs, Blocks
    <3>4. \A n \in 1 .. turn' - 1 : Fails(slots', Chosen', n)
      BY <1>1, <1>2, <1>4, <2>2, <3>1 DEF Types
    <3>5. turn' <= Len(BootOrder(Chosen.current_app)) BY <1>3, <2>3, <3>1
    <3>6. Trying' BY <1>1, <1>3, <1>4, <3>1, <3>4, <3>5 DEF Trying
    <3>7. Copied' /\ Flag' /\ Copying' /\ Ends'
      BY <1>1, <1>2, <3>1 DEF Copied, Flag, Copying, Ends, FactoryPcs
    <3>8. QED BY <1>1, <3>3, <3>6, <3>7 DEF BootInv, flash
  <2>4. CASE turn = Len(BootOrder(Chosen.current_app))
    <3>1. pc' = "leave" /\ block' = 1 /\ turn' = 1
      BY <1>3, <2>1, <2>4 DEF LoadFails, LeaveLoops
    <3>2. Types'
      BY <1>1, <1>2, <3>1, StoreAssumption DEF Types, Pcs, LoopPcs, LoadPcs, Blocks
    <3>3. ~SomeLoadable(Chosen) BY <2>2, <2>4 DEF SomeLoadable, Fails
    <3>4. Copied' /\ Flag' /\ Trying' /\ Copying' /\ Ends'
      BY <1>1, <1>4, <3>1, <3>3 DEF Copied, Flag, Trying, Copying, Ends, Settled,
         FactoryPcs, LoadPcs
    <3>5. QED BY <1>1, <3>2, <3>4 DEF BootInv, flash
  <2>5. \/ turn < Len(BootOrder(Chosen.current_app))
        \/ turn = Len(BootOrder(Chosen.current_app))
    <3>1. PICK last \in 1 .. 3 : last = Len(BootOrder(Chosen.current_app)) BY <1>3
    <3>2. turn \in 1 .. last BY <1>3, <3>1
    <3>3. turn < last \/ turn = last BY <3>2
    <3>4. QED BY <3>1, <3>3
  <2>6. QED BY <2>3, <2>4, <2>5
<1>6. CASE ~Fails(slots, Chosen, turn)
  <2>1. /\ pc' = IF NeedCopyFlashToChip(Wanted) THEN "eraseChip" ELSE "loaded"
        /\ UNCHANGED <<block, turn>>
    BY <1>1, <1>6, CandidateIs DEF TryLoad, GoTo, Wanted
  <2>2. Types' BY <1>1, <1>2, <2>1 DEF Types, Pcs, LoopPcs, LoadPcs
  <2>3. /\ \A n \in 1 .. turn' - 1 : Fails(slots', Chosen', n)
        /\ ~Fails(slots', Chosen', turn')
    BY <1>1, <1>3, <1>4, <1>6, <2>1
  <2>4. Trying' BY <1>1, <1>3, <1>4, <2>1, <2>3 DEF Trying
  <2>5. Wanted' = Wanted BY <1>1, <2>1 DEF Wanted, Candidate
  <2>6. Copying'
    <3>1. sysctx.onchip_app_valid \/ ~is_valid_on_chip_app_program(chip)
      BY <1>1, <1>2 DEF Flag
    <3>2. CASE NeedCopyFlashToChip(Wanted)
      BY <1>1, <1>2, <2>1, <3>2 DEF Copying
    <3>3. CASE ~NeedCopyFlashToChip(Wanted)
      <4>1. Holds(chip, Wanted) \/ ~is_valid_on_chip_app_program(chip)
        BY <3>1, <3>3 DEF NeedCopyFlashToChip
      <4>2. (Holds(chip, Wanted) \/ ~is_valid_on_chip_app_program(chip))' BY <1>1, <2>5, <4>1 DEF Holds
      <4>3. QED BY <2>1, <3>3, <4>2 DEF Copying
    <3>4. QED BY <3>2, <3>3
  <2>7. Copied' /\ Flag' /\ Ends'
    BY <1>1, <1>2, <2>1 DEF Copied, Flag, Ends, FactoryPcs, NeedCopyFlashToChip
  <2>8. QED BY <1>1, <2>2, <2>4, <2>6, <2>7 DEF BootInv, flash
<1>7. QED BY <1>5, <1>6

\* The loops that erase and program the chip work for the same application.
LEMMA SameCandidate ==
  ASSUME Trying, pc \in LoadPcs \ {"tryLoad"}, pc' \in LoadPcs \ {"tryLoad"},
         UNCHANGED <<recs, slots, sysctx, ota_info, turn>>
  PROVE  Trying' /\ Wanted' = Wanted
<1>1. ChosenOldId' = ChosenOldId /\ Chosen' = Chosen BY ChoiceOf
<1>2. Trying' BY <1>1 DEF Trying
<1>3. QED BY <1>2 DEF Wanted, Candidate

LEMMA CopyStep ==
  ASSUME Mishaps = {}, BootInv, EraseChipPage \/ ProgramChipPage, UNCHANGED boots
  PROVE  BootInv' /\ UNCHANGED <<recs, slots, meta, mode>>
<1>1. /\ mode = "boot" /\ pc \in {"eraseChip", "programChip"}
      /\ pc \in LoadPcs \ {"tryLoad"} /\ UNCHANGED <<recs, slots, meta>>
  BY DEF EraseChipPage, ProgramChipPage, LoadPcs
<1>2. Types /\ Flag /\ Trying /\ Copying BY DEF BootInv
<1>3. /\ Wanted \in Images /\ Size[Wanted] \in Blocks
      /\ \A b \in 1 .. Size[Wanted] : slots[Candidate][b] = Wanted
      /\ \A b \in Blocks : b >= 1 /\ b <= NumBlocks /\ b \in Int
      /\ NumBlocks \in Blocks /\ NumBlocks \in Nat /\ 1 \in Blocks
  <2>1. Holds(slots[Candidate], Wanted) BY <1>1, <1>2, CandidateIs DEF Trying
  <2>2. QED BY <2>1, StoreAssumption DEF Holds, Blocks
<1>4. block \in Blocks /\ chip \in Areas /\ sysctx.onchip_app_valid
  BY <1>1, <1>2 DEF Types, Flag
<1>5. /\ UNCHANGED <<mode, sysctx, ota_info, turn>> /\ block' \in Blocks
      /\ pc' \in LoadPcs \ {"tryLoad"} /\ chip' \in Areas
      /\ pc' \notin LoopPcs => block' = 1
      /\ Copying'
  <2>1. CASE EraseChipPage
    <3>1. /\ chip' = [chip EXCEPT ![block] = Blank] /\ pc = "eraseChip"
          /\ NextBlock(NumBlocks, "programChip") /\ UNCHANGED <<mode, sysctx, ota_info>>
      BY <2>1 DEF EraseChipPage, Mishap
    <3>2. /\ UNCHANGED turn /\ block' \in Blocks
          /\ \/ block < NumBlocks /\ block' = block + 1 /\ pc' = pc
             \/ NumBlocks <= block /\ block' = 1 /\ pc' = "programChip"
      BY <1>3, <1>4, <3>1, RoundType
    <3>3. chip' \in Areas BY <1>4, <3>1, StoreAssumption DEF Areas, Cells
    <3>4. \A b \in 1 .. block : chip'[b] = Blank
      BY <1>2, <1>3, <1>4, <3>1 DEF Copying, Areas, Blocks
    <3>5. Wanted' = Wanted BY <3>1, <3>2 DEF Wanted, Candidate
    <3>6. Copying'
      <4>1. CASE pc' = "eraseChip" BY <1>4, <3>1, <3>2, <3>4, <4>1 DEF Copying, Blocks
      <4>2. CASE pc' = "programChip"
        BY <1>3, <1>4, <3>1, <3>2, <3>4, <3>5, <4>2 DEF Copying, Blocks
      <4>3. QED BY <3>1, <3>2, <4>1, <4>2
    <3>7. QED BY <3>1, <3>2, <3>3, <3>6 DEF LoadPcs, LoopPcs
  <2>2. CASE ProgramChipPage
    <3>1. /\ pc = "programChip" /\ block <= Size[Wanted]
          /\ slots[Candidate][block] = Wanted /\ chip[block] = Blank
      BY <1>2, <1>3, <1>4, <2>2 DEF ProgramChipPage, Copying, Blocks
    <3>2. /\ chip' = [chip EXCEPT ![block] = Wanted]
          /\ NextBlock(Size[Wanted], "loaded") /\ UNCHANGED <<mode, sysctx, ota_info>>
      BY <2>2, <3>1 DEF ProgramChipPage, Mishap, TakesBlock, BlocksToProgram, Wanted
    <3>3. /\ UNCHANGED turn /\ block' \in Blocks
          /\ \/ block < Size[Wanted] /\ block' = block + 1 /\ pc' = pc
             \/ Size[Wanted] <= block /\ block' = 1 /\ pc' = "loaded"
      BY <1>3, <1>4, <3>2, RoundType
    <3>4. chip' \in Areas BY <1>3, <1>4, <3>2 DEF Areas, Cells
    <3>5. /\ \A b \in 1 .. block : chip'[b] = Wanted
          /\ \A b \in block + 1 .. NumBlocks : chip'[b] = Blank
      BY <1>2, <1>3, <1>4, <3>1, <3>2 DEF Copying, Areas, Blocks
    <3>6. Wanted' = Wanted BY <3>2, <3>3 DEF Wanted, Candidate
    <3>7. Copying'
      <4>1. CASE pc' = "programChip"
        BY <1>3, <1>4, <3>1, <3>3, <3>5, <3>6, <4>1 DEF Copying, Blocks
      <4>2. CASE pc' = "loaded"
        <5>1. block = Size[Wanted] BY <1>3, <1>4, <3>1, <3>3, <4>2 DEF Blocks
        <5>2. (Holds(chip, Wanted))' BY <1>3, <3>5, <3>6, <5>1 DEF Holds
        <5>3. QED BY <4>2, <5>2 DEF Copying
      <4>3. QED BY <3>1, <3>3, <4>1, <4>2
    <3>8. QED BY <3>1, <3>2, <3>3, <3>4, <3>7 DEF LoadPcs, LoopPcs
  <2>3. QED BY <2>1, <2>2
<1>6. Types' BY <1>1, <1>2, <1>5 DEF Types, Pcs, LoadPcs
<1>7. Trying' BY <1>1, <1>2, <1>5, SameCandidate
<1>8. Copied' /\ Flag' /\ Ends'
  BY <1>1, <1>4, <1>5 DEF Copied, Flag, Ends, FactoryPcs, LoadPcs
<1>9. QED BY <1>1, <1>5, <1>6, <1>7, <1>8 DEF BootInv

\* The record after a boot of another application than the current one.
LEMMA BootedType ==
  ASSUME NEW r \in OtaInfo, r.seq < SeqLimit, NEW a \in Apps
  PROVE  /\ BootedRecord(r, a) \in OtaInfo
         /\ BootedRecord(r, a).seq = r.seq + 1 /\ r.seq + 1 <= SeqLimit
         /\ BootedRecord(r, a).current_app = a /\ BootedRecord(r, a).info = r.info
<1>1. [r EXCEPT !.seq = @ + 1] \in OtaInfo
  BY StoreAssumption DEF OtaInfo, Seqs, TornSeq, ErasedSeq
<1>2. r.seq + 1 <= SeqLimit BY StoreAssumption DEF OtaInfo, Seqs, ErasedSeq
<1>3. QED BY <1>1, <1>2 DEF BootedRecord, OtaInfo

\* What loaded is the current application of the record in charge, or becomes
\* it.
LEMMA LoadedStep ==
  ASSUME Mishaps = {}, BootInv, Loaded, UNCHANGED boots
  PROVE  /\ BootInv' /\ UNCHANGED <<slots, chip, meta, mode>>
         /\ recs' # recs =>
              /\ Chosen.current_app # Candidate
              /\ \A id \in OtaIds : recs'[id] # recs[id] => id = ChosenOldId
<1>1. /\ mode = "boot" /\ pc = "loaded" /\ pc \in LoadPcs
      /\ Types /\ Trying /\ Copying
  BY DEF Loaded, LoadPcs, BootInv
<1>2. /\ ota_info = Chosen /\ sysctx.otaid = ChosenOldId /\ ChosenOldId \in OtaIds
      /\ Candidate \in Apps /\ Wanted = Chosen.info[Candidate]
      /\ Holds(slots[Candidate], Wanted)
      /\ Holds(chip, Wanted) \/ ~is_valid_on_chip_app_program(chip)
      /\ recs \in [OtaIds -> OtaInfo] /\ Chosen \in OtaInfo /\ sysctx \in SysCtx
  BY <1>1, CandidateIs, OtherIds DEF Trying, Copying, Types
<1>3. /\ UNCHANGED <<slots, chip, meta, mode>>
      /\ pc' = "leave" /\ block' = 1 /\ turn' = 1
      /\ sysctx' \in SysCtx /\ ~sysctx'.dfu
      /\ \/ Chosen.current_app = Candidate /\ UNCHANGED <<recs, ota_info>>
         \/ /\ Chosen.current_app # Candidate /\ Chosen.seq < SeqLimit
            /\ ota_info' = BootedRecord(Chosen, Candidate)
            /\ recs' = [recs EXCEPT ![ChosenOldId] = BootedRecord(Chosen, Candidate)]
  BY <1>1, <1>2, OtherIds
  DEF Loaded, LeaveLoops, StoreCut, Mishap, Store, Toggled, SysCtx, Types, flash
<1>4. /\ ota_info' \in OtaInfo /\ recs' \in [OtaIds -> OtaInfo]
      /\ Chosen' \in OtaInfo /\ Chosen'.current_app = Candidate
      /\ Chosen'.info = Chosen.info
      /\ recs' # recs => \A id \in OtaIds : recs'[id] # recs[id] => id = ChosenOldId
  <2>1. CASE Chosen.current_app = Candidate
    <3>1. UNCHANGED <<recs, ota_info>> BY <1>3, <2>1
    <3>2. QED BY <1>1, <1>2, <2>1, <3>1, ChoiceOf DEF Types
  <2>2. CASE Chosen.current_app # Candidate
    <3> DEFINE r == BootedRecord(Chosen, Candidate)
    <3>1. /\ Chosen.seq \in Nat /\ Chosen.seq < SeqLimit /\ SeqLimit \in Nat
          /\ recs' = [recs EXCEPT ![ChosenOldId] = r] /\ ota_info' = r
      BY <1>2, <1>3, <2>2, StoreAssumption DEF OtaInfo, Seqs, ErasedSeq
    <3>2. /\ r \in OtaInfo /\ r.seq = Chosen.seq + 1 /\ r.seq <= SeqLimit
          /\ r.current_app = Candidate /\ r.info = Chosen.info
      BY <1>2, <3>1, BootedType
    <3>3. Candidate # BadApp
      BY <1>2 DEF Apps, BadApp, FLASH_APP_ID_FACTORY, FLASH_APP_ID_APP1, FLASH_APP_ID_APP2
    <3> HIDE DEF r
    <3>4. Chosen' = r BY <1>2, <3>1, <3>2, <3>3, NextTakesCharge
    <3>5. QED BY <1>2, <3>1, <3>2, <3>4
  <2>3. QED BY <2>1, <2>2
<1>5. Types'
  BY <1>1, <1>3, <1>4, StoreAssumption DEF Types, Pcs, LoopPcs, LoadPcs, Blocks
<1>6. Settled'
  <2>1. Current' = Wanted BY <1>2, <1>4 DEF Current
  <2>2. Holds(slots'[Chosen'.current_app], Current') BY <1>2, <1>3, <1>4, <2>1
  <2>3. QED BY <1>2, <1>3, <1>4, <2>1, <2>2 DEF Settled
<1>7. Copied' /\ Flag' /\ Trying' /\ Copying' /\ Ends'
  BY <1>1, <1>3, <1>6 DEF Copied, Flag, Trying, Copying, Ends, FactoryPcs, LoadPcs
<1>8. QED BY <1>3, <1>4, <1>5, <1>7 DEF BootInv

\* The jump, the ISP loop, and a second start.
LEMMA LeaveStep ==
  ASSUME BootInv, \/ (EnterIsp \/ Jump) /\ UNCHANGED boots
                  \/ StartAgain
                  \/ UNCHANGED anyVars
  PROVE  BootInv' /\ UNCHANGED flash
<1>1. CASE UNCHANGED anyVars
  <2>1. UNCHANGED <<recs, slots, chip, meta, mode, sysctx, ota_info, pc, block, turn, boots>>
    BY <1>1 DEF anyVars, boardVars, bootVars
  <2>2. ChosenOldId' = ChosenOldId /\ Chosen' = Chosen /\ Settled' = Settled
    BY <2>1, ChoiceOf, LoadsOf
  <2>3. Wanted' = Wanted /\ Candidate' = Candidate BY <2>1 DEF Wanted, Candidate
  <2>4. Types' /\ Copied' /\ Flag' /\ Ends'
    BY <2>1, <2>2 DEF BootInv, Types, Copied, Flag, Ends, Holds
  <2>5. Trying' /\ Copying' BY <2>1, <2>2, <2>3 DEF BootInv, Trying, Copying, Holds
  <2>6. QED BY <2>1, <2>4, <2>5 DEF BootInv, flash
<1>2. CASE ~UNCHANGED anyVars
  <2>1. /\ UNCHANGED <<recs, slots, chip, meta, ota_info>>
        /\ pc' = "reset" /\ block' = 1 /\ turn' = 1
        /\ sysctx' \in SysCtx /\ ~sysctx'.dfu
        /\ mode' \in {"boot", "isp", "app", "lost"} /\ boots' \in {1, 2}
        /\ mode' # "boot" => pc = "leave"
        /\ mode' = "app" => \E image \in Images : Holds(chip, image)
    BY <1>2 DEF EnterIsp, Jump, StartAgain, BootReset, LeaveLoops, flash, bootVars,
       BootInv, Types, LoopPcs, LoadPcs, SysCtx
  <2>2. Settled' = Settled /\ (pc = "leave" => Settled)
    BY <2>1, LoadsOf DEF BootInv, Ends
  <2>3. mode' = "app" => is_valid_on_chip_app_program(chip) BY <2>1, HeldIsValid
  <2>4. Types'
    BY <2>1, StoreAssumption DEF BootInv, Types, Pcs, LoopPcs, LoadPcs, Blocks
  <2>5. Copied' /\ Flag' /\ Trying' /\ Copying' /\ Ends'
    BY <2>1, <2>2, <2>3 DEF Copied, Flag, Trying, Copying, Ends, FactoryPcs, LoadPcs
  <2>6. QED BY <2>1, <2>4, <2>5 DEF BootInv, flash
<1>3. QED BY <1>1, <1>2

-----------------------------------------------------------------------------
\* Next, by what the lemmas above say of its steps.
LEMMA StepKinds ==
  ASSUME [AnyNext]_anyVars
  PROVE  \/ /\ \/ MainStart \/ EraseFactorySector \/ CopyFactoryPage \/ SaveMaster
               \/ SaveBackup \/ EraseMeta
            /\ UNCHANGED boots
         \/ check_ota /\ UNCHANGED boots
         \/ TryLoad /\ UNCHANGED boots
         \/ (EraseChipPage \/ ProgramChipPage) /\ UNCHANGED boots
         \/ Loaded /\ UNCHANGED boots
         \/ (EnterIsp \/ Jump) /\ UNCHANGED boots
         \/ StartAgain
         \/ UNCHANGED anyVars
BY DEF AnyNext, BootSteps, Stay

LEMMA ContentsBoot == ContentsInit => BootInv
BY StoreAssumption DEF ContentsInit, BootIdle, BootInv, Types, Copied, Flag, Trying,
   Copying, Ends, FactoryPcs, LoadPcs, LoopPcs, Pcs, Blocks

LEMMA BootStep ==
  ASSUME Mishaps = {}
  PROVE  BootInv /\ [AnyNext]_anyVars => BootInv'
BY StepKinds, FactoryStep, CheckStep, TryStep, CopyStep, LoadedStep, LeaveStep

\* TLC's boards are some of those the theorems are about.
THEOREM RunsAreContents == AnySpec => ContentsSpec
<1>1. AnyInit => ContentsInit
  <2>1. AnyRecord \subseteq OtaInfo
    <3>1. \A n \in 0 .. MaxSeq : n \in Seqs
      BY AnyStoreAssumption, StoreAssumption DEF Seqs, ErasedSeq
    <3>2. ErasedRecord \in OtaInfo
      BY StoreAssumption DEF ErasedRecord, OtaInfo, Seqs, ErasedSeq, DlStates, Infos
    <3>3. \A n \in 0 .. MaxSeq : [ErasedRecord EXCEPT !.seq = n] \in OtaInfo
      BY <3>1, <3>2 DEF OtaInfo
    <3>4. 1 \in Infos /\ ErasedInfo \in Infos
      BY StoreAssumption DEF Infos, Images
    <3>5. [seq : 0 .. MaxSeq, current_app : Apps, dlstate : {"IDLE"},
           info : [Apps -> {1, ErasedInfo}]] \subseteq OtaInfo
      BY <3>1, <3>4 DEF OtaInfo, DlStates
    <3>6. QED BY <3>2, <3>3, <3>5 DEF AnyRecord
  <2>2. /\ \A i \in Images : AreaOf(i) \in Areas
        /\ BlankArea \in Areas /\ [AreaOf(1) EXCEPT ![Size[1]] = Torn] \in Areas
        /\ [AreaOf(1) EXCEPT ![1] = TornHead] \in Areas
        /\ 1 \in Images
    BY StoreAssumption DEF AreaOf, BlankArea, Areas, Cells, Blocks, Images, Blank, Torn,
       TornHead
  <2>3. AnyArea \subseteq Areas BY <2>2 DEF AnyArea
  <2>4. NoContext \in SysCtx /\ ~NoContext.dfu
    BY DEF NoContext, SysCtx, Apps, OtaIds
  <2>5. QED
    BY <2>1, <2>2, <2>3, <2>4 DEF AnyInit, ContentsInit, Infos, AnyRecord
<1>2. QED BY <1>1, PTL DEF AnySpec, ContentsSpec

\* Whatever the memories hold, a board that is spared mishaps does not run
\* another application than the one the record in charge calls current, as
\* long as one of those it knows is in its slot.
THEOREM StartsTheCurrent ==
  ASSUME Mishaps = {}
  PROVE  ContentsSpec => []StartedIsCurrent
<1>1. BootInv => StartedIsCurrent
  BY DEF BootInv, Ends, Settled, StartedIsCurrent, Current
<1>2. QED BY <1>1, ContentsBoot, BootStep, PTL DEF ContentsSpec

\* And the boot loader writes over the record in charge only to set up a new
\* factory image.
THEOREM BootSparesChosen ==
  ASSUME Mishaps = {}
  PROVE  ContentsSpec => SparesChosen
<1>1. ASSUME BootInv, [AnyNext]_anyVars, ~Holds(chip, meta)
      PROVE  \A id \in OtaIds : recs'[id] # recs[id] => id = ChosenOldId
  <2>1. ~SaveMaster /\ ~SaveBackup
    BY <1>1 DEF SaveMaster, SaveBackup, BootInv, Copied, FactoryPcs
  <2>2. CASE MainStart \/ EraseFactorySector \/ CopyFactoryPage \/ EraseMeta
    BY <2>2 DEF MainStart, EraseFactorySector, CopyFactoryPage, EraseMeta, flash
  <2>3. CASE Loaded /\ UNCHANGED boots BY <1>1, <2>3, LoadedStep
  <2>4. CASE check_ota \/ TryLoad \/ EraseChipPage \/ ProgramChipPage
    BY <2>4 DEF check_ota, TryLoad, EraseChipPage, ProgramChipPage, flash
  <2>5. CASE EnterIsp \/ Jump \/ StartAgain \/ UNCHANGED anyVars
    BY <2>5 DEF EnterIsp, Jump, StartAgain, anyVars, boardVars, flash
  <2>6. QED BY <1>1, <2>1, <2>2, <2>3, <2>4, <2>5, StepKinds
<1>2. BootInv /\ [AnyNext]_anyVars =>
        [~Holds(chip, meta) =>
           \A id \in OtaIds : recs'[id] # recs[id] => id = ChosenOldId]_anyVars
  BY <1>1
<1>3. QED BY <1>2, ContentsBoot, BootStep, PTL DEF ContentsSpec, SparesChosen

-----------------------------------------------------------------------------
\* The second start.  It finds the metadata erased and the board settled.
PastFactory == boots = 2 \/ mode # "boot" \/ pc \in LoadPcs \cup {"checkOta", "leave"}

Quiet ==
  /\ IF PastFactory THEN meta \notin Images ELSE MetaTells
  /\ boots = 2 => Settled /\ pc \notin FactoryPcs \cup {"eraseChip", "programChip"}

QuietInv == BootInv /\ Quiet

\* On a settled board nothing but the current application loads, and nothing
\* is copied.
LEMMA LoadsCurrent ==
  ASSUME BootInv, Settled, pc \in LoadPcs, ~Fails(slots, Chosen, turn)
  PROVE  /\ Candidate = Chosen.current_app
         /\ Holds(chip, Wanted) \/ ~is_valid_on_chip_app_program(chip)
<1>1. /\ Chosen.current_app \in Apps /\ \A n \in 1 .. turn - 1 : Fails(slots, Chosen, n)
      /\ turn \in 1 .. Len(BootOrder(Chosen.current_app)) /\ turn \in 1 .. 3
      /\ Candidate = BootOrder(Chosen.current_app)[turn]
      /\ Wanted = Chosen.info[Candidate]
  BY CandidateIs DEF BootInv, Trying, Types
<1>2. Chosen.current_app # BadApp
  BY <1>1 DEF Apps, BadApp, FLASH_APP_ID_FACTORY, FLASH_APP_ID_APP1, FLASH_APP_ID_APP2
<1>3. SomeLoadable(Chosen) BY <1>1, <1>2 DEF SomeLoadable, Fails
<1>4. ~Fails(slots, Chosen, 1)
  BY <1>1, <1>3, OrderType DEF Settled, Fails, Current
<1>5. turn = 1 BY <1>1, <1>4
<1>6. Candidate = Chosen.current_app BY <1>1, <1>5, OrderType
<1>7. QED BY <1>1, <1>3, <1>6 DEF Settled, Current

LEMMA QuietStep ==
  ASSUME Mishaps = {}, QuietInv, [AnyNext]_anyVars
  PROVE  QuietInv' /\ (boots = 2 => UNCHANGED flash)
<1>1. BootInv /\ BootInv' /\ Quiet BY BootStep DEF QuietInv
<1>2. Types /\ Types' BY <1>1 DEF BootInv
<1>3. CASE UNCHANGED boots /\ ~UNCHANGED anyVars
  <2>1. mode = "boot"
    BY <1>3, StepKinds DEF StartAgain, MainStart, EraseFactorySector, CopyFactoryPage,
       SaveMaster, SaveBackup, EraseMeta, check_ota, TryLoad, EraseChipPage,
       ProgramChipPage, Loaded, EnterIsp, Jump
  <2>2. CASE pc \in {"reset"} \cup FactoryPcs
    <3>1. \/ MainStart \/ EraseFactorySector \/ CopyFactoryPage \/ SaveMaster
          \/ SaveBackup \/ EraseMeta
      BY <1>2, <1>3, <2>2, StepKinds DEF StartAgain, check_ota, TryLoad, EraseChipPage,
         ProgramChipPage, Loaded, EnterIsp, Jump, FactoryPcs, Types
    <3>2. UNCHANGED <<chip, mode>> /\ (MainStart => UNCHANGED flash)
      BY <1>1, <1>3, <3>1, FactoryStep
    <3>3. ~PastFactory <=> boots # 2
      BY <2>1, <2>2 DEF PastFactory, FactoryPcs, LoadPcs
    <3>4. CASE boots = 2
      <4>1. MainStart
        BY <1>1, <3>1, <3>4 DEF Quiet, EraseFactorySector, CopyFactoryPage, SaveMaster,
           SaveBackup, EraseMeta, FactoryPcs
      <4>2. meta \notin Images /\ Settled BY <1>1, <3>3, <3>4 DEF Quiet
      <4>3. pc' \in {"leave", "checkOta"}
        BY <4>1, <4>2 DEF MainStart, GoTo, AfterFactory, check_onchip_factory_metadata,
           Holds
      <4>4. Settled' BY <3>2, <4>1, <4>2, LoadsOf DEF flash
      <4>5. QED
        BY <1>1, <1>3, <3>2, <3>4, <4>1, <4>2, <4>3, <4>4 DEF QuietInv, Quiet,
           PastFactory, FactoryPcs, flash
    <3>5. CASE boots = 1
      <4>1. MetaTells BY <1>1, <3>3, <3>5 DEF Quiet
      <4>2. CASE EraseMeta
        <5>1. meta' = ErasedInfo BY <4>2 DEF EraseMeta, Mishap
        <5>2. meta' \notin Images BY <5>1, StoreAssumption DEF ErasedInfo, Images
        <5>3. QED BY <1>1, <1>3, <3>5, <5>2 DEF QuietInv, Quiet, MetaTells
      <4>3. CASE MainStart
        <5>1. UNCHANGED meta BY <3>2, <4>3 DEF flash
        <5>2. \/ pc' = "eraseFactory"
              \/ pc' \in {"leave", "checkOta"} /\ meta \notin Images
          <6>1. meta \in Images => is_valid_on_chip_app_program(chip) BY <4>1, HeldIsValid DEF MetaTells
          <6>2. QED
            BY <4>1, <4>3, <6>1 DEF MainStart, GoTo, AfterFactory, MetaTells,
               check_onchip_factory_metadata, is_valid_on_chip_app_program
        <5>3. QED
          BY <1>1, <1>3, <2>1, <3>2, <3>5, <4>1, <5>1, <5>2 DEF QuietInv, Quiet,
             PastFactory, MetaTells, LoadPcs, Holds
      <4>4. CASE ~EraseMeta /\ ~MainStart
        <5>1. UNCHANGED meta /\ pc' \notin LoadPcs \cup {"checkOta", "leave"}
          BY <1>2, <3>1, <4>4 DEF EraseFactorySector, CopyFactoryPage, SaveMaster,
             SaveBackup, StoreCut, SpoiltCopy, Mishap, GoTo, NextBlock, LoadPcs
        <5>2. QED
          BY <1>1, <1>3, <2>1, <3>2, <3>5, <4>1, <5>1 DEF QuietInv, Quiet, PastFactory,
             MetaTells, Holds
      <4>5. QED BY <4>2, <4>3, <4>4
    <3>6. QED BY <1>2, <3>4, <3>5 DEF Types
  <2>3. CASE pc \notin {"reset"} \cup FactoryPcs
    <3>1. /\ PastFactory /\ meta \notin Images
      <4>1. pc \in LoadPcs \cup {"checkOta", "leave"}
        BY <1>2, <2>3 DEF Types, Pcs, FactoryPcs, LoadPcs
      <4>2. QED BY <1>1, <4>1 DEF PastFactory, Quiet
    <3>2. /\ UNCHANGED meta
          /\ pc' \in LoadPcs \cup {"checkOta", "leave"} \/ mode' # "boot"
      BY <1>2, <1>3, <2>1, <2>3, StepKinds DEF StartAgain, MainStart, EraseFactorySector,
         CopyFactoryPage, SaveMaster, SaveBackup, EraseMeta, check_ota, TryLoad,
         EraseChipPage, ProgramChipPage, Loaded, EnterIsp, Jump, FactoryPcs, LoadPcs,
         GoTo, LoadFails, LeaveLoops, NextBlock, Mishap, StoreCut, flash
    <3>3. PastFactory' BY <3>2 DEF PastFactory
    <3>4. CASE boots = 1 BY <1>1, <1>3, <3>1, <3>2, <3>3, <3>4 DEF QuietInv, Quiet
    <3>5. CASE boots = 2
      <4>1. Settled /\ pc \notin {"eraseChip", "programChip"} BY <1>1, <3>5 DEF Quiet
      <4>2. UNCHANGED flash /\ pc' \notin FactoryPcs \cup {"eraseChip", "programChip"}
        <5>1. CASE TryLoad
          <6>1. UNCHANGED flash /\ pc = "tryLoad" /\ pc \in LoadPcs
            BY <5>1 DEF TryLoad, LoadPcs
          <6>2. ~Fails(slots, Chosen, turn) => ~NeedCopyFlashToChip(Wanted)
            BY <1>1, <4>1, <6>1, LoadsCurrent DEF NeedCopyFlashToChip, BootInv, Flag
          <6>3. QED
            BY <1>1, <5>1, <6>1, <6>2, CandidateIs DEF TryLoad, LoadFails, LeaveLoops,
               GoTo, Wanted, FactoryPcs
        <5>2. CASE Loaded
          <6>1. pc = "loaded" /\ pc \in LoadPcs BY <5>2 DEF Loaded, LoadPcs
          <6>2. ~Fails(slots, Chosen, turn) BY <1>1, <6>1 DEF BootInv, Trying
          <6>3. Candidate = Chosen.current_app BY <1>1, <4>1, <6>1, <6>2, LoadsCurrent
          <6>4. UNCHANGED <<recs, slots, chip, meta>> BY <1>1, <1>3, <5>2, <6>3, LoadedStep
          <6>5. QED
            BY <5>2, <6>4 DEF Loaded, LeaveLoops, BootReset, FactoryPcs, flash
        <5>3. CASE check_ota \/ EnterIsp \/ Jump
          BY <5>3 DEF check_ota, EnterIsp, Jump, GoTo, BootReset, LeaveLoops, FactoryPcs
        <5>4. QED
          BY <1>3, <2>1, <2>3, <4>1, <5>1, <5>2, <5>3, StepKinds DEF StartAgain,
             MainStart, EraseFactorySector, CopyFactoryPage, SaveMaster, SaveBackup,
             EraseMeta, EraseChipPage, ProgramChipPage, FactoryPcs
      <4>3. Settled' BY <4>1, <4>2, LoadsOf DEF flash
      <4>4. QED BY <1>1, <3>1, <3>2, <3>3, <4>2, <4>3 DEF QuietInv, Quiet
    <3>6. QED BY <1>2, <3>4, <3>5 DEF Types
  <2>4. QED BY <2>2, <2>3
<1>4. CASE StartAgain \/ UNCHANGED anyVars
  <2>1. UNCHANGED flash /\ BootInv' BY <1>1, <1>4, LeaveStep
  <2>2. Settled' = Settled BY <2>1, LoadsOf DEF flash
  <2>3. CASE StartAgain
    <3>1. PastFactory /\ Settled /\ boots' = 2 /\ pc = "reset" /\ pc' = "reset"
      BY <1>1, <1>2, <2>3 DEF StartAgain, PastFactory, BootInv, Ends, Types, bootVars
    <3>2. QED
      BY <1>1, <2>1, <2>2, <3>1 DEF QuietInv, Quiet, PastFactory, FactoryPcs, flash
  <2>4. CASE UNCHANGED anyVars
    <3>1. UNCHANGED <<chip, meta, mode, pc, boots>>
      BY <2>4 DEF anyVars, boardVars, bootVars
    <3>2. QED
      BY <1>1, <2>1, <2>2, <3>1 DEF QuietInv, Quiet, PastFactory, MetaTells, Holds
  <2>5. QED BY <1>4, <2>3, <2>4
<1>5. QED BY <1>3, <1>4, StepKinds

\* Where the metadata tell the truth, a board that has booted once is settled:
\* the next start erases nothing, programs nothing, records nothing.
THEOREM SecondBootIsQuiet ==
  ASSUME Mishaps = {}
  PROVE  MetaTells /\ ContentsSpec => SecondBootWritesNothing
<1>1. MetaTells /\ ContentsInit => QuietInv
  BY ContentsBoot DEF ContentsInit, BootIdle, QuietInv, Quiet, PastFactory, LoadPcs
<1>2. QuietInv /\ [AnyNext]_anyVars => QuietInv'
  BY QuietStep
<1>3. QuietInv /\ [AnyNext]_anyVars => [boots = 2 => UNCHANGED flash]_anyVars
  BY QuietStep
<1>4. QED BY <1>1, <1>2, <1>3, PTL DEF ContentsSpec, SecondBootWritesNothing
=============================================================================
