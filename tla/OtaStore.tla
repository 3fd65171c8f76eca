------------------------------ MODULE OtaStore ------------------------------
(***************************************************************************)
(* The data every program of the board shares: firmware images, the flash  *)
(* areas that hold them, and the two copies of the OTA record.             *)
(*                                                                         *)
(* An image is a number; an area (an application slot of the NOR flash or  *)
(* the on-chip application area) is a function from blocks to cells.  A    *)
(* cell holds one block of some image, is erased (Blank) or was left half  *)
(* erased or half programmed by a power cut or a fault: Torn, or TornHead  *)
(* where its first bytes are spoilt too, a difference only the first block *)
(* of the chip shows.  One block stands for one erase unit together with   *)
(* the bytes programmed into it, and every image differs from every other  *)
(* one in every block, so that a CRC-32 match is the same as holding all   *)
(* the blocks of the image.                                                *)
(***************************************************************************)
EXTENDS Integers, FiniteSets

CONSTANTS
  NumImages,     \* number of application images that exist
  NumBlocks,     \* blocks of the application area, APP_MAX_SIZE
  Size,          \* Size[i]: blocks of image i, at least one
  Version,       \* Version[i]: version of image i, two images may share one
  VersionLimit,  \* 0xFFFFFFFF: the version read from an erased app_info_t
  SeqLimit       \* bound on the record sequence numbers the runs reach

Images == 1 .. NumImages
Blocks == 1 .. NumBlocks

ASSUME StoreAssumption ==
  /\ NumImages \in Nat \ {0}
  /\ NumBlocks \in Nat \ {0}
  /\ VersionLimit \in Nat
  /\ Size \in [Images -> Blocks]
  /\ Version \in [Images -> 1 .. VersionLimit - 1]
  /\ SeqLimit \in Nat \ {0}

-----------------------------------------------------------------------------
\* Cells and areas.

Blank    == 0
Torn     == NumImages + 1
TornHead == NumImages + 2
Cells    == Images \cup {Blank, Torn, TornHead}
Areas == [Blocks -> Cells]

BlankArea == [b \in Blocks |-> Blank]

\* The whole area programmed with one image.
AreaOf(image) == [b \in Blocks |-> IF b <= Size[image] THEN image ELSE Blank]

\* What a cut or a fault leaves of block b.  The bytes the boot loader tests
\* are the first of the area.
TornCells(b) == IF b = 1 THEN {Torn, TornHead} ELSE {Torn}

\* The first bytes of the area are `LJMP addr16` into the area: those of an
\* image, or of a torn block that kept them or got 02 and an address half
\* programmed.  Bytes half way between 02 and erased fail the test.
is_valid_on_chip_app_program(area) == area[1] \notin {Blank, TornHead}

-----------------------------------------------------------------------------
\* app_info_t: NoInfo is init_app_info's zero size, ErasedInfo is 0xFF bytes.

NoInfo     == 0
ErasedInfo == NumImages + 1
Infos      == Images \cup {NoInfo, ErasedInfo}

VersionOf(info) ==
  IF info = ErasedInfo THEN VersionLimit
  ELSE IF info = NoInfo THEN 0
  ELSE Version[info]

\* The size is in range and the CRC over that many bytes matches.
Holds(area, info) ==
  /\ info \in Images
  /\ \A b \in 1 .. Size[info] : area[b] = info

-----------------------------------------------------------------------------
\* ota_info_t and its two copies.

FLASH_OTA_ID_MASTER == 0
FLASH_OTA_ID_BACKUP == 1
OtaIds == {FLASH_OTA_ID_MASTER, FLASH_OTA_ID_BACKUP}
Other(id) == 1 - id

FLASH_APP_ID_FACTORY == 0
FLASH_APP_ID_APP1    == 1
FLASH_APP_ID_APP2    == 2
Apps == {FLASH_APP_ID_FACTORY, FLASH_APP_ID_APP1, FLASH_APP_ID_APP2}

BadApp == 3  \* current_app above FLASH_APP_ID_MAX, such as an erased 0xFF

\* A sequence number torn in the middle has its low bytes still 0xFF: above
\* every number written, below the erased 0xFFFFFFFF.
TornSeq   == SeqLimit + 1
ErasedSeq == SeqLimit + 2
Seqs      == 0 .. ErasedSeq

\* VERIFYING and APPLYING are declared in flash_app_dl_state_t, never stored.
DlStates == {"INVALID", "IDLE", "ERASING", "DOWNLOADING"}

OtaInfo == [seq : Seqs, current_app : Apps \cup {BadApp},
            dlstate : DlStates, info : [Apps -> Infos]]

ErasedRecord == [seq |-> ErasedSeq, current_app |-> BadApp,
                 dlstate |-> "INVALID", info |-> [a \in Apps |-> ErasedInfo]]

\* The record a new factory image starts from.
FactoryRecord(image) ==
  [seq |-> 0, current_app |-> FLASH_APP_ID_FACTORY, dlstate |-> "IDLE",
   info |-> [a \in Apps |-> IF a = FLASH_APP_ID_FACTORY THEN image ELSE NoInfo]]

\* The records a page program of r leaves behind when power fails after some
\* of its bytes: the fields in the order they are laid out, then 0xFF bytes.
TornRecords(r) ==
  { [seq         |-> IF n = 0 THEN TornSeq ELSE r.seq,
     current_app |-> IF n >= 2 THEN r.current_app ELSE BadApp,
     dlstate     |-> IF n >= 3 THEN r.dlstate ELSE "INVALID",
     info        |-> [a \in Apps |-> IF n >= a + 4 THEN r.info[a] ELSE ErasedInfo]]
    : n \in 0 .. 5 }

\* The copy that is older, and so the one to overwrite.  The third branch of
\* the code repeats the test of the second, so nothing singles out an erased
\* backup: its 0xFFFFFFFF takes part in the comparison.
findout_which_ota_info_is_older(recs) ==
  LET seq_master == recs[FLASH_OTA_ID_MASTER].seq
      seq_backup == recs[FLASH_OTA_ID_BACKUP].seq
  IN  IF seq_master = ErasedSeq \/ seq_master <= seq_backup
      THEN FLASH_OTA_ID_MASTER
      ELSE FLASH_OTA_ID_BACKUP
=============================================================================
