------------------------------- MODULE Board --------------------------------
(***************************************************************************)
(* The board: the memories that survive a power cut, the RAM the boot      *)
(* loader and the application share, and what the world may do to them.    *)
(* The boot loader and the application, of which one runs at a time, are   *)
(* modelled over these variables by Bootloader and OtaClient.              *)
(***************************************************************************)
EXTENDS OtaStore

CONSTANTS
  Mishaps,     \* what may go wrong in a run, a subset of MishapKinds
  MaxMishaps   \* bound on how often it does

\* cut:      power fails between two steps, or while a block is erased or
\*           programmed
\* storecut: power fails between the erase of an OTA record and its program
\* torn:     power fails in the middle of programming an OTA record
\* chipcut:  power fails while the boot loader reprograms the chip
\* reset:    key or REBOOT command while the application runs
\* norfault: a block of the NOR flash, or a record copy of the factory
\*           installation, does not take the data programmed
\* iapfault: the on-chip flash refuses thirty times to erase or program
\* loss:     a packet is lost or fails its checksum
\* late:     the timer runs out while an answer is still on its way
\* catalog:  the server's operator adds, replaces or removes an image
\* suspend:  the server is suspended while a request arrives
\* reflash:  the production tool writes a new factory image and metadata
MishapKinds == {"cut", "storecut", "torn", "chipcut", "reset", "norfault",
                "iapfault", "loss", "late", "catalog", "suspend", "reflash"}

ASSUME BoardAssumption ==
  /\ Mishaps \subseteq MishapKinds
  /\ MaxMishaps \in Nat

VARIABLES
  recs,      \* NOR: master and backup ota_info_t
  slots,     \* NOR: the areas of factory application, app1 and app2
  chip,      \* on-chip application area
  meta,      \* on-chip factory metadata page
  mode,      \* what the CPU executes
  sysctx,    \* system_context_t at the end of XDATA
  ota_info,  \* the RAM copy of the record that the running program works on
  mishaps    \* how many mishaps have happened

boardVars == <<recs, slots, chip, meta, mode, sysctx, ota_info, mishaps>>
flash     == <<recs, slots, chip, meta>>

\* lost: the CPU was sent into an application area that holds no image.
Modes == {"off", "boot", "isp", "app", "lost"}

\* The bits ldr (it tells boot loader from application, as mode does) and
\* onchip_meta_valid (set and tested in one step) are left out.
SysCtx == [dfu : BOOLEAN, onchip_app_valid : BOOLEAN, appid : Apps, otaid : OtaIds]

\* RAM nobody has written since power was lost.
NoContext == [dfu |-> FALSE, onchip_app_valid |-> FALSE,
              appid |-> FLASH_APP_ID_FACTORY, otaid |-> FLASH_OTA_ID_MASTER]

BoardTypeOK ==
  /\ recs \in [OtaIds -> OtaInfo]
  /\ slots \in [Apps -> Areas]
  /\ chip \in Areas
  /\ meta \in Infos
  /\ mode \in Modes
  /\ sysctx \in SysCtx
  /\ ota_info \in OtaInfo
  /\ mishaps \in 0 .. MaxMishaps

\* A board as production delivers it: one image with its metadata on the
\* chip, the NOR flash erased.
BoardInit ==
  /\ recs = [id \in OtaIds |-> ErasedRecord]
  /\ slots = [a \in Apps |-> BlankArea]
  /\ \E image \in Images : chip = AreaOf(image) /\ meta = image
  /\ mode = "off"
  /\ sysctx = NoContext
  /\ ota_info = ErasedRecord
  /\ mishaps = 0

-----------------------------------------------------------------------------
Mishap(kind) ==
  /\ kind \in Mishaps
  /\ mishaps < MaxMishaps
  /\ mishaps' = mishaps + 1

\* Volatile memory is gone.  Every program writes ota_info before it reads
\* it, and the boot loader all of sysctx but dfu, so one value stands for any.
PowerFails ==
  /\ mode' = "off"
  /\ sysctx' = NoContext
  /\ ota_info' = ErasedRecord

\* Programming over a block that was not erased only clears more bits.
Programmed(cell, value) ==
  IF cell \in {Blank, value} THEN value ELSE Torn

SetBlock(areas, a, b, cell) ==
  [areas EXCEPT ![a] = [@ EXCEPT ![b] = cell]]

(***************************************************************************)
(* Every writer of the OTA record does the same three things: erase the    *)
(* sector of the copy otaid names, program the record into it, and make    *)
(* otaid name the other copy.                                              *)
(***************************************************************************)
\* Mutant: the copy in charge is overwritten.
StoreOverChosen(r) == recs' = [recs EXCEPT ![Other(sysctx.otaid)] = r]

Store(r) == recs' = [recs EXCEPT ![sysctx.otaid] = r]

\* Power fails on the way: after the erase, or inside the program.
StoreCut(id, r) ==
  /\ \/ /\ Mishap("storecut")
        /\ recs' = [recs EXCEPT ![id] = ErasedRecord]
     \/ /\ Mishap("torn")
        /\ \E t \in TornRecords(r) : recs' = [recs EXCEPT ![id] = t]
  /\ UNCHANGED <<chip, meta>>
  /\ PowerFails

\* Mutant: otaid is left alone.
NotToggled(ctx) == ctx

Toggled(ctx) == [ctx EXCEPT !.otaid = Other(@)]

\* findout_which_ota_info_is_older, then the read of the newer copy.
OlderId == findout_which_ota_info_is_older(recs)

\* The production tool writes the whole on-chip flash while the board is off.
Reflash ==
  /\ mode = "off"
  /\ Mishap("reflash")
  /\ \E image \in Images : chip' = AreaOf(image) /\ meta' = image
  /\ UNCHANGED <<recs, slots, mode, sysctx, ota_info>>
=============================================================================
