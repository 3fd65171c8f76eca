----------------------------- MODULE OtaClient ------------------------------
(***************************************************************************)
(* The application's OTA client, one action per handler its main loop      *)
(* calls, the serial link to the OTA server of the programmer, and that    *)
(* server.  The link keeps order and may lose packets; the PC at its other *)
(* end goes on when the board is reset or off.                             *)
(***************************************************************************)
EXTENDS Board, Sequences

CONSTANT LinkCapacity  \* bound on the packets under way in each direction

ASSUME ClientAssumption == LinkCapacity \in Nat

VARIABLES
  ota_state,         \* state of the client
  started,           \* main has come past ota_init
  papp,              \* application whose version the client reports
  appid_to_upgrade,  \* application the download replaces
  addr,              \* next sector to erase, as a block
  received,          \* dlctx.received, in blocks
  crc_matches,       \* dlctx.crc so far is that of the announced image
  to_server, to_app, \* packets under way
  catalog            \* images the server offers, one per version

ramVars    == <<ota_state, started, papp, appid_to_upgrade, addr, received,
                crc_matches>>
linkVars   == <<to_server, to_app>>
clientVars == <<ramVars, linkVars, catalog>>

OtaStates == {"IDLE", "TIMEUP", "TIMEOUT", "CHECKING", "PREPARING", "ERASING",
              "DOWNLOADING", "APPLYING", "ERROR"}

CheckReq == [type : {"GET_LATEST_APP_INFO"}, version : 0 .. VersionLimit]
DataReq  == [type : {"GET_APP_DATA"}, version : 0 .. VersionLimit,
             offset : 0 .. NumBlocks]

\* An APP_DATA answer carries one block of some image; a refusal is one byte
\* too short for the application to look at.
InfoAns  == [type : {"LATEST_APP_INFO"}, info : Images \cup {NoInfo}]
DataAns  == [type : {"APP_DATA"}, image : Images, offset : 0 .. NumBlocks]
ShortAns == [type : {"APP_DATA_REFUSED"}]

ClientTypeOK ==
  /\ ota_state \in OtaStates
  /\ started \in BOOLEAN
  /\ papp \in Apps
  /\ appid_to_upgrade \in Apps
  /\ addr \in 1 .. NumBlocks + 1
  /\ received \in 0 .. NumBlocks
  /\ crc_matches \in BOOLEAN
  /\ to_server \in Seq(CheckReq \cup DataReq)
  /\ to_app \in Seq(InfoAns \cup DataAns \cup ShortAns)
  /\ catalog \subseteq Images

\* The client before ota_init; static initialisers give ota_state its value.
RamInit ==
  /\ ota_state = "IDLE" /\ started = FALSE
  /\ papp = FLASH_APP_ID_FACTORY /\ appid_to_upgrade = FLASH_APP_ID_FACTORY
  /\ addr = 1 /\ received = 0 /\ crc_matches = FALSE

\* The server may have images of any versions from the start.
ClientInit ==
  /\ RamInit /\ to_server = <<>> /\ to_app = <<>>
  /\ catalog \in {c \in SUBSET Images :
                   \A i, j \in c : Version[i] = Version[j] => i = j}

RamLost ==
  /\ ota_state' = "IDLE" /\ started' = FALSE
  /\ papp' = FLASH_APP_ID_FACTORY /\ appid_to_upgrade' = FLASH_APP_ID_FACTORY
  /\ addr' = 1 /\ received' = 0 /\ crc_matches' = FALSE

-----------------------------------------------------------------------------
\* The link.  A packet more than the buffers hold is lost as well.
Sent(queue, packet) ==
  IF Len(queue) < LinkCapacity THEN Append(queue, packet) ELSE queue

\* The announced image.
Upgrade == ota_info.info[appid_to_upgrade]

request_next_block(offset, info) ==
  to_server' = Sent(to_server, [type |-> "GET_APP_DATA",
                                version |-> VersionOf(info), offset |-> offset])

\* Write the record back to the copy that is safe to overwrite; the record
\* carries the next sequence number.
\* Mutant: the number stays.
SameSeq(r) == r

NextRecord(r) == [r EXCEPT !.seq = @ + 1]

WriteBack(r) ==
  /\ Store(r)
  /\ ota_info' = r
  /\ sysctx' = Toggled(sysctx)
  /\ UNCHANGED <<chip, meta, mode, mishaps>>

WriteBackCut(r) ==
  /\ StoreCut(sysctx.otaid, r)
  /\ RamLost

-----------------------------------------------------------------------------
\* Mutant: always the first of the two.
AlwaysApp1(current_app) == FLASH_APP_ID_APP1

Target(current_app) ==
  IF current_app = FLASH_APP_ID_APP1 THEN FLASH_APP_ID_APP2 ELSE FLASH_APP_ID_APP1

\* main up to its loop.  Whatever is neither factory nor app1 counts as app2.
ota_init ==
  /\ mode = "app" /\ ~started
  /\ started' = TRUE
  /\ LET older  == OlderId
         newest == recs[Other(older)]
         reset  == [NextRecord(newest) EXCEPT !.dlstate = "IDLE"]
     IN  /\ papp' = IF newest.current_app = BadApp THEN FLASH_APP_ID_APP2
                    ELSE newest.current_app
         /\ appid_to_upgrade' = Target(newest.current_app)
         /\ IF newest.dlstate \in {"INVALID", "IDLE"}
            THEN /\ ota_info' = newest
                 /\ sysctx' = [sysctx EXCEPT !.dfu = FALSE, !.otaid = older]
                 /\ UNCHANGED recs
            ELSE /\ newest.seq < SeqLimit
                 /\ recs' = [recs EXCEPT ![older] = reset]
                 /\ ota_info' = reset
                 /\ sysctx' = [sysctx EXCEPT !.dfu = FALSE, !.otaid = Other(older)]
  /\ UNCHANGED <<slots, chip, meta, mode, mishaps, ota_state, addr, received,
                 crc_matches, linkVars, catalog>>

\* The same, with power failing while the record is written back.
ota_init_cut ==
  /\ mode = "app" /\ ~started
  /\ LET newest == recs[Other(OlderId)]
     IN  /\ newest.dlstate \notin {"INVALID", "IDLE"}
         /\ newest.seq < SeqLimit
         /\ StoreCut(OlderId, [NextRecord(newest) EXCEPT !.dlstate = "IDLE"])
  /\ RamLost
  /\ UNCHANGED <<slots, linkVars, catalog>>

Running == mode = "app" /\ started

\* ota_1s_event.  Five quiet seconds start a check.
ota_1s_event_interval ==
  /\ Running /\ ota_state = "IDLE"
  /\ ota_state' = "TIMEUP"
  /\ UNCHANGED <<boardVars, started, papp, appid_to_upgrade, addr, received,
                 crc_matches, linkVars, catalog>>

\* Twenty seconds without progress; they pass while an answer is under way,
\* or while sectors are erased, only as a mishap.
ota_1s_event_timeout ==
  /\ Running
  /\ ota_state \in {"CHECKING", "PREPARING", "ERASING", "DOWNLOADING"}
  /\ IF ota_state \in {"CHECKING", "DOWNLOADING"} /\ to_server = <<>> /\ to_app = <<>>
     THEN UNCHANGED mishaps ELSE Mishap("late")
  /\ IF ota_state = "DOWNLOADING"
     THEN request_next_block(received, Upgrade) /\ UNCHANGED ota_state
     ELSE ota_state' = "TIMEOUT" /\ UNCHANGED to_server
  /\ UNCHANGED <<flash, mode, sysctx, ota_info, started, papp, appid_to_upgrade,
                 addr, received, crc_matches, to_app, catalog>>

\* ota_run, one disjunct of its switch each.
ota_run_timeup ==
  /\ Running /\ ota_state = "TIMEUP"
  /\ ota_state' = "CHECKING"
  /\ to_server' = Sent(to_server, [type |-> "GET_LATEST_APP_INFO",
                                   version |-> VersionOf(ota_info.info[papp])])
  /\ UNCHANGED <<boardVars, started, papp, appid_to_upgrade, addr, received,
                 crc_matches, to_app, catalog>>

\* Mutant: back to waiting, with nothing asked for.
WaitsAgain ==
  /\ Running /\ ota_state = "TIMEOUT"
  /\ ota_state' = "CHECKING"
  /\ UNCHANGED <<boardVars, started, papp, appid_to_upgrade, addr, received,
                 crc_matches, linkVars, catalog>>

ota_run_timeout ==
  /\ Running /\ ota_state = "TIMEOUT"
  /\ ota_state' = "IDLE"
  /\ UNCHANGED <<boardVars, started, papp, appid_to_upgrade, addr, received,
                 crc_matches, linkVars, catalog>>

ota_run_preparing ==
  /\ Running /\ ota_state = "PREPARING" /\ ota_info.seq < SeqLimit
  /\ LET r == [NextRecord(ota_info) EXCEPT !.dlstate = "ERASING"]
     IN  \/ /\ WriteBack(r)
            /\ ota_state' = "ERASING"
            /\ addr' = 1 /\ received' = 0 /\ crc_matches' = FALSE
            /\ UNCHANGED <<slots, started, papp, appid_to_upgrade, linkVars, catalog>>
         \/ WriteBackCut(r) /\ UNCHANGED <<slots, linkVars, catalog>>

\* Mutant: one sector more than the image has.
ErasesOneMore == addr <= Size[Upgrade] + 1

MoreToErase == addr <= Size[Upgrade]

ota_run_erase_sector ==
  /\ Running /\ ota_state = "ERASING" /\ MoreToErase
  /\ \/ /\ slots' = SetBlock(slots, appid_to_upgrade, addr, Blank)
        /\ addr' = addr + 1
        /\ UNCHANGED <<mode, sysctx, ota_info, mishaps, ota_state, started, papp,
                       appid_to_upgrade, received, crc_matches>>
     \/ /\ slots' = SetBlock(slots, appid_to_upgrade, addr, Torn)
        /\ Mishap("cut") /\ PowerFails /\ RamLost
  /\ UNCHANGED <<recs, chip, meta, linkVars, catalog>>

ota_run_erased ==
  /\ Running /\ ota_state = "ERASING" /\ ~MoreToErase
  /\ ota_info.seq < SeqLimit
  /\ LET r == [NextRecord(ota_info) EXCEPT !.dlstate = "DOWNLOADING"]
     IN  \/ /\ WriteBack(r)
            /\ ota_state' = "DOWNLOADING"
            /\ addr' = 1 /\ received' = 0 /\ crc_matches' = TRUE
            /\ request_next_block(0, Upgrade)
            /\ UNCHANGED <<slots, started, papp, appid_to_upgrade, to_app, catalog>>
         \/ WriteBackCut(r) /\ UNCHANGED <<slots, linkVars, catalog>>

-----------------------------------------------------------------------------
\* isp_handle for the packets of the server.
Arrives(type) == Running /\ to_app # <<>> /\ Head(to_app).type = type

\* Mutant: an image of the version that runs counts as newer.
NewerOrEqual(info) == VersionOf(info) >= VersionOf(ota_info.info[papp])

IsNewer(info) == VersionOf(info) > VersionOf(ota_info.info[papp])

ota_on_latest_app_info ==
  /\ Arrives("LATEST_APP_INFO") /\ ota_state = "CHECKING"
  /\ to_app' = Tail(to_app)
  /\ LET info == Head(to_app).info
     IN  IF IsNewer(info)
         THEN /\ ota_info' = [ota_info EXCEPT !.info[appid_to_upgrade] = info]
              /\ ota_state' = "PREPARING"
         ELSE /\ ota_state' = "IDLE"
              /\ UNCHANGED ota_info
  /\ UNCHANGED <<flash, mode, sysctx, mishaps, started, papp, appid_to_upgrade,
                 addr, received, crc_matches, to_server, catalog>>

\* ota_on_app_data.  The block asked for is programmed and read back.
Expected == Arrives("APP_DATA") /\ ota_state = "DOWNLOADING"
            /\ Head(to_app).offset = received

Payload == Head(to_app).image
Landed  == Programmed(slots[appid_to_upgrade][received + 1], Payload)
IsLast  == received + 1 >= Size[Upgrade]
\* Mutant: only the last block counts.
CrcOfLastBlock == Payload = Upgrade

CrcNow  == crc_matches /\ Payload = Upgrade

Programs(cell) ==
  /\ slots' = SetBlock(slots, appid_to_upgrade, received + 1, cell)
  /\ to_app' = Tail(to_app)

\* A block in the middle: ask for the next one.
ota_on_app_data_block ==
  /\ Expected /\ Landed = Payload /\ ~IsLast
  /\ Programs(Landed)
  /\ received' = received + 1 /\ crc_matches' = CrcNow
  /\ request_next_block(received + 1, Upgrade)
  /\ UNCHANGED <<recs, chip, meta, mode, sysctx, ota_info, mishaps, ota_state,
                 started, papp, appid_to_upgrade, addr, catalog>>

\* The last one, and the CRC of all of them is the announced one: the new
\* application becomes the current one.
\* Mutant: the record does not make the new application current.
AppliedNowhere == [NextRecord(ota_info) EXCEPT !.dlstate = "IDLE"]

Applied ==
  [NextRecord(ota_info) EXCEPT !.current_app = appid_to_upgrade, !.dlstate = "IDLE"]

ota_on_app_data_applied ==
  /\ Expected /\ Landed = Payload /\ IsLast /\ CrcNow
  /\ ota_info.seq < SeqLimit
  /\ Programs(Landed)
  /\ \/ /\ WriteBack(Applied)
        /\ ota_state' = "APPLYING"
        /\ received' = 0 /\ crc_matches' = FALSE
        /\ UNCHANGED <<started, papp, appid_to_upgrade, addr>>
     \/ WriteBackCut(Applied)
  /\ UNCHANGED <<to_server, catalog>>

\* Nothing leaves ERROR but a reset.
EntersError ==
  /\ ota_state' = "ERROR"
  /\ UNCHANGED <<recs, chip, meta, mode, sysctx, ota_info, started, papp,
                 appid_to_upgrade, addr, to_server, catalog>>

ota_on_app_data_crc_error ==
  /\ Expected /\ Landed = Payload /\ IsLast /\ ~CrcNow
  /\ Programs(Landed)
  /\ received' = received + 1 /\ crc_matches' = CrcNow
  /\ EntersError /\ UNCHANGED mishaps

ota_on_app_data_verify_error ==
  /\ Expected
  /\ \/ Landed # Payload /\ Programs(Landed) /\ UNCHANGED mishaps
     \/ Mishap("norfault") /\ Programs(Torn)
  /\ EntersError /\ UNCHANGED <<received, crc_matches>>

ota_on_app_data_unexpected ==
  /\ Arrives("APP_DATA") /\ ota_state = "DOWNLOADING"
  /\ Head(to_app).offset # received
  /\ to_app' = Tail(to_app)
  /\ EntersError /\ UNCHANGED <<slots, mishaps, received, crc_matches>>

\* Power fails while the block is programmed, or behind it, before anything
\* is sent or recorded.
ota_on_app_data_cut ==
  /\ Expected
  /\ Mishap("cut") /\ PowerFails /\ RamLost
  /\ Programs(Torn) \/ Programs(Landed)
  /\ UNCHANGED <<recs, chip, meta, to_server, catalog>>

\* A packet in a state that does not wait for it, a refusal, or one that
\* comes while no application runs.
DropPacket ==
  /\ to_app # <<>>
  /\ \/ ~Running
     \/ Arrives("LATEST_APP_INFO") /\ ota_state # "CHECKING"
     \/ Arrives("APP_DATA") /\ ota_state # "DOWNLOADING"
     \/ Arrives("APP_DATA_REFUSED")
  /\ to_app' = Tail(to_app)
  /\ UNCHANGED <<boardVars, ramVars, to_server, catalog>>

-----------------------------------------------------------------------------
\* The server: the newest image it has, and a block of the image that has the
\* version asked for.
Offered(version) == {i \in catalog : Version[i] > version}

ServerAnswersCheck ==
  /\ to_server # <<>> /\ Head(to_server).type = "GET_LATEST_APP_INFO"
  /\ to_server' = Tail(to_server)
  /\ LET offered == Offered(Head(to_server).version)
         Reply(info) == to_app' = Sent(to_app, [type |-> "LATEST_APP_INFO", info |-> info])
     IN  \/ /\ UNCHANGED mishaps
            /\ \/ offered = {} /\ Reply(NoInfo)
               \/ \E i \in offered : /\ \A j \in offered : Version[j] <= Version[i]
                                     /\ Reply(i)
         \/ Mishap("suspend") /\ Reply(NoInfo)
  /\ UNCHANGED <<flash, mode, sysctx, ota_info, ramVars, catalog>>

ServerAnswersData ==
  /\ to_server # <<>> /\ Head(to_server).type = "GET_APP_DATA"
  /\ to_server' = Tail(to_server)
  /\ LET offset == Head(to_server).offset
         served == {i \in catalog : /\ Version[i] = Head(to_server).version
                                   /\ offset + 1 <= Size[i]}
         Refuse == to_app' = Sent(to_app, [type |-> "APP_DATA_REFUSED"])
     IN  \/ /\ UNCHANGED mishaps
            /\ \/ served = {} /\ Refuse
               \/ \E i \in served :
                    to_app' = Sent(to_app, [type |-> "APP_DATA", image |-> i,
                                            offset |-> offset])
         \/ Mishap("suspend") /\ Refuse
  /\ UNCHANGED <<flash, mode, sysctx, ota_info, ramVars, catalog>>

\* slotAddOtaApp replaces the image of the same version; slotRemoveOtaApp.
OperatorEdits ==
  /\ Mishap("catalog")
  /\ \E i \in Images :
       \/ catalog' = {j \in catalog : Version[j] # Version[i]} \cup {i}
       \/ i \in catalog /\ catalog' = catalog \ {i}
  /\ UNCHANGED <<flash, mode, sysctx, ota_info, ramVars, linkVars>>

PacketLost ==
  /\ Mishap("loss")
  /\ \/ to_server # <<>> /\ to_server' = Tail(to_server) /\ UNCHANGED to_app
     \/ to_app # <<>> /\ to_app' = Tail(to_app) /\ UNCHANGED to_server
  /\ UNCHANGED <<flash, mode, sysctx, ota_info, ramVars, catalog>>

-----------------------------------------------------------------------------
\* key_boot asks the boot loader to stay; ISP_CMD_REBOOT does not.
AppReset ==
  /\ mode = "app" /\ Mishap("reset")
  /\ mode' = "boot"
  /\ \E key_boot \in BOOLEAN :
       sysctx' = [sysctx EXCEPT !.dfu = key_boot]
  /\ RamLost
  /\ UNCHANGED <<flash, ota_info, linkVars, catalog>>

PowerCutInApp ==
  /\ mode = "app" /\ Mishap("cut")
  /\ PowerFails /\ RamLost
  /\ UNCHANGED <<flash, linkVars, catalog>>

\* APPLYING and ERROR stay until the next power up, which is no mishap then.
PowerCycle ==
  /\ Running /\ ota_state \in {"APPLYING", "ERROR"}
  /\ PowerFails /\ RamLost
  /\ UNCHANGED <<flash, mishaps, linkVars, catalog>>

\* The handlers main calls in turn, round after round.
ota_start == ota_init \/ ota_init_cut

ota_1s_event == ota_1s_event_interval \/ ota_1s_event_timeout

ota_run ==
  \/ ota_run_timeup \/ ota_run_timeout \/ ota_run_preparing
  \/ ota_run_erase_sector \/ ota_run_erased

ota_on_app_data ==
  \/ ota_on_app_data_block \/ ota_on_app_data_applied
  \/ ota_on_app_data_crc_error \/ ota_on_app_data_verify_error
  \/ ota_on_app_data_unexpected \/ ota_on_app_data_cut

isp_handle == ota_on_latest_app_info \/ ota_on_app_data \/ DropPacket

ServerSteps == ServerAnswersCheck \/ ServerAnswersData

ClientNext ==
  \/ ota_start \/ ota_1s_event \/ ota_run \/ isp_handle
  \/ ServerSteps \/ OperatorEdits \/ PacketLost
  \/ AppReset \/ PowerCutInApp \/ PowerCycle
=============================================================================
