# Verification of stc_isp_demo

TLA+ modules, TLC runs and TLAPS proofs for the STC8H boot loader, its
over-the-air (OTA) application and the PC programmer that serves them.

## The system

An STC8H8K64U has 64 KB of on-chip flash: boot loader, one page of factory
metadata, application area. A W25Q32 NOR flash beside it holds two copies of an
*OTA record* (`ota_info_t`) and three application slots: factory, app1, app2.
The PC programmer talks to whichever program runs over one UART, and is at the
same time the OTA server.

| Component | State it keeps | Operations | Talks to |
|---|---|---|---|
| Partition and records (`common.h`, `common.c`) | record copies, `sysctx` in XDATA, `ota_info` in RAM | compare sequence numbers, toggle `otaid` | boot loader, application |
| Boot loader (`bootloader/src/main.c`) | on-chip flash, factory slot, records | factory copy, choice of application, copy to the chip, jump, ISP loop | NOR flash, chip, programmer |
| OTA client (`app/src/ota.c`) | `ota_state`, download context, target slot | check, prepare, erase, download, apply | NOR flash, OTA server |
| Application main loop (`app/src/main.c`) | receive context, `flag_1s` | dispatch of packets, 1 s event, reset by key or command | client, UART |
| UART drivers (`uart.c` twice, `ringbuf.h`) | two ring buffers, `tx_busy` | interrupt handlers, `send_raw`, `run` | main loops, line |
| Packet parsers (`protocol.c`, `uart.c`) | parse state, length, sum | one byte a call, timeout | UART, handlers |
| Programmer (`programmer.cpp`, `Serial.cpp`, `flash.cpp`) | file being programmed or read, OTA catalogue | program, read, erase, OTA requests, catalogue edits | both programs |
| OTA catalogue (`programmer.cpp`) | `ota_apps`, the list, the latest version, configuration files, the folder of images | load, save, add, remove | OTA server, files |
| Image builders (`hex2metabin`, Open, Patch, Merge) | files, the window's image | lay out, check, write | linker's hex files, programmer |
| Drivers (`norflash.c`, `stc8h.c`) | flash cells, the chip's address mode and its busy time | erase, program, read, identify | everything above |
| Libraries: CRC (`hb_check.c`), bit order (`emb_bitrev.c`), time (`emb_time`) | none | checksums, reversals, dates | everything above |

What is hard about it:

* power may fail between any two steps, inside an erase (a half-erased block)
  and inside a program (a half-written block or record);
* the records carry no checksum; which copy is in charge follows from two
  sequence numbers alone, recomputed at every start;
* the client overwrites one application while the boot loader must be able to
  load another, and what runs need not be what the record says;
* the link loses packets, answers may come after their retry, the server's
  operator changes images in the middle of downloads;
* the on-chip flash may refuse to erase or program, half way through;
* the NOR flash goes on working over a reset of the CPU and ignores what it is
  told meanwhile;
* the programs on the PC keep the same thing in several files, and may end or
  fail between two of them.

## What makes it correct

* At every moment a reset finds an application it can load: the record in
  charge names a slot that holds the whole image the record describes.
* A step overwrites only the record copy and the slot that are not in charge.
* What a reset runs changes only in one step and only to a newer version.
* The application that runs is the one the record calls current.
* The CPU is sent only into an area that holds a whole image.
* In the end the newest image of the server is installed and runs.
* Every packet given to the UART leaves whole and in order, and what the PC
  sends is read in order.
* Of what comes over a bad line, the parsers hand on only frames that have come,
  find every whole packet whose head meets a parser ready for one, and never hang.
  (A packet cut in its body does take the next one or two with it: their bytes
  are taken for the rest of it.)
* What the programmer's windows report as programmed, read or checked is so.
* The image builders agree with each other and with the boot loader.
* What the server offers is a whole image of one build, in memory and on disk.
* The checksum functions agree with each other and miss no altered byte.
* The flash driver's calls land where they are meant to, whatever was under way
  when the CPU was reset.

## Modules

| Module | Models | State and actions |
|---|---|---|
| `OtaStore` | `common.h`, `common.c` | no state: images, areas, cells, records, what a cut leaves of a block, `findout_which_ota_info_is_older` |
| `Board` | the memories both programs share, and the world | `recs`, `slots`, `chip`, `meta`, `mode`, `sysctx`, `ota_info`; how a record is stored, what a power cut destroys, the production tool's `Reflash` |
| `Bootloader` | `bootloader/src/main.c` from reset to the jump or the ISP loop | `pc`, `block`, `turn`; one action a step or loop round of `main`, the factory copy, `check_ota`, `try_load_flash_app` |
| `OtaClient` | `app/src/ota.c`, the dispatch of `app/src/main.c`, link and server | the static variables of `ota.c`, packets under way, the catalogue; one action a branch of a handler |
| `Device` | all of the above together | `Next` interleaves boot loader, application, link, server, world; the properties |
| `AtomicUpdate` | the abstract promise: one installed image, updated atomically to newer ones | `installed`, `pending` |
| `AnyStore` | the boot loader alone, on arbitrary flash contents, started twice | adds `boots` |
| `MCDevice`, `MCAnyStore` | sizes and versions of the images for TLC | |
| `DeviceProofs` | theorems about `Device`: its types; what an update, a cut or a restart may never do | |
| `AnyProofs` | theorems about `AnyStore`, for all contents of the memories | |
| `RingBuf` | `ringbuf.h` | no state: the macros on indices, and what an eight-bit CPU reads of an index that an interrupt moves |
| `UartTx` | the sending half of `app/src/uart.c` (the boot loader's has the same text) | `tx_buf`, `r`, `w`, `tx_busy`, `TI`, `SBUF`; `uart1_send_raw` in its steps, `uart1_isr`, the UART itself |
| `UartRx` | the receiving half of `bootloader/src/uart.c` (the application's has the same text) | `rx_buf`, `r`, `w`; `uart1_isr` with its skip of the oldest byte, and a read of `uart1_run` instruction by instruction: both move `r`. `crossed` remembers that they did so at once |
| `ByteQueue` | the abstract promise of a receive buffer | `q`, `came`, `read` |
| `RingProofs` | lemmas about `RingBuf`: what the indices count, what a byte taken, put or skipped does to the contents | |
| `UartProofs`, `RxProofs` | theorems about `UartTx` and `UartRx` | |
| `IspBoard` | `isp_handle` of `bootloader/src/main.c`, over both flash memories byte for byte, and the line | `chip`, `nor`, `toBoard`, `toPC`; one action a command, and loss |
| `ProgrammerWindow` | the main window of `programmer.cpp` | `programmer` (`e2`, `e2sent`, `e2recv`, ...); one action a button, one an answer |
| `FlashWindow` | `flash.cpp` | `flash` (`e2`, `e2send`, `e2sent`, `e2recv`, `e2recvd`, whether the timer runs) and the history `counted`; one action a button, one an answer, `timerEvent` |
| `IspSession` | both windows and the board | the properties; `MCIspSession` has the values for TLC and two kinds of `session` |
| `IspProofs` | theorems about `IspSession`: programs and reads; what is counted as programmed in the NOR flash stays | |
| `PacketLink` | the frames of `protocol.h`, the byte parsers of both sides, `uart_run`'s four bytes a turn and the turn counters of the main loops | `ctx` (state, length, sum, buffer), `wire`, `since`; `LoopTurn`, `ReadByte`, and a line that cuts packets short (`LinkInit`), loses and alters bytes (`Disturb`) |
| `MCPackets` | packets for `PacketLink`, for TLC | |
| `ImageTools` | `hex2metabin`, `slotOpen`, `slotPatch`, `slotMerge`, the instruction lengths of the disassembler | `files`, `e2`; one action a tool, a file may stay unwritten or cut short |
| `OtaCatalogue` | the catalogue of `programmer.cpp`, over the files of `ImageTools` | `ota_apps`, `lstApps`, `ota_latest_version`, `ota_conf_path`, `confs`; one action a button, each also cut short by the end of the program, copies and removals that fail; `Restart`. `removed`, `undeleted` and `spoiled` are history |
| `MCTools` | hex files and sizes for TLC; both image modules together | |
| `ToolsProofs` | theorems about `ImageTools` and `OtaCatalogue` | |
| `CrcTables` | the three literal tables of `hb_check.c` | no state: 768 entries |
| `Checksums` | `hb_check.c` and `emb_bitrev.c` | words are sets of bits; a stream is fed byte by byte |
| `Calendar` | `gmtime.c`, `mktime.c`, `time.c` | `days`, and the date of a wall calendar |
| `NorDriver` | `norflash.c`, transaction by transaction, with the W25Q chip | `norflash_type`, the call under way; the chip's cells, address mode, write enable and busy time; reset of the CPU, power cycle |
| `NorProofs` | theorems about `NorDriver` | |
| `MCDrivers` | the UART's halves, the packets and the three libraries side by side, for TLC | `part`, and the `type` of the chip |

### Abstractions

A *block* stands for one erase unit together with the bytes programmed into it;
an area is a function from blocks to *cells*: a block of some image, `Blank`,
`Torn`, or, in the first block of the chip, `TornHead`. The boot loader tests the
first three bytes of the chip (`is_valid_on_chip_app_program`,
`common.h:211-213`); an erase or program that is cut may leave them as they were,
with any bits half way, or blank, so that a torn first block either passes the test
(`Torn`) or fails it (`TornHead`), and every cut of it chooses. Images differ in every block, so a CRC-32 match means that all blocks
are there: collisions are left out. Sequence numbers are exact up to `SeqLimit`
(a bound the runs never reach within their mishaps; the guard is on every
writer), with an erased value above all and a torn value between. A record torn
inside its program has its first fields and erased bytes after them, in the
order of the layout. The link is two queues of packets in order, with a bounded
length; the checksum turns corruption into loss (`PacketLink` looks at that, up
to damage that the sum does not show). Time is abstracted: the check
interval elapses whenever the client is idle; the twenty seconds of the timeout
elapse freely when nothing is under way and as a mishap (`late`) otherwise.
Two bits of `sysctx` are left out, `ldr` (it equals `mode`) and
`onchip_meta_valid` (set and tested in one step). A CPU sent into an area without
an image is `lost` until power is cycled.

Everything that goes wrong is a *mishap* of a named kind; a run chooses the
kinds and how many may happen in all (`Mishaps`, `MaxMishaps`), so the
interesting combinations stay small.

## Runs

All of `MCDevice`'s runs have four images of one, one, two and two blocks and of
versions 1, 2, 2, 3: the images of version 2 are an image and its rebuild, three
versions let a second update follow the first so that app1 and app2 change
roles, two blocks allow a half-written image. For a second update the catalogue
must change after the first, so the runs that ask about it allow `catalog`.

| Run | Question | Mishaps (bound) | Result |
|---|---|---|---|
| `device_update` | Is the board always updatable and startable? `UpdatesAtomically` is the refinement of `AtomicUpdate`. | all but torn records and on-chip faults (3) | holds, no deadlock |
| `device_faults` | Does a step spoil the chosen record or the current slot even when records are torn and the chip refuses? | all but late answers (3), link of one packet | holds |
| `device_live` | Does the newest image arrive and run? | cuts, reset, NOR fault, loss, late, suspension (2) | holds |
| `any_store` | The boot loader on 1.1 million states of arbitrary flash contents: does it end, start what the record says, settle? | none | holds |
| `backup_erased` | "backup invalid, backup is older" (`common.c:24`) | record cut (1) | violated |
| `chip_cut` | "Same as on-chip app, no need to copy" (`main.c:471`) | cut while the chip is written (1) | violated |

`MCDrivers` has six parts that share no variable: a behaviour is one of the UART's
sender, of its receiver, of a packet parser, of the checksums, of the calendar or of the NOR
flash driver, with the others at rest. Both rings have eight
bytes and indices whose low half has two values, so that an index carries from
its low into its high half, and wraps, several times. The packets (`MCPackets`) go
in one direction at a time, with bytes of sixteen values: a length of 14 or 15 is never reached
(254 and 255 in the code) and goes round over the frame's own head. A packet
looks like the head of a frame inside, and like its end. The calendar is checked completely
(49710 days). CRCs are linear in their input, so that bytes of one bit, of all and of none meet every
row of the shifts; the chip is small because pages and sectors are met by every address.

| Run | Question | Bounds | Result |
|---|---|---|---|
| `drivers` | Sender: do packets leave whole and in order while the interrupt moves the index that the main loop reads in halves? | 4 packets of 1, 3 or 7 bytes, the longest fills the buffer | holds |
| | Receiver: is the buffer a queue (`ByteQueue`) as long as the interrupt does not skip inside a read, and does it never do that for a PC that keeps pace? | 14 bytes, nearly two turns, at any pace or with `Ahead` = 5 | holds |
| | Parsers: is every packet found whose head meets a ready parser, and is nothing handed on that did not come? | 2 packets of 2 kinds, one fault: a packet cut short anywhere, or a byte lost or altered to 1 (a head) or 15 (the largest length); 7 turns | holds |
| | CRCs: are the literal tables, entry by entry, the generated ones and the bit-by-bit functions polynomial division, and is every altered byte seen? Calendar: are `gmtime_r`, `mktime` and `time_from_str` the calendar? | streams of up to 4 bytes of 5 values; every day from 1970 to 2106 | holds |
| | NOR driver: does every call land, whatever the chip was doing? | a chip of 8 cells, pages of 2, sectors of 4, 3 calls, 2 resets or power cycles, with three address bytes or four | holds |
| | All: is nobody held up for ever (`NobodyWaits`): a send, a byte in the buffer, a parser, a call of the driver? | as above | holds |
| `rx_index` | "reading and writing of data in a circular buffer manner" (`ringbuf.h:5`): does the read index stay in the ring while both sides move it? | the receiver alone, 14 bytes | violated |
| `packet_timeout` | "a whole turn and no new data: this packet has timed out" (`bootloader/src/main.c:105`) | the parsers alone, 3 packets, 4 turns | violated |

`WholeAreFound` speaks of a packet that comes whole and whose head the parser
takes for one; it is ready for a head when idle, and where it waits for the end or
the sum of a frame and gets something else (`uart.c:152-172`). A packet cut further
in front is not followed by a ready parser: the head of the next packet is a byte of
its body. `FoundCameIn` is for any line: what is handed on is a frame that has just
come, up to the sum. A running length that passes the packet's length goes round the
buffer over its own head (`round`); then the frame handed on is one that came, too,
but closed by a sum with all the overwritten bytes in it, and does not add up to zero. `NobodyWaits` shows
that one round of the turn counters ends a frame that never ends, because each
round the loop compares them.

`ringbuf_read` and the interrupt both do `++r`, in two instructions on an eight-bit
CPU and with the interrupt enabled. Nothing in the model keeps the interrupt from a full buffer
inside a read: it takes the buffer for full when it is, and also when the low
half of the index is written and its carry is not, since the index then looks one low
half too small. When it skips there, `crossed` is set, and the buffer is a queue no
more: a byte may come twice or not at all, and between the halves of a carry the
index leaves the ring (5 below). `KeepsBytes` says that it is a queue until then:
skips while the main loop asks for a byte or is away are what `ringbuf.h` intends.
`NeverCrossed` says that a PC that keeps pace (`paced`) never brings it to that.

`Ahead` is the number of unread bytes up to which such a PC may send at any time.
5 is `RbSize - LowBase - 1`, the largest that holds.
For the application (1024, 256) this means 767 bytes. The boot loader's
indices stay below 256; the only carry is the one to the size itself, where
an index of 0 and one of 256 mean the same to the handler, so that 254 bytes are allowed.
A byte takes some two thousand clocks on the line and a read of an index some
twenty to a hundred, so the interrupt comes at most once into each; the wait of
`uart1_send_raw` (32767 turns) lasts longer than emptying the buffer.

The runs of `MCIspSession` use packets of two bytes, an application area of
four bytes in two pages, a NOR flash of five bytes with two records of one byte
and an application of two or three bytes behind them, a file of three bytes (two
packets, the second one short), NOR ranges of two packets that overlap, and both
memories either blank or full of something old. `FLASH_EMPTY_SIZE`, the bytes the
flash window shows before it knows the size of the flash, is four: the first range
fits into it, as the window's own defaults do (offset 0, size 0x100, `flash.cpp:167`;
`flash.h:5`), the second does not. The whole handshake of a button
is under twenty steps, so that four clicks let every button follow on what
every other left behind. That a late answer about the size blanks, in a window opened
again, what was counted as programmed takes six clicks: the second kind of session
has them, for the flash window alone.

| Run | Question | Bounds | Result |
|---|---|---|---|
| `isp_session` | Is what the windows report as programmed, read or checked so, does what was counted as programmed stay, and does a read of the NOR flash end? | both windows: 4 clicks, 2 packets lost, 1 on-chip fault; the flash window alone: 6 clicks, 1 packet lost | holds |
| `erase_all` | "`Erase All`, then `Program`" (`README.md:157`): is the area blank after Erase All's OK? | 2 clicks | violated |

Deadlock is not checked in these: with no clicks left the session is over.
What the operator does is restricted as follows. In the main window, and for
all buttons of the flash window except Program, the operator waits until the
answers are there or lost. Program in the flash window may be pressed again
at any moment, for the same range or another, and the dialog closed at any
moment. No button is pressed during a read of the NOR flash, the typed range is not
edited during a transfer, and the boot loader's own pages are not erased. The
length typed for Read ROM fits the application area (`ProgrammerAssumption`; the
button's own default does).
`timerEvent` comes only when no packet of the read is on the line: a board that
is not erasing answers within milliseconds and the timer waits three seconds.
Without that (a read sent while a chip erase still goes on), both the first
answer and the repeated one would be counted, and the read would end early.
One of the ranges typed for Read ROM has an offset of zero and one an offset beyond the length,
like the values the window starts with (0x2800 and 0x200), where the rest wraps
round zero. In the third, `programmer.cpp:1192` subtracts the offset from a length
that `programmer.cpp:540` takes for a count, and the window asks for no bytes for
ever: the run shows that what is shown stays right and that the flash
window's reads still end. An application read by an erased record
(`flash.cpp:440`) is asked for beyond the end of the flash until the window is
closed; `FlashReadEnds` speaks of reads that fit.

| Run | Question | Bounds | Result |
|---|---|---|---|
| `tools` | Do the image builders agree, and do the catalogue, its list, its file and its folder stay together, also when a file cannot be written, replaced or removed? | boot loader area of 5 bytes, metadata 6, flash 20; 3 boot loaders, 8 application hex files (in order, with a gap, overlapping, without a jump, too large, cut instruction...), 2 builds of 2 versions, 3 list items, 2 configuration files | holds |

`tools` has two halves as well: one is about the builders, with one build of any hex
file, the other about the catalogue, with two hex files and two builds. A CRC of two bytes tells all of these
images apart.

What these runs leave as it is, because no statement of the repository says
otherwise: `mktime` is a day ahead until 29 February 2000; with a 16-bit int
the days overflow in September 2059 (`gmtime.c:28`); a removed version can stay
announced as the latest (`programmer.cpp:1165`); one whose file could not be removed
(`programmer.cpp:1159` does not look) comes back with an old configuration; a boot loader that ends inside the metadata
area is accepted by Merge and overwritten (`programmer.cpp:804`).

### What the violated runs show

1. **An erased backup wins.** `common.c:23` repeats the test of `seq_master`. If
   power fails after the backup copy is erased, the erased copy's 0xFFFFFFFF is
   the larger number. The boot loader survives, because an erased record names
   no application and it tries the other copy. The application does not: it
   works on the erased record, whose version no image exceeds.
2. **An erased chip counts as loaded.** `main.c:442` compares only a chip that
   looks valid and otherwise leaves `need_copy_flash_to_chip` false. A power cut
   after the first page is erased leads to a jump into erased flash, at every
   later start. A first page that is half erased and fails the test of its first bytes is
   taken the same way. `LostOnlyIfInvalid` shows that there is no other way to get lost.
3. **The timeout is a stopwatch that nobody restarts.** `rx_timeout` and `rx_time`
   are set apart only when a whole packet was found, so every 65536 turns after that
   the parser is reset, in the middle of a packet or not. The packet is lost as
   if on the line; the programmer asks again in some of its dialogs only.
4. **Erase All resumes a program.** `programmer.cpp:446` takes any OK for the answer
   to the packet of a program. When the first packet fails (a chip that is not
   erased), `e2sent` stays behind it, and the OK to Erase All sends the second
   packet into the area just erased. Programming again writes the same bytes over
   them, so `OkMeansProgrammed` holds all the same.
5. **An index that two move.** `uart1_isr` skips the oldest byte of a full buffer with
   the same `++r` that `ringbuf_read` does in the main loop (`uart.c:53`). Between the
   two halves of a carry its step and the carry add up to `size + 1`, which the
   comparison with `size` misses, and the index runs on behind the buffer. It needs
   768 unread bytes in the application.
Seen while modelling and not a run of its own:

* `onchip_app_valid` survives a failed load that has already erased pages
  (`main.c:485`), and the boot loader jumps on it.
* A length byte of 254 or 255 is never met by the eight-bit running length
  (`uart.c:145`), which goes round; the bytes behind overwrite head and length in the
  buffer and stay in the sum. What is then handed on is a frame whose bytes do not add
  up to zero, which `protocol.h:26` promises (`FoundCameIn` has it as its second case).
* `gmtime_r` takes the day of the week from the day of the year (`gmtime.c:62`), so that every
  year begins with a Friday; `DatesAgree` says just when it is right.

### Fairness

`device_live` assumes weak fairness of each handler the application's `main`
calls in its loop, of the boot loader's steps, of the server's answers, and of
somebody who powers a board on, ends an ISP session and cycles power when the
client says it waits for that ("stay here forever, until next power up",
`ota.c:304`). No fairness is put on anything that goes wrong. `storecut` is
excluded because finding 1 ends updates for good; `catalog` because an image
withdrawn during its download is asked for for ever: the refusals are one byte
shorter than `get_app_data_res_t` and are not looked at.

`isp_session` assumes weak fairness of the board's loop, of the windows' handlers
and of the timer; the operator and the line owe nothing.

`any_store` assumes weak fairness of the boot loader's own steps only. `drivers`
assumes that the UART sends what it is given, that pending interrupts are served
(they are enabled again within `uart1_send_raw`), that `uart1_send_raw` goes on,
that the main loops turn for ever, that the NOR flash driver goes
on with the call it is in and that a busy chip gets ready.

## Proofs

`DeviceProofs` proves `TypeCorrect: Spec => []TypeOK` for all values of the
constants that satisfy `StoreAssumption`, `BoardAssumption` and
`ClientAssumption` (positive numbers of images and blocks, sizes that fit,
versions strictly between those of `NoInfo` and `ErasedInfo`). `TypeOK` alone is
not inductive: that `block + 1` stays inside an area, that `turn` stays
inside the boot order and that `received` stays inside the image needs to know
*which* loop runs over *which* image. `TypeInv` adds

* `BootProgress`: inside the factory copy `meta` is an image; while applications
  are tried the record names one and `turn` is inside its boot order; once one
  is being copied its info is an image;
* `ClientProgress`: a client that prepares, erases or downloads runs in an
  application and has a real image announced, and has received less than all of
  it while it downloads.

The proof has one lemma per group of handlers, with one case per action, and
joins them in `TypeStep`.

A note on the prover, for whoever adds to the proofs: tlapm 1.4.5 hands SMT
an axiom that equates `DOMAIN s = 1 .. n` with `Len(s) = n` for every `s`, sequence
or not, from which some leaves with both sequences and other functions in them could be
closed for the wrong reason. No leaf here depends on it: each was proved a
second time with the axiom restricted to sequences. In new proofs keep `Len` and
arithmetic on other intervals in separate leaves, as `TryStep` does.

`UartProofs` proves four theorems about `UartTx` for every size of buffer, every
set of packet lengths and every split of an index into halves.
`BytesNotForgotten` (`NeverStalls`) is inductive together with the fact that
`tx_busy` is exactly "an interrupt is pending or a byte on its way, never both"
(`BusyInv`); `NoByteOverwritten` (`OneAtATime`) follows from the same invariant.
`PacketsNotCut` (`NeverCut`) rests on `RoomInv`: while the main loop looks, the
read index stands where it was seen or one further, in a ring that is not
empty, and once the index has moved no second interrupt comes before the next
look. Then every value a torn read can yield either equals one of the two,
or makes `ringbuf_writable` smaller than it is, or is refuted by arithmetic on
the halves. `PacketsStayWhole` (`WholePackets`) adds `StreamInv`: what has left, the
byte in `SBUF` and the contents of the buffer, put behind each other, are whole packets
and none of them is the one `uart1_send_raw` still holds. Its steps are the lemmas of `RingProofs` about
contents: a byte taken out is their head, bytes that fit are put behind them.

`RxProofs` proves two theorems about `UartRx`, for every size of buffer and every
split of an index. `ReceiveIsQueue` (`KeepsBytes`, the safety part of the run's
`BytesArrive`): `UartRx` implements `ByteQueue`, with the buffer's contents from
`MovedIndex` on as its queue, until the interrupt skips inside a read, and for a
PC that sends as it likes. The invariant `RxInv` says what is left of the
index's movement in each step of the main loop (a low half written back leaves room
for its carry), and that a byte found is there, also if the interrupt has skipped the
oldest one between the look at the two indices: then it has put one, too.
`PacedNeverCrosses` (`NeverCrossed`): a PC that keeps pace never brings it to a skip. It is
here that the hypothesis `LeavesMargin` is used: at most `RbSize - LowBase - 1` unread
bytes, or `RbSize - 2` if an index has no high half. That the queue is lost
otherwise is what `rx_index` shows. That every byte is read in the end stays with TLC.

### What an update may never do to the board

The second half of `DeviceProofs` proves the safety properties of `device_update`
and `device_faults`. Their inductive invariant has four layers; each is needed by the
next, and each theorem assumes no more than its layer.

1. `ChargeInv`: who holds the record in charge. The copy the boot loader or the
   client would write over (`sysctx.otaid`) is always the one *not* in charge, and
   what either keeps of the record in RAM agrees with the copy in charge
   (`BootOwns`, `ClientOwns`). Without that, `KeepsChosenRecord` is not inductive: a
   writer knows the other copy only from its RAM. The exception is finding 1: a
   client that took an erased record for its own (`ClientStuck`) is harmless
   because no announced version is above an erased one, so that it never gets
   past its check. From this layer follow `ChosenRecordIsKept` and
   `CurrentSlotIsKept`, whatever goes wrong.
2. `DownloadInv` adds that a download whose running CRC matches has left every
   block received in its slot (`DownloadHeld`). `AppliedStaysChosen` follows, also
   whatever goes wrong: the record is written after the whole image is there.
3. `WholeInv` adds that once no factory image is pending, the record in charge
   names a current and a factory application that are whole, how far the factory
   copy has come, and that what is being loaded is whole (`SettledOnce`, `CopyHeld`,
   `CandidateHeld`). It gives `CurrentStaysLoadable` and `FactoryStaysLoadable` if
   no record is torn while it is programmed (`"torn" \notin Mishaps`). With one torn
   record TLC violates both, and `RunsCurrent` and `UpdatesAtomically` as well: the records have no checksum.
4. `RunsInv` adds what is on the chip (`Runs`): the metadata page is gone before the
   chip is touched, the flag `onchip_app_valid` is exactly "the chip passes
   `is_valid_on_chip_app_program`" until the chip is written, erased and programmed pages are those
   before `block`, and the first choice of the boot order is the one that loads.
   It gives `LostFailsTest`
   (`LostOnlyIfInvalid`), `CurrentStaysRunning` and `UpdatesAreAtomic`, the
   step by step refinement of `AtomicUpdate`, if the on-chip flash does not fail
   either (`SoundFlash`). With one fault TLC violates `UpdatesAtomically`: the erase of
   the metadata page fails unseen and the factory image comes back later. With
   cuts of the chip, resets and faults together (three mishaps) it violates
   `LostOnlyIfInvalid` and `RunsCurrent`, and not the properties of layer 3: a page that
   refuses its erase or program is another way to get lost, since the flag survives the failed load. That
   `LostOnlyIfInvalid` needs records untorn is not shown: TLC found no violation
   with torn records and cuts alone, so its hypothesis may be stronger than needed.

### What a start does with memories that hold anything

`AnyProofs` is about the boot loader of `AnyStore`, started on boards that went through no
update: `ContentsInit` allows every pair of records, every content of slots and chip,
every metadata; `RunsAreContents` says that the boards TLC starts from are among them.
All of it assumes that nothing goes wrong on the way (`Mishaps = {}`), which is what `AnyStore`
is about; `DeviceProofs` has the mishaps.

`BootInv` follows one start. The entries of the boot order before `turn` are not in
their slots (`Trying`), the chip is erased and programmed as far as `block` (`Copying`),
the flag tells of the chip until it is touched (`Flag`). At its end the board is
`Settled`: if any application of the record in charge is in its slot, the current one
is, and it is on the chip, or the chip is erased. `Settled` is more than
`StartedIsCurrent`, and is needed: it is what makes the *next* start find its first
choice in place. From `BootInv` follow `StartsTheCurrent` and `BootSparesChosen`;
`QuietInv` adds the second start and gives `SecondBootIsQuiet`. The latter assumes
`MetaTells`, that metadata which name an image name the one on the chip. Without it TLC
finds a first start that copies just that image from a slot, so that the second one
takes it for a new factory image and installs it.

### What the programmer's windows report

`IspProofs` is about `IspSession`, for files, packets, pages, sectors and memories of
every size, every set of ranges and every bound on clicks, losses and faults.
`IspTypes` comes first. `ProgramsWholeFile` (`OkMeansProgrammed`) and
`ReadsWhatIsThere` (`RomShowsChip`) rest on `MainInv`: after Program or Read ROM the
main window has one exchange going at a time. Of all packets on the line, in both
directions, at most one is the main window's (`Quiet`, `Asked`, `Answered`), and that
one continues exactly what `e2sent` or `e2recv` has counted. The other window's
packets, in any number, move neither. `ReadsWholeRange` (`ReadOkMeansShown`) and
`ChecksWhatIsThere` (`CheckTellsFlash`) rest on `FlashInv`, the same for a read of the flash
window, with the bytes counted so far shown as the flash holds them. Here
the timer's guard is essential: it asks again only when nothing is under way,
or a second answer to one question would be counted twice.

The second half of `IspProofs` proves `CountsWhatIsThere` (`CountedIsProgrammed`), with no
hypothesis on the ranges: they may fit what is shown before the size is known. Program may be pressed
again while the last program goes on, and the window closed and opened again,
so there is no bound on the exchanges under way, and the window itself may
be blanked by an answer about the size that a window before it asked for. What was
counted is therefore kept in a history, `counted`: the byte the window showed when it counted it. The
flash holds it, although the window may show nothing any more.

What saves the count is the order of the packets on the line (`Ordered`). Behind a program, and
behind the answer to one, comes no erase, and of programs only those that write the same
there or change nothing (`MayFollow`, `MayBeAsked`). "Change nothing" is said of the memory the
programs under way will find, `Ahead`: the flash as it is, or a blank one
if an erase is still ahead of them. Every program under way carries what the window
shows, or the window shows what cannot disturb (`Carries`); every answer tells what the flash holds (`Tells`);
and a cell that was counted is `Safe`: it holds its byte, and neither what is under way nor
what the window would send next changes it. An old read that is still under way (`ReadInv`) finds
a window that shows nothing. `ProgrammedFacts`, that programming the same byte twice
is programming it once, is where the proof uses the NOR flash.

### What a call to the NOR flash does

`NorProofs` proves `CallsDoLand` (`CallsLand`) for pages and flashes of every size
(`NorAssumption`: a page has at least one cell) and both types of chip. What is
not inductive about it: while a call is under way, the cells are neither what
they were nor what they are to be. `NorInv` says, for every transaction of a call,
what is left to do (`Rest`) and what that will make of the cells
(`Writing`, `Erasing`; by `PiecesAre` and `WriteIs` a write is three transactions for each
piece, and every piece stays in its page), that the chip is idle
wherever the driver's next command needs it to be, and that driver and chip
agree about the address bytes (`Working`). After a reset of the CPU or a power cycle
nothing of that holds and nothing is asked: `Starting` knows only which transaction of `norflash_init` is
next, until the chip has told its type and, if it is a large one, taken the long addresses.

### What Merge saves and what the catalogue offers

`ToolsProofs` is about `ImageTools` and `OtaCatalogue`, for areas and files of every size, any set
of versions (words of two bytes) and any number of builds, edits and ends of the program.

`MergeKeeps` (`MergedIsGood`): what Merge lays out ends behind the metadata area,
because the application's jump is moved there (`MergeReaches`), so the metadata have
their place in the image and nothing but that place is changed (`MetaInPlace`); the check before
it compares exactly what the boot loader will compare (`FieldsAre`, `InfoIs`). Where a boot loader that
ends before the metadata has its bytes, no snippet of an application that hex2metabin takes
lies, so that the last snippet over a byte is the boot loader's own (`LoaderLaidOut`).

The catalogue's four theorems (`OffersAreBuilt`, `WindowShowsOffers`,
`DiskKeepsCatalogue`, `WithdrawnStaysAway`) share `CatalogueInv`. An image is never told by
its name alone: entries in memory and in *every* configuration file say version,
size and CRC of one build (`Describing`), whole metadata are those of one build, and every
other file is an image, a beginning of one or metadata (`FilesGood`). What makes
`OfferedIsBuilt` true of an image whose metadata and file come from two builds, one cut
short, is the comparison in `createOtaAppByMetaAndBin` and `loadOtaConfig`. `OnDisk` states `CatalogueOnDisk` so that it is
inductive: entry by entry, with the file it came from. `Gone` is why a version that was
taken out together with its file stays away: the file goes first, so that it does not matter which
configuration still names it. Nobody looks whether it went (`programmer.cpp:1159`, and `1116`
where a file is replaced): a version whose file could not be removed is in the history `undeleted`,
and `RemovedStaysAway` does not speak of it; TLC finds it back in the catalogue, by an old configuration
or after an end of the program before the new one was saved. A file that could not be replaced is `spoiled`: its
entry in the file may not be the one in memory. `ItemsGood` needs that taking away one item of the list leaves every
other (`OthersStay`) and that the items of a loaded map are all of them (`ItemsOfAll`). The hypotheses:
files of different versions have different names (`FilesAssumption`), and size and CRC tell the images
of the builds apart from each other, from their beginnings and from metadata (`CrcAssumption`); a
CRC cannot promise that of all files, and without it the first theorem is false.
`ImagesAssumption` says that folds over bytes yield bytes and a word. TLC evaluates all of them on
the values of `tools`.

Every invariant named here (`RoomInv`, `StreamInv`, `RxInv`, `MainInv`, `FlashInv`, `WindowInv`, `CountInv`, `BootInv`, `QuietInv`,
`NorInv`, `CatalogueInv`, the layers of `RunsInv`) was checked by TLC, on the values of its component's runs, before it was
proved; of `ToolsProofs`' `RomInv` TLC checks the part the run states.

### What stays with TLC

Not proved: `WholeAreFound` of `PacketLink`, which compares what was handed on with
the fold of what was sent, and `ToolsAgree`, which compares the image hex2metabin adds up
piece by piece with the one the window lays out: both need induction over sequences.

Out of TLAPS's reach are the liveness properties (`NewestArrives`, `AppliedRuns`,
`BootEnds`, `FlashReadEnds`, `NobodyWaits`) and what folds
and recursive functions over bytes and days compute (`CrcsAgree`, `DatesAgree`,
`ToolsAgree`, the sums of `PacketLink`).

## Not modelled

The vendored hex view, the disassembler's listing, the serial hijack tool, window layout
and logging, build scripts, register definitions and bus transactions of the
drivers, LED and GPIO code, the interrupt jump table. The commands with which the
PC reads and writes the NOR flash directly are part of `IspSession` and not of
`Device`: they can destroy every record and slot by design. Commands that only
report (chip info, chip version, CRC-32, application version) are left out.
Opening, closing and losing the serial port in the middle of a session is left
out of `IspSession`: it loses packets, as the line does. A file opened while a
program goes on is left out because `ImageTools` and `IspSession` have a window's
image each. Of the time library, the functions that print are left out.
