----------------------------- MODULE NorDriver -----------------------------
(***************************************************************************)
(* The driver of the NOR flash, one bus transaction a step, and the chip:  *)
(* it ignores what it hears while it is busy, and programs and erases only *)
(* after a write enable.  The CPU may be reset at any transaction, the     *)
(* chip goes on then with what it was doing; the start waits for it.       *)
(***************************************************************************)
EXTENDS Integers, SequencesExt, FiniteSetsExt

CONSTANTS
  PageSize, SectorSize, NorSize,
  MaxCalls, MaxResets    \* bounds on calls, and on resets and power cycles

ASSUME NorAssumption == PageSize \in Nat \ {0} /\ NorSize \in Nat

VARIABLES
  flash,        \* the chip: cells, write enable, what it is busy with, whether
                \* it takes four address bytes, now and after power on
  norflash_type,
  todo,         \* transactions of the call under way
  ready,        \* norflash_init has returned true
  want,         \* cells as the calls up to here should leave them
  ignored,      \* a command of a ready driver was not taken
  called, resets

norVars == <<flash, norflash_type, todo, ready, want, ignored, called, resets>>

Types == {"W25Q128", "W25Q256"}
NoType == "none"
Wide(type) == type = "W25Q256"

-----------------------------------------------------------------------------
\* Transactions, and the calls as sequences of them.
Cmd(name) == [cmd |-> name]
WAIT == Cmd("WAIT")             \* reads of status register 1 until B0 is 0
WREN == Cmd("WRITE_ENABLE")

\* Mutant: the call does not wait for the chip.
WritePageLeaves(addr, dat) ==
  <<WREN, [cmd |-> "PAGE_PROGRAM", addr |-> addr, dat |-> dat]>>

norflash_write_page(addr, dat) ==
  <<WREN, [cmd |-> "PAGE_PROGRAM", addr |-> addr, dat |-> dat], WAIT>>

norflash_erase_sector(addr) == <<WREN, WAIT, [cmd |-> "SECTOR_ERASE", addr |-> addr], WAIT>>

norflash_erase_chip == <<WREN, WAIT, Cmd("CHIP_ERASE"), WAIT>>

norflash_read(addr, len) == <<[cmd |-> "READ_DATA", addr |-> addr]>>

\* Mutant: one page program, however long.
OnePiece(addr, len) == <<[from |-> addr, upto |-> addr + len]>>

\* A write is split at the page boundaries.
Pieces(addr, len) ==
  LET first == addr \div PageSize
      last  == (addr + len - 1) \div PageSize
  IN  [k \in 1 .. last - first + 1 |->
         [from |-> Max({addr, (first + k - 1) * PageSize}),
          upto |-> Min({addr + len, (first + k) * PageSize})]]

\* The byte for address a is {a}: which bits of a cell are programmed.
norflash_write_no_check(addr, len) ==
  LET pieces  == Pieces(addr, len)
      page(p) == norflash_write_page(p.from, [i \in 1 .. p.upto - p.from |-> {p.from + i - 1}])
      n       == Len(page(pieces[1]))
  IN  [m \in 1 .. n * Len(pieces) |-> page(pieces[(m - 1) \div n + 1])[((m - 1) % n) + 1]]

norflash_init == <<Cmd("RELEASE_POWER_DOWN"), Cmd("MANUFACTURER_DEVICE_ID")>>

\* Mutant: the mode is only set for the next power on.
NextTimeOnly == <<WREN, Cmd("WRITE_STATUS_REG3"), Cmd("DELAY")>>

\* Four address bytes, from the next power on and from now on (writing is
\* enabled twice here; one stands for both).
FourBytes == <<WREN, Cmd("WRITE_STATUS_REG3"), Cmd("DELAY"), Cmd("ENABLE_4BYTE_ADDR")>>

-----------------------------------------------------------------------------
\* The chip.
Idle == flash.busy = "no"

Erased == [a \in 0 .. NorSize - 1 |-> {}]

\* A page program goes round in its page.
PageProgrammed(cells, addr, dat) ==
  LET page == addr - (addr % PageSize)
      at(i) == page + ((addr + i - 1) % PageSize)
  IN  [a \in DOMAIN cells |-> cells[a] \cup UNION {dat[i] : i \in {j \in DOMAIN dat : at(j) = a}}]

SectorErased(cells, addr) ==
  [a \in DOMAIN cells |-> IF a \div SectorSize = addr \div SectorSize THEN {} ELSE cells[a]]

\* An address of a number of bytes the chip does not expect is another one.
Heard(addr) == IF flash.four = Wide(norflash_type) THEN addr ELSE (addr + SectorSize) % NorSize

Changed(t) ==
  CASE t.cmd = "PAGE_PROGRAM" -> PageProgrammed(flash.cells, Heard(t.addr), t.dat)
    [] t.cmd = "SECTOR_ERASE" -> SectorErased(flash.cells, Heard(t.addr))
    [] t.cmd = "CHIP_ERASE"   -> Erased
    [] OTHER                  -> flash.cells

Writes(t) == t.cmd \in {"PAGE_PROGRAM", "SECTOR_ERASE", "CHIP_ERASE", "WRITE_STATUS_REG3"}
Taken(t) == Idle /\ (Writes(t) => flash.wel)

Chip(t) ==
  IF ~Taken(t) THEN flash
  ELSE [flash EXCEPT !.cells = Changed(t),
                     !.wel   = @ \/ t = WREN,
                     !.busy  = IF Writes(t) THEN t.cmd ELSE @,
                     !.next4 = @ \/ t.cmd = "WRITE_STATUS_REG3",
                     !.four  = @ \/ t.cmd = "ENABLE_4BYTE_ADDR"]

\* What it was doing is done, and the write enable gone.
Finish ==
  /\ ~Idle
  /\ flash' = [flash EXCEPT !.busy = "no", !.wel = FALSE]
  /\ UNCHANGED <<norflash_type, todo, ready, want, ignored, called, resets>>

-----------------------------------------------------------------------------
\* norflash_init has come to an end: it returned true.
Settled(rest) == rest = <<>> /\ ~ready

\* Mutant: the largest type is left out of the table.
SmallOnly(type) == type = "W25Q128"

is_known_norflash_type(type) == type \in Types

Waits(t) == t.cmd = "WAIT" \/ (t.cmd = "DELAY" /\ flash.busy = "WRITE_STATUS_REG3")

\* Waiting takes part when the chip is through; 20 ms are enough for it to
\* write a status register.
Transaction ==
  /\ todo # <<>>
  /\ LET t == Head(todo)
     IN  /\ Waits(t) => Idle
         /\ t.cmd \notin {"MANUFACTURER_DEVICE_ID", "READ_STATUS_REG3"}
         /\ flash' = Chip(t)
         /\ todo' = Tail(todo)
         /\ ignored' = (ignored \/ (ready /\ ~Waits(t) /\ ~Taken(t)))
         /\ ready' = (ready \/ Settled(Tail(todo)))
         /\ want' = IF Settled(Tail(todo)) THEN flash'.cells ELSE want
  /\ UNCHANGED <<norflash_type, called, resets>>

\* A busy chip does not answer with its type; the main programs call init again.
ReadId(type) ==
  /\ todo # <<>> /\ Head(todo).cmd = "MANUFACTURER_DEVICE_ID"
  /\ norflash_type' = IF Idle THEN type ELSE NoType
  /\ LET known == is_known_norflash_type(norflash_type')
         rest  == IF ~known THEN norflash_init
                  ELSE IF Wide(norflash_type') THEN <<Cmd("READ_STATUS_REG3")>> ELSE <<>>
     IN  /\ todo' = rest
         /\ ready' = Settled(rest)
         /\ want' = IF Settled(rest) THEN flash.cells ELSE want
  /\ UNCHANGED <<flash, ignored, called, resets>>

\* Status registers can be read from a busy chip too.
ReadSr3 ==
  /\ todo # <<>> /\ Head(todo).cmd = "READ_STATUS_REG3"
  /\ todo' = IF flash.four THEN <<>> ELSE FourBytes
  /\ ready' = flash.four
  /\ want' = IF flash.four THEN flash.cells ELSE want
  /\ UNCHANGED <<flash, norflash_type, ignored, called, resets>>

-----------------------------------------------------------------------------
\* The boards' programs call one function after the other.
Call(transactions, cells) ==
  /\ ready /\ todo = <<>> /\ called < MaxCalls
  /\ todo' = transactions /\ want' = cells
  /\ called' = called + 1
  /\ UNCHANGED <<flash, norflash_type, ready, ignored, resets>>

CallWrite ==
  \E addr \in 0 .. NorSize - 1, len \in 1 .. PageSize + 1 :
    /\ addr + len <= NorSize
    /\ Call(norflash_write_no_check(addr, len),
            [a \in DOMAIN want |-> IF a \in addr .. addr + len - 1 THEN want[a] \cup {a}
                                                                   ELSE want[a]])

CallErase ==
  \/ \E addr \in 0 .. NorSize - 1 :
       addr % SectorSize = 0 /\ Call(norflash_erase_sector(addr), SectorErased(want, addr))
  \/ Call(norflash_erase_chip, Erased)

CallRead == Call(norflash_read(0, 1), want)

\* The CPU starts anew; after a power failure so does the chip, which may
\* have lost a status register it was writing.
Restarted ==
  /\ resets < MaxResets /\ resets' = resets + 1
  /\ norflash_type' = NoType /\ todo' = norflash_init /\ ready' = FALSE
  /\ UNCHANGED <<want, ignored, called>>

CpuReset == Restarted /\ UNCHANGED flash

PowerFails ==
  /\ flash.busy \in {"no", "WRITE_STATUS_REG3"}
  /\ \E n \in {flash.next4, flash.next4 /\ Idle} :
       flash' = [flash EXCEPT !.busy = "no", !.wel = FALSE, !.next4 = n, !.four = n]
  /\ Restarted

-----------------------------------------------------------------------------
NorInit ==
  /\ flash = [cells |-> Erased, wel |-> FALSE, busy |-> "no", four |-> FALSE, next4 |-> FALSE]
  /\ norflash_type = NoType /\ todo = norflash_init /\ ready = FALSE
  /\ want = Erased /\ ignored = FALSE /\ called = 0 /\ resets = 0

\* The chip on the board is of one type.
NorNext(type) ==
  \/ Finish \/ Transaction \/ ReadId(type) \/ ReadSr3
  \/ CallWrite \/ CallErase \/ CallRead
  \/ CpuReset \/ PowerFails

NorSpec(type) == NorInit /\ [][NorNext(type)]_norVars

-----------------------------------------------------------------------------
\* After a call has returned the cells are as it promised: pages crossed, no
\* cell beside it touched.  No command of a started board falls into a time
\* when the chip ignores it, whatever the chip was doing when the CPU was
\* reset, and the two agree on the length of an address.
CallsLand ==
  /\ ready /\ todo = <<>> => flash.cells = want
  /\ ready => flash.four = Wide(norflash_type)
  /\ ~ignored

\* A call is under way, or the start of a board whose chip may be busy.
Called == todo # <<>>
=============================================================================
