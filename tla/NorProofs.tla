----------------------------- MODULE NorProofs ------------------------------
(***************************************************************************)
(* What a call of the NOR flash's driver leaves in the chip (CallsLand),   *)
(* for pages, sectors and memories of every size, both types of chip, and  *)
(* any number of calls, resets and power failures.                         *)
(***************************************************************************)
EXTENDS NorDriver, SequenceTheorems, TLAPS

-----------------------------------------------------------------------------
\* The inductive invariant.

Cells == [0 .. NorSize - 1 -> SUBSET Int]

BusyWith == {"no", "PAGE_PROGRAM", "SECTOR_ERASE", "CHIP_ERASE", "WRITE_STATUS_REG3"}

FlashType == [cells : Cells, wel : BOOLEAN, busy : BusyWith, four : BOOLEAN, next4 : BOOLEAN]

NorTypes ==
  /\ flash \in FlashType
  /\ want \in Cells /\ ready \in BOOLEAN

\* A chip without the long addresses never takes them.
ChipOf(type) == ~Wide(type) => ~flash.four /\ ~flash.next4

\* What is left of a call from its m-th transaction on.
Rest(call, m) == SubSeq(call, m, Len(call))

Enabled == Idle /\ flash.wel

\* norflash_init on its way: until the chip has told its type nothing is known
\* of it; what comes after that is only done with a chip that is not busy.
FourBytesFrom(m) ==
  /\ m \in {1, 4} => Idle
  /\ m = 2 => Enabled
  /\ m = 3 => flash.busy \in {"no", "WRITE_STATUS_REG3"}

Starting(type) ==
  \/ \E m \in 1 .. 2 : todo = Rest(norflash_init, m)
  \/ /\ norflash_type = type /\ Wide(type)
     /\ \/ todo = <<Cmd("READ_STATUS_REG3")>> /\ Idle
        \/ \E m \in 1 .. 4 : todo = Rest(FourBytes, m) /\ FourBytesFrom(m)

\* Cells with the bytes for the addresses from one up to another programmed.
Programmed(cells, from, upto) ==
  [a \in DOMAIN cells |-> IF a \in from .. upto - 1 THEN cells[a] \cup {a} ELSE cells[a]]

\* A write at the j-th of the three transactions of its k-th piece: what is
\* still to come makes of the cells what the call promised.
WriteFrom(addr, len, k, j) ==
  LET piece == Pieces(addr, len)[k]
  IN  /\ todo = Rest(norflash_write_no_check(addr, len), 3 * (k - 1) + j)
      /\ j = 1 => Idle /\ want = Programmed(flash.cells, piece.from, addr + len)
      /\ j = 2 => Enabled /\ want = Programmed(flash.cells, piece.from, addr + len)
      /\ j = 3 => want = Programmed(flash.cells, piece.upto, addr + len)

Writing ==
  \E addr \in 0 .. NorSize - 1, len \in 1 .. PageSize + 1 :
    \E k \in 1 .. Len(Pieces(addr, len)), j \in 1 .. 3 : WriteFrom(addr, len, k, j)

\* An erase at its m-th transaction; the third of them erases.
EraseFrom(call, erased, m) ==
  /\ todo = Rest(call, m)
  /\ m = 1 => Idle /\ want = erased
  /\ m \in {2, 3} => Enabled /\ want = erased
  /\ m = 4 => want = flash.cells

Erasing ==
  \E m \in 1 .. 4 :
    \/ \E addr \in 0 .. NorSize - 1 :
         EraseFrom(norflash_erase_sector(addr), SectorErased(flash.cells, addr), m)
    \/ EraseFrom(norflash_erase_chip, Erased, m)

AtRest == todo \in {<<>>, norflash_read(0, 1)} /\ Idle /\ want = flash.cells

Working(type) ==
  /\ norflash_type = type /\ flash.four = Wide(type)
  /\ AtRest \/ Writing \/ Erasing

NorInv(type) ==
  /\ NorTypes /\ ChipOf(type) /\ ~ignored
  /\ ~ready => Starting(type)
  /\ ready => Working(type)

-----------------------------------------------------------------------------
\* What is left of a call, and of a transaction less.
LEMMA RestOfCall ==
  ASSUME NEW S, NEW call \in Seq(S), NEW m \in 1 .. Len(call)
  PROVE  /\ Rest(call, m) # <<>>
         /\ Head(Rest(call, m)) = call[m]
         /\ Tail(Rest(call, m)) = Rest(call, m + 1)
<1>1. Len(call) \in Nat /\ \A i \in m .. Len(call) : call[i] \in S
  BY LenProperties, ElementOfSeq
<1>2. Len(Rest(call, m)) = IF m <= Len(call) THEN Len(call) - m + 1 ELSE 0
  BY <1>1, SubSeqProperties DEF Rest
<1>3. Len(Rest(call, m)) # 0
  BY <1>1, <1>2
<1>4. Rest(call, m) # <<>>
  BY <1>3, EmptySeq
<1>5. Len(call) \in m .. Len(call)
  BY <1>1
<1> QED
  BY <1>4, <1>5, HeadTailOfSubSeq DEF Rest

LEMMA WholeCall ==
  ASSUME NEW S, NEW call \in Seq(S)
  PROVE  /\ Rest(call, 1) = call
         /\ Rest(call, Len(call) + 1) = <<>>
<1>1. Len(call) \in Nat
  BY LenProperties
<1> QED
  BY <1>1, SubSeqFull, SubSeqEmpty DEF Rest

\* The pages, and a place in its page.
LEMMA Division ==
  ASSUME NEW x \in Nat, NEW p \in Nat \ {0}
  PROVE  /\ x \div p \in Nat /\ x % p \in 0 .. p - 1
         /\ x = ((x \div p) * p) + (x % p)
  BY SMT

LEMMA LaterPage ==
  ASSUME NEW q \in Nat, NEW s \in Nat, NEW p \in Nat \ {0}, q < s
  PROVE  q * p + p <= s * p
<1>1. PICK d \in Nat : s = q + 1 + d
  BY SMT
<1>2. s * p = q * p + p + d * p /\ d * p >= 0
  BY <1>1, SMT
<1> QED
  BY <1>2, SMT

LEMMA PlaceInPage ==
  ASSUME NEW q \in Nat, NEW x \in Nat, NEW p \in Nat \ {0}, q * p <= x, x < q * p + p
  PROVE  x \div p = q /\ x % p = x - q * p
<1>1. /\ x \div p \in Nat /\ x % p \in 0 .. p - 1
      /\ x = ((x \div p) * p) + (x % p)
  BY Division
<1>2. ~(x \div p < q)
  BY <1>1, LaterPage
<1>3. ~(q < x \div p)
  BY <1>1, LaterPage
<1> QED
  BY <1>1, <1>2, <1>3

LEMMA MaxOfTwo ==
  ASSUME NEW a \in Int, NEW b \in Int
  PROVE  /\ Max({a, b}) = IF a >= b THEN a ELSE b
         /\ Min({a, b}) = IF a <= b THEN a ELSE b
  BY DEF Max, Min

-----------------------------------------------------------------------------
\* The pieces of a write follow each other from its first byte to its last,
\* each in one page.
InOnePage(piece) ==
  \E q \in Nat : q * PageSize <= piece.from /\ piece.upto <= q * PageSize + PageSize

LEMMA PiecesAre ==
  ASSUME NEW addr \in Nat, NEW len \in Nat \ {0}
  PROVE  LET pieces == Pieces(addr, len)
             n      == Len(pieces)
         IN  /\ n \in Nat \ {0}
             /\ pieces[1].from = addr /\ pieces[n].upto = addr + len
             /\ \A k \in 1 .. n :
                  /\ pieces[k].from \in Nat /\ pieces[k].upto \in Nat
                  /\ pieces[k].from < pieces[k].upto
                  /\ addr <= pieces[k].from /\ pieces[k].upto <= addr + len
                  /\ InOnePage(pieces[k])
             /\ \A k \in 1 .. n - 1 : pieces[k + 1].from = pieces[k].upto
<1> DEFINE p      == PageSize
           first  == addr \div p
           final  == (addr + len - 1) \div p
           n      == final - first + 1
           pieces == Pieces(addr, len)
<1>1. p \in Nat \ {0}
  BY NorAssumption
<1>2. /\ first \in Nat /\ addr % p \in 0 .. p - 1 /\ addr = (first * p) + (addr % p)
  BY <1>1, Division
<1>3. addr + len - 1 \in Nat
  OBVIOUS
<1>4. /\ final \in Nat /\ (addr + len - 1) % p \in 0 .. p - 1
      /\ addr + len - 1 = (final * p) + ((addr + len - 1) % p)
  BY <1>1, <1>3, Division
<1>5. first * p <= addr /\ addr < first * p + p /\ first * p \in Nat
  <2>1. first * p \in Nat
    BY <1>1, <1>2
  <2> HIDE DEF first
  <2> QED
    BY <1>1, <1>2, <2>1
<1>6. final * p <= addr + len - 1 /\ addr + len - 1 < final * p + p /\ final * p \in Nat
  <2>1. final * p \in Nat
    BY <1>1, <1>4
  <2> HIDE DEF final
  <2> QED
    BY <1>1, <1>4, <2>1
<1>7. first <= final
  <2>1. ~(final < first)
    <3> HIDE DEF first, final
    <3>1. final < first => final * p + p <= first * p
      BY <1>1, <1>2, <1>4, LaterPage
    <3> QED
      BY <1>1, <1>5, <1>6, <3>1
  <2> HIDE DEF first, final
  <2> QED
    BY <1>2, <1>4, <2>1
<1>8. n \in Nat \ {0}
  <2> HIDE DEF first, final
  <2> QED
    BY <1>2, <1>4, <1>7
<1>9. pieces = [k \in 1 .. n |-> [from |-> Max({addr, (first + k - 1) * p}),
                                  upto |-> Min({addr + len, (first + k) * p})]]
  BY DEF Pieces
<1> HIDE DEF first, final, pieces, p
<1>10. Len(pieces) = n
  BY <1>8, <1>9
<1> DEFINE start(k) == (first + k - 1) * p
<1>11. ASSUME NEW k \in 1 .. n
       PROVE  /\ start(k) \in Nat /\ (first + k) * p = start(k) + p
              /\ k = 1 => start(k) = first * p
              /\ k # 1 => first * p + p <= start(k)
              /\ k = n => start(k) = final * p
              /\ k # n => start(k) + p <= final * p
  <2>1. first + k - 1 \in Nat /\ first + k = (first + k - 1) + 1
    BY <1>2, <1>8
  <2> DEFINE s == first + k - 1
  <2>2. s \in Nat /\ first + k = s + 1 /\ start(k) = s * p
    BY <2>1
  <2>3. k = 1 => s = first
    BY <1>2
  <2>4. k # 1 => first < s
    BY <1>2, <1>8
  <2>5. k = n => s = final
    BY <1>2, <1>4
  <2>6. k # n => s < final
    BY <1>2, <1>4
  <2> HIDE DEF s, start
  <2>7. s * p \in Nat /\ (s + 1) * p = s * p + p
    BY <1>1, <2>2
  <2>8. k # 1 => first * p + p <= s * p
    BY <1>1, <1>2, <2>2, <2>4, LaterPage
  <2>9. k # n => s * p + p <= final * p
    BY <1>1, <1>4, <2>2, <2>6, LaterPage
  <2> QED
    BY <2>2, <2>3, <2>5, <2>7, <2>8, <2>9
<1> HIDE DEF n
<1>12. ASSUME NEW k \in 1 .. n
       PROVE  /\ pieces[k].from = IF addr >= start(k) THEN addr ELSE start(k)
              /\ pieces[k].upto = IF addr + len <= start(k) + p THEN addr + len ELSE start(k) + p
  <2>1. pieces[k].from = Max({addr, start(k)}) /\ pieces[k].upto = Min({addr + len, (first + k) * p})
    BY <1>9
  <2>2. start(k) \in Int /\ start(k) + p \in Int /\ (first + k) * p = start(k) + p
        /\ addr + len \in Int /\ addr \in Int
    BY <1>1, <1>11
  <2> HIDE DEF start
  <2>3. Min({addr + len, start(k) + p}) = IF addr + len <= start(k) + p THEN addr + len ELSE start(k) + p
    BY <2>2, MaxOfTwo
  <2>4. Max({addr, start(k)}) = IF addr >= start(k) THEN addr ELSE start(k)
    BY <2>2, MaxOfTwo
  <2> QED
    BY <2>1, <2>2, <2>3, <2>4
<1>13. start(1) = first * p /\ start(n) = final * p
  BY <1>8, <1>11
<1> HIDE DEF start
<1>14. pieces[1].from = addr /\ pieces[n].upto = addr + len
  BY <1>1, <1>5, <1>6, <1>8, <1>12, <1>13
<1>15. ASSUME NEW k \in 1 .. n
       PROVE  /\ pieces[k].from \in Nat /\ pieces[k].upto \in Nat
              /\ pieces[k].from < pieces[k].upto
              /\ addr <= pieces[k].from /\ pieces[k].upto <= addr + len
              /\ start(k) <= pieces[k].from /\ pieces[k].upto <= start(k) + p
  BY <1>1, <1>5, <1>6, <1>11, <1>12
<1>16. ASSUME NEW k \in 1 .. n
       PROVE  InOnePage(pieces[k])
  <2>1. first + k - 1 \in Nat
    BY <1>2, <1>8
  <2>2. start(k) = (first + k - 1) * p
    BY DEF start
  <2> QED
    BY <1>15, <2>1, <2>2 DEF InOnePage, p
<1>17. ASSUME NEW k \in 1 .. n - 1
       PROVE  pieces[k + 1].from = pieces[k].upto
  <2>1. k \in 1 .. n /\ k + 1 \in 1 .. n /\ k # n /\ k + 1 # 1
    BY <1>8
  <2>2. start(k + 1) = (first + k) * p
    BY <1>2 DEF start
  <2>3. start(k + 1) = start(k) + p /\ start(k) \in Nat
    BY <1>11, <2>1, <2>2
  <2>4. first * p + p <= start(k + 1) /\ start(k) + p <= final * p
    BY <1>11, <2>1
  <2>5. pieces[k + 1].from = start(k + 1)
    BY <1>1, <1>5, <1>12, <2>1, <2>3, <2>4
  <2>6. pieces[k].upto = start(k) + p
    BY <1>1, <1>6, <1>12, <2>1, <2>3, <2>4
  <2> QED
    BY <2>3, <2>5, <2>6
<1> QED
  BY <1>8, <1>10, <1>14, <1>15, <1>16, <1>17 DEF pieces

-----------------------------------------------------------------------------
\* A write as a sequence: three transactions a piece.
BytesOf(piece) == [i \in 1 .. piece.upto - piece.from |-> {piece.from + i - 1}]

ProgramOf(piece) == [cmd |-> "PAGE_PROGRAM", addr |-> piece.from, dat |-> BytesOf(piece)]

LEMMA WriteIs ==
  ASSUME NEW addr \in Nat, NEW len \in Nat \ {0}
  PROVE  LET pieces == Pieces(addr, len)
             call   == norflash_write_no_check(addr, len)
         IN  /\ \E S : call \in Seq(S)
             /\ Len(call) = 3 * Len(pieces)
             /\ \A k \in 1 .. Len(pieces) :
                  /\ call[3 * (k - 1) + 1] = WREN
                  /\ call[3 * (k - 1) + 2] = ProgramOf(pieces[k])
                  /\ call[3 * (k - 1) + 3] = WAIT
<1> DEFINE pieces == Pieces(addr, len)
           n      == Len(pieces)
           call   == norflash_write_no_check(addr, len)
           page(p) == norflash_write_page(p.from, [i \in 1 .. p.upto - p.from |-> {p.from + i - 1}])
           at(m)  == page(pieces[((m - 1) \div 3) + 1])[((m - 1) % 3) + 1]
<1>1. n \in Nat \ {0}
  BY PiecesAre
<1>2. \A p : Len(page(p)) = 3 /\ page(p) = <<WREN, ProgramOf(p), WAIT>>
  BY DEF norflash_write_page, ProgramOf, BytesOf
<1>3. call = [m \in 1 .. 3 * n |-> at(m)]
  <2>1. call = [m \in 1 .. Len(page(pieces[1])) * n |->
                  page(pieces[((m - 1) \div Len(page(pieces[1]))) + 1])
                      [((m - 1) % Len(page(pieces[1]))) + 1]]
    BY DEF norflash_write_no_check
  <2> HIDE DEF page
  <2>2. Len(page(pieces[1])) = 3
    BY <1>2
  <2> QED
    BY <2>1, <2>2
<1> HIDE DEF call, n, page
<1>4. ASSUME NEW k \in 1 .. n, NEW j \in 1 .. 3
      PROVE  3 * (k - 1) + j \in 1 .. 3 * n /\ at(3 * (k - 1) + j) = page(pieces[k])[j]
  <2>1. 3 * (k - 1) + j \in 1 .. 3 * n
    BY <1>1
  <2>2. ((3 * (k - 1) + j - 1) \div 3) + 1 = k /\ ((3 * (k - 1) + j - 1) % 3) + 1 = j
    BY <1>1
  <2> QED
    BY <2>1, <2>2
<1>5. ASSUME NEW k \in 1 .. n
      PROVE  /\ call[3 * (k - 1) + 1] = WREN
             /\ call[3 * (k - 1) + 2] = ProgramOf(pieces[k])
             /\ call[3 * (k - 1) + 3] = WAIT
  <2> HIDE DEF at
  <2>1. \A j \in 1 .. 3 : call[3 * (k - 1) + j] = page(pieces[k])[j]
    BY <1>3, <1>4
  <2> HIDE DEF pieces
  <2> QED
    BY <1>2, <2>1
<1>6. Len(call) = 3 * n
  <2> HIDE DEF at
  <2> QED
    BY <1>1, <1>3
<1>7. call \in Seq({at(m) : m \in 1 .. 3 * n})
  <2> HIDE DEF at
  <2> QED
    BY <1>1, <1>3
<1> QED
  BY <1>5, <1>6, <1>7 DEF n, call

LEMMA ErasesAre ==
  ASSUME NEW addr \in Int
  PROVE  LET erase == [cmd |-> "SECTOR_ERASE", addr |-> addr]
             call  == norflash_erase_sector(addr)
         IN  /\ \E S : call \in Seq(S) /\ norflash_erase_chip \in Seq(S)
             /\ Len(call) = 4 /\ Len(norflash_erase_chip) = 4
             /\ call[1] = WREN /\ call[2] = WAIT /\ call[3] = erase /\ call[4] = WAIT
             /\ norflash_erase_chip[1] = WREN /\ norflash_erase_chip[2] = WAIT
             /\ norflash_erase_chip[3] = Cmd("CHIP_ERASE") /\ norflash_erase_chip[4] = WAIT
<1> DEFINE erase == [cmd |-> "SECTOR_ERASE", addr |-> addr]
           S     == {WREN, WAIT, erase, Cmd("CHIP_ERASE")}
<1>1. norflash_erase_sector(addr) = <<WREN, WAIT, erase, WAIT>>
  BY DEF norflash_erase_sector
<1>2. norflash_erase_chip = <<WREN, WAIT, Cmd("CHIP_ERASE"), WAIT>>
  BY DEF norflash_erase_chip
<1> HIDE DEF erase
<1>3. norflash_erase_sector(addr) \in Seq(S) /\ norflash_erase_chip \in Seq(S)
  BY <1>1, <1>2
<1>4. \E T : norflash_erase_sector(addr) \in Seq(T) /\ norflash_erase_chip \in Seq(T)
  BY <1>3
<1> QED
  BY <1>1, <1>2, <1>4 DEF erase

\* A page program of one piece programs the bytes of the piece.
LEMMA PieceProgrammed ==
  ASSUME NEW cells \in Cells, NEW piece, piece.from \in Nat, piece.upto \in Nat,
         piece.from < piece.upto, InOnePage(piece)
  PROVE  PageProgrammed(cells, piece.from, BytesOf(piece))
           = Programmed(cells, piece.from, piece.upto)
<1> DEFINE from  == piece.from
           upto  == piece.upto
           dat   == BytesOf(piece)
           page  == from - (from % PageSize)
           at(i) == page + ((from + i - 1) % PageSize)
           new(a) == UNION {dat[i] : i \in {j \in DOMAIN dat : at(j) = a}}
<1>1. PICK q \in Nat : q * PageSize <= from /\ upto <= q * PageSize + PageSize
  BY DEF InOnePage
<1>2. PageSize \in Nat \ {0} /\ q * PageSize \in Nat
  BY NorAssumption
<1>3. from % PageSize = from - q * PageSize
  <2>1. from \in Nat /\ q * PageSize <= from /\ from < q * PageSize + PageSize
    BY <1>1, <1>2
  <2> QED
    BY <1>2, <2>1, PlaceInPage
<1>4. page = q * PageSize
  BY <1>2, <1>3
<1>5. DOMAIN dat = 1 .. upto - from /\ \A i \in 1 .. upto - from : dat[i] = {from + i - 1}
  BY DEF BytesOf
<1>6. ASSUME NEW i \in 1 .. upto - from
      PROVE  at(i) = from + i - 1
  <2>1. from + i - 1 \in Nat /\ q * PageSize <= from + i - 1
        /\ from + i - 1 < q * PageSize + PageSize
    BY <1>1, <1>2
  <2> DEFINE x == from + i - 1
  <2>2. at(i) = page + (x % PageSize)
    OBVIOUS
  <2> HIDE DEF x, at, page
  <2>3. x % PageSize = x - q * PageSize
    BY <1>2, <2>1, PlaceInPage DEF x
  <2>4. at(i) = x
    BY <1>2, <1>4, <2>1, <2>2, <2>3 DEF x
  <2> QED
    BY <2>4 DEF x
<1> HIDE DEF dat, at, page
<1>7. ASSUME NEW a \in DOMAIN cells
      PROVE  cells[a] \cup new(a) = IF a \in from .. upto - 1 THEN cells[a] \cup {a} ELSE cells[a]
  <2>1. a \in Int
    BY DEF Cells
  <2>2. CASE a \in from .. upto - 1
    <3>1. a - from + 1 \in 1 .. upto - from /\ at(a - from + 1) = a
      BY <1>6, <2>1, <2>2
    <3>2. \A j \in 1 .. upto - from : at(j) = a => j = a - from + 1
      BY <1>6, <2>1
    <3>3. {j \in DOMAIN dat : at(j) = a} = {a - from + 1}
      BY <1>5, <3>1, <3>2
    <3>4. dat[a - from + 1] = {a}
      BY <1>5, <2>1, <3>1
    <3>5. new(a) = {a}
      BY <3>3, <3>4
    <3> QED
      BY <2>2, <3>5
  <2>3. CASE a \notin from .. upto - 1
    <3>1. \A j \in 1 .. upto - from : at(j) # a
      BY <1>6, <2>1, <2>3
    <3>2. {j \in DOMAIN dat : at(j) = a} = {}
      BY <1>5, <3>1
    <3>3. new(a) = {}
      BY <3>2
    <3> QED
      BY <2>3, <3>3
  <2> QED
    BY <2>2, <2>3
<1>8. PageProgrammed(cells, from, dat) = [a \in DOMAIN cells |-> cells[a] \cup new(a)]
  BY DEF PageProgrammed, at, page
<1> HIDE DEF new
<1> QED
  BY <1>7, <1>8 DEF Programmed, dat

-----------------------------------------------------------------------------
\* What the chip makes of a transaction.
LEMMA ErasedCells == Erased \in Cells
  BY DEF Erased, Cells

LEMMA SectorCells ==
  ASSUME NEW cells \in Cells, NEW addr
  PROVE  SectorErased(cells, addr) \in Cells
  BY DEF SectorErased, Cells

LEMMA ProgrammedCells ==
  ASSUME NEW cells \in Cells, NEW from \in Int, NEW upto \in Int
  PROVE  Programmed(cells, from, upto) \in Cells
  BY DEF Programmed, Cells

LEMMA ProgrammedTwice ==
  ASSUME NEW cells \in Cells, NEW from \in Int, NEW mid \in Int, NEW upto \in Int,
         from <= mid, mid <= upto
  PROVE  Programmed(Programmed(cells, from, mid), mid, upto) = Programmed(cells, from, upto)
<1> DEFINE once == Programmed(cells, from, mid)
<1>1. /\ DOMAIN cells = 0 .. NorSize - 1 /\ DOMAIN once = DOMAIN cells
      /\ \A a \in DOMAIN cells :
           once[a] = IF a \in from .. mid - 1 THEN cells[a] \cup {a} ELSE cells[a]
  BY DEF Programmed, Cells
<1> HIDE DEF once
<1>2. ASSUME NEW a \in DOMAIN cells
      PROVE  (IF a \in mid .. upto - 1 THEN once[a] \cup {a} ELSE once[a])
               = IF a \in from .. upto - 1 THEN cells[a] \cup {a} ELSE cells[a]
  <2>1. a \in Int
    BY <1>1, NorAssumption
  <2> DEFINE more == cells[a] \cup {a}
  <2>2. once[a] = IF a \in from .. mid - 1 THEN more ELSE cells[a]
    BY <1>1
  <2>3. a \in mid .. upto - 1 => once[a] \cup {a} = more
    BY <2>1, <2>2
  <2> HIDE DEF more
  <2>4. (IF a \in mid .. upto - 1 THEN once[a] \cup {a} ELSE once[a])
          = IF a \in from .. upto - 1 THEN more ELSE cells[a]
    BY <2>1, <2>2, <2>3
  <2> QED
    BY <2>4 DEF more
<1>3. Programmed(once, mid, upto)
        = [a \in DOMAIN cells |-> IF a \in from .. upto - 1 THEN cells[a] \cup {a} ELSE cells[a]]
  BY <1>1, <1>2 DEF Programmed
<1> QED
  BY <1>3 DEF once, Programmed

LEMMA ChipIs ==
  ASSUME NorTypes, NEW t, Changed(t) \in Cells
  PROVE  /\ Chip(t) \in FlashType
         /\ Taken(t) => /\ Chip(t).cells = Changed(t)
                        /\ flash.wel \/ t = WREN => Chip(t).wel
                        /\ Chip(t).busy = IF Writes(t) THEN t.cmd ELSE flash.busy
                        /\ Chip(t).four = (flash.four \/ t.cmd = "ENABLE_4BYTE_ADDR")
                        /\ Chip(t).next4 = (flash.next4 \/ t.cmd = "WRITE_STATUS_REG3")
         /\ ~Taken(t) => Chip(t) = flash
<1>1. CASE ~Taken(t)
  BY <1>1 DEF Chip, NorTypes
<1>2. CASE Taken(t)
  <2> DEFINE wel   == flash.wel \/ t = WREN
             busy  == IF Writes(t) THEN t.cmd ELSE flash.busy
             four  == flash.four \/ t.cmd = "ENABLE_4BYTE_ADDR"
             next4 == flash.next4 \/ t.cmd = "WRITE_STATUS_REG3"
  <2>1. Chip(t) = [flash EXCEPT !.cells = Changed(t), !.wel = wel, !.busy = busy,
                                !.next4 = next4, !.four = four]
    BY <1>2 DEF Chip
  <2>2. wel \in BOOLEAN /\ four \in BOOLEAN /\ next4 \in BOOLEAN
    OBVIOUS
  <2>3. busy \in BusyWith
    BY DEF Writes, BusyWith, NorTypes, FlashType
  <2> HIDE DEF wel, busy, four, next4
  <2>4. /\ Chip(t) \in FlashType /\ Chip(t).cells = Changed(t) /\ Chip(t).wel = wel
        /\ Chip(t).busy = busy /\ Chip(t).four = four /\ Chip(t).next4 = next4
    BY <2>1, <2>2, <2>3 DEF NorTypes, FlashType
  <2> QED
    BY <1>2, <2>4 DEF wel, busy, four, next4
<1> QED
  BY <1>1, <1>2

LEMMA PlainCommand ==
  ASSUME NEW t, t.cmd \notin {"PAGE_PROGRAM", "SECTOR_ERASE", "CHIP_ERASE"}
  PROVE  Changed(t) = flash.cells
  BY DEF Changed

\* A command that the invariant says is taken keeps what a ready driver relies on.
LEMMA ReadyTransaction ==
  ASSUME NEW type \in Types, NorInv(type), ready, Transaction,
         NEW t, t = Head(todo), Changed(t) \in Cells, Waits(t) \/ Taken(t),
         t.cmd \notin {"ENABLE_4BYTE_ADDR", "WRITE_STATUS_REG3"}
  PROVE  /\ NorTypes' /\ ChipOf(type)' /\ ~ignored' /\ ready'
         /\ norflash_type' = type /\ flash'.four = Wide(type)
         /\ Waits(t) => Idle
         /\ flash' = Chip(t) /\ todo' = Tail(todo) /\ want' = want
<1>1. /\ Waits(t) => Idle
      /\ flash' = Chip(t) /\ todo' = Tail(todo)
      /\ ignored' = (ignored \/ (ready /\ ~Waits(t) /\ ~Taken(t)))
      /\ ready' = (ready \/ Settled(Tail(todo)))
      /\ want' = IF Settled(Tail(todo)) THEN flash'.cells ELSE want
      /\ norflash_type' = norflash_type
  BY Zenon DEF Transaction
<1>2. ~Settled(Tail(todo))
  BY DEF Settled
<1>3. ready' /\ ~ignored' /\ want' = want
  BY <1>1, <1>2 DEF NorInv
<1>4. /\ flash' \in FlashType
      /\ flash'.four = flash.four /\ flash'.next4 = flash.next4
  BY <1>1, ChipIs DEF NorInv, NorTypes, FlashType
<1> QED
  BY <1>1, <1>3, <1>4 DEF NorInv, NorTypes, ChipOf, Working

-----------------------------------------------------------------------------
\* The transactions of a write.
LEMMA WriteTransaction ==
  ASSUME NEW type \in Types, NorInv(type), ready, Transaction, Writing
  PROVE  NorInv(type)'
<1>1. PICK addr \in 0 .. NorSize - 1, len \in 1 .. PageSize + 1 :
        \E k \in 1 .. Len(Pieces(addr, len)), j \in 1 .. 3 : WriteFrom(addr, len, k, j)
  BY DEF Writing
<1>2. addr \in Nat /\ len \in Nat \ {0}
  BY NorAssumption
<1> DEFINE pieces == Pieces(addr, len)
           n      == Len(pieces)
           call   == norflash_write_no_check(addr, len)
           next   == addr + len
<1>3. PICK k \in 1 .. n, j \in 1 .. 3 : WriteFrom(addr, len, k, j)
  BY <1>1
<1>4. /\ n \in Nat \ {0}
      /\ pieces[n].upto = next
      /\ \A i \in 1 .. n : /\ pieces[i].from \in Nat /\ pieces[i].upto \in Nat
                           /\ pieces[i].from < pieces[i].upto
                           /\ pieces[i].upto <= next
                           /\ InOnePage(pieces[i])
      /\ \A i \in 1 .. n - 1 : pieces[i + 1].from = pieces[i].upto
  BY <1>2, PiecesAre
<1>5. /\ \E S : call \in Seq(S)
      /\ Len(call) = 3 * n
      /\ \A i \in 1 .. n : /\ call[3 * (i - 1) + 1] = WREN
                           /\ call[3 * (i - 1) + 2] = ProgramOf(pieces[i])
                           /\ call[3 * (i - 1) + 3] = WAIT
  BY <1>2, WriteIs
<1> DEFINE piece == pieces[k]
           at    == 3 * (k - 1) + j
<1>6. /\ todo = Rest(call, at)
      /\ j = 1 => Idle /\ want = Programmed(flash.cells, piece.from, next)
      /\ j = 2 => Enabled /\ want = Programmed(flash.cells, piece.from, next)
      /\ j = 3 => want = Programmed(flash.cells, piece.upto, next)
  BY <1>3, Zenon DEF WriteFrom
<1> HIDE DEF pieces, n, call, next
<1>7. at \in 1 .. 3 * n /\ (at + 1 = 3 * n + 1 <=> k = n /\ j = 3)
  BY <1>4
<1>8. /\ Head(todo) = call[at] /\ Tail(todo) = Rest(call, at + 1)
      /\ Rest(call, 3 * n + 1) = <<>>
  BY <1>5, <1>6, <1>7, RestOfCall, WholeCall
<1>9. PICK t : t = Head(todo)
  OBVIOUS
<1>10. flash.cells \in Cells
  BY DEF NorInv, NorTypes, FlashType
<1>11. flash.four = Wide(norflash_type)
  BY DEF NorInv, Working
<1> DEFINE Next(i, l) == /\ todo' = Rest(call, 3 * (i - 1) + l)
                         /\ l = 1 => Idle' /\ want' = Programmed(flash'.cells, pieces[i].from, next)
                         /\ l = 2 => Enabled' /\ want' = Programmed(flash'.cells, pieces[i].from, next)
                         /\ l = 3 => want' = Programmed(flash'.cells, pieces[i].upto, next)
<1>12. ASSUME NEW i \in 1 .. n, NEW l \in 1 .. 3, Next(i, l)
       PROVE  Writing'
  <2>1. WriteFrom(addr, len, i, l)'
    BY <1>12, Zenon DEF WriteFrom, call, pieces, next
  <2> QED
    BY <2>1 DEF Writing, n, pieces
<1>13. CASE j = 1
  <2>1. t = WREN
    BY <1>5, <1>8, <1>9, <1>13
  <2>2. t.cmd = "WRITE_ENABLE"
    BY <2>1 DEF WREN, Cmd
  <2>3. Changed(t) = flash.cells /\ ~Waits(t) /\ ~Writes(t) /\ Taken(t)
    BY <1>6, <1>13, <2>2, PlainCommand DEF Waits, Writes, Taken
  <2>4. /\ NorTypes' /\ ChipOf(type)' /\ ~ignored' /\ ready'
        /\ norflash_type' = type /\ flash'.four = Wide(type)
        /\ flash' = Chip(t) /\ todo' = Tail(todo) /\ want' = want
    BY <1>9, <1>10, <2>2, <2>3, ReadyTransaction
  <2>5. flash'.cells = flash.cells /\ flash'.wel /\ flash'.busy = flash.busy
    BY <1>10, <2>1, <2>3, <2>4, ChipIs DEF NorInv
  <2>6. Next(k, 2)
    BY <1>6, <1>8, <1>13, <2>4, <2>5 DEF Idle, Enabled
  <2>7. Writing'
    BY <1>12, <2>6
  <2> QED
    BY <2>4, <2>7 DEF NorInv, Working
<1>14. CASE j = 2
  <2>1. t = ProgramOf(piece)
    BY <1>5, <1>8, <1>9, <1>14
  <2>2. t.cmd = "PAGE_PROGRAM" /\ t.addr = piece.from /\ t.dat = BytesOf(piece)
    BY <2>1 DEF ProgramOf
  <2>3. Changed(t) = PageProgrammed(flash.cells, piece.from, BytesOf(piece))
    BY <1>11, <2>2 DEF Changed, Heard
  <2>4. Changed(t) = Programmed(flash.cells, piece.from, piece.upto)
    BY <1>4, <1>10, <2>3, PieceProgrammed
  <2>5. Changed(t) \in Cells
    BY <1>4, <1>10, <2>4, ProgrammedCells
  <2>6. ~Waits(t) /\ Writes(t) /\ Taken(t)
    BY <1>6, <1>14, <2>2 DEF Waits, Writes, Taken, Enabled
  <2>7. /\ NorTypes' /\ ChipOf(type)' /\ ~ignored' /\ ready'
        /\ norflash_type' = type /\ flash'.four = Wide(type)
        /\ flash' = Chip(t) /\ todo' = Tail(todo) /\ want' = want
    BY <1>9, <2>2, <2>5, <2>6, ReadyTransaction
  <2>8. flash'.cells = Programmed(flash.cells, piece.from, piece.upto)
    BY <2>4, <2>5, <2>6, <2>7, ChipIs DEF NorInv
  <2>9. want = Programmed(flash'.cells, piece.upto, next)
    <3>1. want = Programmed(flash.cells, piece.from, next)
      BY <1>6, <1>14
    <3>2. /\ piece.from \in Nat /\ piece.upto \in Nat /\ next \in Nat
          /\ piece.from < piece.upto /\ piece.upto <= next
      BY <1>2, <1>4 DEF next
    <3> HIDE DEF piece
    <3> QED
      BY <1>10, <2>8, <3>1, <3>2, ProgrammedTwice
  <2>10. Next(k, 3)
    BY <1>6, <1>8, <1>14, <2>7, <2>9
  <2>11. Writing'
    BY <1>12, <2>10
  <2> QED
    BY <2>7, <2>11 DEF NorInv, Working
<1>15. CASE j = 3
  <2>1. t = WAIT
    BY <1>5, <1>8, <1>9, <1>15
  <2>2. t.cmd = "WAIT"
    BY <2>1 DEF WAIT, Cmd
  <2>3. Changed(t) = flash.cells /\ Waits(t) /\ ~Writes(t)
    BY <2>2, PlainCommand DEF Waits, Writes
  <2>4. /\ NorTypes' /\ ChipOf(type)' /\ ~ignored' /\ ready' /\ Idle
        /\ norflash_type' = type /\ flash'.four = Wide(type)
        /\ flash' = Chip(t) /\ todo' = Tail(todo) /\ want' = want
    BY <1>9, <1>10, <2>2, <2>3, ReadyTransaction
  <2>5. flash'.cells = flash.cells /\ Idle'
    BY <1>10, <2>3, <2>4, ChipIs DEF NorInv, Idle, Taken
  <2>6. CASE k = n
    <3>1. todo' = <<>>
      BY <1>4, <1>7, <1>8, <1>15, <2>4, <2>6
    <3>2. want' = Programmed(flash'.cells, next, next)
      BY <1>4, <1>6, <1>15, <2>4, <2>5, <2>6
    <3>3. want' = flash'.cells
      BY <1>2, <1>10, <2>5, <3>2 DEF Programmed, Cells, next
    <3> QED
      BY <2>4, <2>5, <3>1, <3>3 DEF NorInv, Working, AtRest
  <2>7. CASE k # n
    <3>1. k \in 1 .. n - 1 /\ k + 1 \in 1 .. n /\ 3 * ((k + 1) - 1) + 1 = at + 1
      BY <1>4, <1>15, <2>7
    <3>2. pieces[k + 1].from = piece.upto
      BY <1>4, <3>1
    <3>3. Next(k + 1, 1)
      BY <1>6, <1>8, <1>15, <2>4, <2>5, <3>1, <3>2
    <3>4. Writing'
      BY <1>12, <3>1, <3>3
    <3> QED
      BY <2>4, <3>4 DEF NorInv, Working
  <2> QED
    BY <2>6, <2>7
<1> QED
  BY <1>13, <1>14, <1>15

\* The transactions of an erase: call, which leaves the cells erased.
LEMMA EraseTransaction ==
  ASSUME NEW type \in Types, NorInv(type), ready, Transaction,
         NEW call, NEW erase, NEW erased \in Cells, NEW m \in 1 .. 4,
         EraseFrom(call, erased, m),
         \E S : call \in Seq(S), Len(call) = 4,
         call[1] = WREN, call[2] = WAIT, call[3] = erase, call[4] = WAIT,
         erase.cmd \in {"SECTOR_ERASE", "CHIP_ERASE"}, Changed(erase) = erased
  PROVE  /\ NorTypes' /\ ChipOf(type)' /\ ~ignored' /\ ready'
         /\ norflash_type' = type /\ flash'.four = Wide(type)
         /\ IF m = 4 THEN AtRest'
            ELSE /\ todo' = Rest(call, m + 1) /\ want' = want
                 /\ m \in {1, 2} => Enabled' /\ want' = erased /\ flash'.cells = flash.cells
                 /\ m = 3 => want' = flash'.cells
<1>1. /\ todo = Rest(call, m)
      /\ m = 1 => Idle /\ want = erased
      /\ m \in {2, 3} => Enabled /\ want = erased
      /\ m = 4 => want = flash.cells
  BY Zenon DEF EraseFrom
<1>2. Head(todo) = call[m] /\ Tail(todo) = Rest(call, m + 1) /\ Rest(call, 5) = <<>>
  <2>1. PICK S : call \in Seq(S)
    OBVIOUS
  <2>2. m \in 1 .. Len(call) /\ Len(call) + 1 = 5
    OBVIOUS
  <2>3. Rest(call, 5) = <<>>
    BY <2>1, <2>2, WholeCall
  <2> QED
    BY <1>1, <2>1, <2>2, <2>3, RestOfCall
<1>3. PICK t : t = Head(todo)
  OBVIOUS
<1>4. flash.cells \in Cells
  BY DEF NorInv, NorTypes, FlashType
<1>5. CASE m = 1
  <2>1. t = WREN
    BY <1>2, <1>3, <1>5
  <2>2. t.cmd = "WRITE_ENABLE"
    BY <2>1 DEF WREN, Cmd
  <2>3. Changed(t) = flash.cells /\ ~Waits(t) /\ ~Writes(t) /\ Taken(t)
    BY <1>1, <1>5, <2>2, PlainCommand DEF Waits, Writes, Taken
  <2>4. /\ NorTypes' /\ ChipOf(type)' /\ ~ignored' /\ ready'
        /\ norflash_type' = type /\ flash'.four = Wide(type)
        /\ flash' = Chip(t) /\ todo' = Tail(todo) /\ want' = want
    BY <1>3, <1>4, <2>2, <2>3, ReadyTransaction
  <2>5. flash'.cells = flash.cells /\ flash'.wel /\ flash'.busy = flash.busy
    BY <1>4, <2>1, <2>3, <2>4, ChipIs DEF NorInv
  <2> QED
    BY <1>1, <1>2, <1>5, <2>4, <2>5 DEF Idle, Enabled
<1>6. CASE m \in {2, 4}
  <2>1. t = WAIT
    BY <1>2, <1>3, <1>6
  <2>2. t.cmd = "WAIT"
    BY <2>1 DEF WAIT, Cmd
  <2>3. Changed(t) = flash.cells /\ Waits(t) /\ ~Writes(t)
    BY <2>2, PlainCommand DEF Waits, Writes
  <2>4. /\ NorTypes' /\ ChipOf(type)' /\ ~ignored' /\ ready' /\ Idle
        /\ norflash_type' = type /\ flash'.four = Wide(type)
        /\ flash' = Chip(t) /\ todo' = Tail(todo) /\ want' = want
    BY <1>3, <1>4, <2>2, <2>3, ReadyTransaction
  <2>5. Taken(t)
    BY <2>3, <2>4 DEF Taken
  <2>6. flash'.cells = flash.cells /\ (flash.wel => flash'.wel) /\ flash'.busy = flash.busy
    BY <1>4, <2>3, <2>4, <2>5, ChipIs DEF NorInv
  <2>7. CASE m = 2
    BY <1>1, <1>2, <2>4, <2>6, <2>7 DEF Idle, Enabled
  <2>8. CASE m = 4
    BY <1>1, <1>2, <2>4, <2>6, <2>8 DEF Idle, AtRest
  <2> QED
    BY <1>6, <2>7, <2>8
<1>7. CASE m = 3
  <2>1. t = erase
    BY <1>2, <1>3, <1>7
  <2>2. Changed(t) = erased /\ ~Waits(t) /\ Taken(t)
    BY <1>1, <1>7, <2>1 DEF Waits, Taken, Enabled
  <2>3. /\ NorTypes' /\ ChipOf(type)' /\ ~ignored' /\ ready'
        /\ norflash_type' = type /\ flash'.four = Wide(type)
        /\ flash' = Chip(t) /\ todo' = Tail(todo) /\ want' = want
    BY <1>3, <2>1, <2>2, ReadyTransaction
  <2>4. flash'.cells = erased
    BY <2>2, <2>3, ChipIs DEF NorInv
  <2> QED
    BY <1>1, <1>2, <1>7, <2>3, <2>4
<1> QED
  BY <1>5, <1>6, <1>7

LEMMA ErasingTransaction ==
  ASSUME NEW type \in Types, NorInv(type), ready, Transaction, Erasing
  PROVE  NorInv(type)'
<1>1. flash.cells \in Cells /\ flash.four = Wide(norflash_type)
  BY DEF NorInv, NorTypes, FlashType, Working
<1>2. PICK m \in 1 .. 4 :
        \/ \E addr \in 0 .. NorSize - 1 :
             EraseFrom(norflash_erase_sector(addr), SectorErased(flash.cells, addr), m)
        \/ EraseFrom(norflash_erase_chip, Erased, m)
  BY DEF Erasing
<1>3. ASSUME NEW addr \in 0 .. NorSize - 1,
             EraseFrom(norflash_erase_sector(addr), SectorErased(flash.cells, addr), m)
      PROVE  NorInv(type)'
  <2> DEFINE call   == norflash_erase_sector(addr)
             erase  == [cmd |-> "SECTOR_ERASE", addr |-> addr]
             erased == SectorErased(flash.cells, addr)
  <2>1. erased \in Cells /\ addr \in Int
    BY <1>1, SectorCells, NorAssumption
  <2>2. /\ \E S : call \in Seq(S)
        /\ Len(call) = 4
        /\ call[1] = WREN /\ call[2] = WAIT /\ call[3] = erase /\ call[4] = WAIT
    BY <2>1, ErasesAre
  <2>3. erase.cmd = "SECTOR_ERASE" /\ Changed(erase) = erased
    BY <1>1 DEF Changed, Heard
  <2>4. erased = SectorErased(flash.cells, addr) /\ EraseFrom(call, erased, m)
    BY <1>3
  <2> HIDE DEF call, erase, erased
  <2>5. /\ NorTypes' /\ ChipOf(type)' /\ ~ignored' /\ ready'
        /\ norflash_type' = type /\ flash'.four = Wide(type)
        /\ IF m = 4 THEN AtRest'
           ELSE /\ todo' = Rest(call, m + 1) /\ want' = want
                /\ m \in {1, 2} => Enabled' /\ want' = erased /\ flash'.cells = flash.cells
                /\ m = 3 => want' = flash'.cells
    BY <2>1, <2>2, <2>3, <2>4, EraseTransaction
  <2>6. CASE m = 4
    BY <2>5, <2>6 DEF NorInv, Working
  <2>7. CASE m # 4
    <3>1. todo' = Rest(norflash_erase_sector(addr), m + 1) /\ m + 1 \in 2 .. 4
      BY <2>5, <2>7 DEF call
    <3>2. m + 1 \in {2, 3} => Enabled' /\ want' = SectorErased(flash'.cells, addr)
      BY <2>4, <2>5, <2>7
    <3>3. m + 1 = 4 => want' = flash'.cells
      BY <2>5
    <3>4. EraseFrom(norflash_erase_sector(addr), SectorErased(flash.cells, addr), m + 1)'
      BY <3>1, <3>2, <3>3 DEF EraseFrom
    <3>5. Erasing'
      BY <3>1, <3>4 DEF Erasing
    <3> QED
      BY <2>5, <3>5 DEF NorInv, Working
  <2> QED
    BY <2>6, <2>7
<1>4. ASSUME EraseFrom(norflash_erase_chip, Erased, m)
      PROVE  NorInv(type)'
  <2> DEFINE call  == norflash_erase_chip
             erase == Cmd("CHIP_ERASE")
  <2>1. /\ \E S : call \in Seq(S)
        /\ Len(call) = 4
        /\ call[1] = WREN /\ call[2] = WAIT /\ call[3] = erase /\ call[4] = WAIT
    <3>1. 0 \in Int
      OBVIOUS
    <3> QED
      BY <3>1, ErasesAre
  <2>2. erase.cmd = "CHIP_ERASE" /\ Changed(erase) = Erased
    BY DEF Changed, Cmd
  <2>3. Erased \in Cells
    BY ErasedCells
  <2>4. EraseFrom(call, Erased, m)
    BY <1>4
  <2> HIDE DEF call, erase
  <2>5. /\ NorTypes' /\ ChipOf(type)' /\ ~ignored' /\ ready'
        /\ norflash_type' = type /\ flash'.four = Wide(type)
        /\ IF m = 4 THEN AtRest'
           ELSE /\ todo' = Rest(call, m + 1) /\ want' = want
                /\ m \in {1, 2} => Enabled' /\ want' = Erased /\ flash'.cells = flash.cells
                /\ m = 3 => want' = flash'.cells
    BY <2>1, <2>2, <2>3, <2>4, EraseTransaction
  <2>6. CASE m = 4
    BY <2>5, <2>6 DEF NorInv, Working
  <2>7. CASE m # 4
    <3>1. todo' = Rest(norflash_erase_chip, m + 1) /\ m + 1 \in 2 .. 4
      BY <2>5, <2>7 DEF call
    <3>2. m + 1 \in {2, 3} => Enabled' /\ want' = Erased
      BY <2>5, <2>7
    <3>3. m + 1 = 4 => want' = flash'.cells
      BY <2>5
    <3>4. EraseFrom(norflash_erase_chip, Erased, m + 1)'
      BY <3>1, <3>2, <3>3 DEF EraseFrom
    <3>5. Erasing'
      BY <3>1, <3>4 DEF Erasing
    <3> QED
      BY <2>5, <3>5 DEF NorInv, Working
  <2> QED
    BY <2>6, <2>7
<1> QED
  BY <1>2, <1>3, <1>4

\* A read is one transaction.
LEMMA RestTransaction ==
  ASSUME NEW type \in Types, NorInv(type), ready, Transaction, AtRest
  PROVE  NorInv(type)'
<1>1. flash.cells \in Cells
  BY DEF NorInv, NorTypes, FlashType
<1> DEFINE read == [cmd |-> "READ_DATA", addr |-> 0]
<1>2. todo = <<read>> /\ Idle /\ want = flash.cells
  BY DEF Transaction, AtRest, norflash_read
<1> HIDE DEF read
<1>3. Head(todo) = read /\ Tail(todo) = <<>>
  BY <1>2
<1>4. PICK t : t = read
  OBVIOUS
<1>5. t.cmd = "READ_DATA"
  BY <1>4 DEF read
<1>6. Changed(t) = flash.cells /\ ~Waits(t) /\ ~Writes(t) /\ Taken(t)
  BY <1>2, <1>5, PlainCommand DEF Waits, Writes, Taken
<1>7. /\ NorTypes' /\ ChipOf(type)' /\ ~ignored' /\ ready'
      /\ norflash_type' = type /\ flash'.four = Wide(type)
      /\ flash' = Chip(t) /\ todo' = Tail(todo) /\ want' = want
  BY <1>1, <1>3, <1>4, <1>5, <1>6, ReadyTransaction
<1>8. flash'.cells = flash.cells /\ flash'.busy = flash.busy
  BY <1>1, <1>6, <1>7, ChipIs DEF NorInv
<1> QED
  BY <1>2, <1>3, <1>7, <1>8 DEF NorInv, Working, AtRest, Idle

-----------------------------------------------------------------------------
\* The transactions of norflash_init.
LEMMA InitsAre ==
  /\ \E S : norflash_init \in Seq(S) /\ FourBytes \in Seq(S)
  /\ Len(norflash_init) = 2 /\ Len(FourBytes) = 4
  /\ norflash_init[1] = Cmd("RELEASE_POWER_DOWN")
  /\ norflash_init[2] = Cmd("MANUFACTURER_DEVICE_ID")
  /\ FourBytes[1] = WREN /\ FourBytes[2] = Cmd("WRITE_STATUS_REG3")
  /\ FourBytes[3] = Cmd("DELAY") /\ FourBytes[4] = Cmd("ENABLE_4BYTE_ADDR")
<1> DEFINE S == {Cmd("RELEASE_POWER_DOWN"), Cmd("MANUFACTURER_DEVICE_ID"), WREN,
                 Cmd("WRITE_STATUS_REG3"), Cmd("DELAY"), Cmd("ENABLE_4BYTE_ADDR")}
<1>1. norflash_init \in Seq(S) /\ FourBytes \in Seq(S)
  BY DEF norflash_init, FourBytes
<1>2. \E T : norflash_init \in Seq(T) /\ FourBytes \in Seq(T)
  BY <1>1
<1> QED
  BY <1>2 DEF norflash_init, FourBytes

LEMMA RestOfInit ==
  /\ Rest(norflash_init, 1) = norflash_init
  /\ \A m \in 1 .. 2 : /\ Rest(norflash_init, m) # <<>>
                       /\ Head(Rest(norflash_init, m)) = norflash_init[m]
                       /\ Tail(Rest(norflash_init, m)) = Rest(norflash_init, m + 1)
  /\ Rest(FourBytes, 1) = FourBytes /\ Rest(FourBytes, 5) = <<>>
  /\ \A m \in 1 .. 4 : /\ Rest(FourBytes, m) # <<>>
                       /\ Head(Rest(FourBytes, m)) = FourBytes[m]
                       /\ Tail(Rest(FourBytes, m)) = Rest(FourBytes, m + 1)
<1>1. PICK S : norflash_init \in Seq(S) /\ FourBytes \in Seq(S)
  BY InitsAre
<1>2. /\ \A m \in 1 .. 2 : m \in 1 .. Len(norflash_init)
      /\ \A m \in 1 .. 4 : m \in 1 .. Len(FourBytes)
      /\ Len(FourBytes) + 1 = 5
  BY InitsAre
<1>3. Rest(norflash_init, 1) = norflash_init /\ Rest(FourBytes, 1) = FourBytes
  BY <1>1, WholeCall
<1>4. Rest(FourBytes, 5) = <<>>
  BY <1>1, <1>2, WholeCall
<1> QED
  BY <1>1, <1>2, <1>3, <1>4, RestOfCall

\* What a transaction does before the driver is ready.
LEMMA EarlyTransaction ==
  ASSUME NEW type \in Types, NorInv(type), ~ready, Transaction,
         NEW t, t = Head(todo),
         t.cmd \notin {"PAGE_PROGRAM", "SECTOR_ERASE", "CHIP_ERASE"},
         t.cmd \in {"WRITE_STATUS_REG3", "ENABLE_4BYTE_ADDR"} => Wide(type)
  PROVE  /\ NorTypes' /\ ChipOf(type)' /\ ~ignored'
         /\ Waits(t) => Idle
         /\ flash' = Chip(t) /\ todo' = Tail(todo) /\ norflash_type' = norflash_type
         /\ Taken(t) => /\ flash'.cells = flash.cells
                        /\ flash.wel \/ t = WREN => flash'.wel
                        /\ flash'.busy = IF Writes(t) THEN t.cmd ELSE flash.busy
                        /\ t.cmd = "ENABLE_4BYTE_ADDR" => flash'.four
         /\ Tail(todo) = <<>> => ready' /\ want' = flash'.cells
         /\ Tail(todo) # <<>> => ~ready'
<1>1. /\ Waits(t) => Idle
      /\ flash' = Chip(t) /\ todo' = Tail(todo)
      /\ ignored' = (ignored \/ (ready /\ ~Waits(t) /\ ~Taken(t)))
      /\ ready' = (ready \/ Settled(Tail(todo)))
      /\ want' = IF Settled(Tail(todo)) THEN flash'.cells ELSE want
      /\ norflash_type' = norflash_type
  BY Zenon DEF Transaction
<1>2. /\ Tail(todo) = <<>> => ready' /\ want' = flash'.cells
      /\ Tail(todo) # <<>> => ~ready' /\ want' = want
      /\ ready' \in BOOLEAN
  BY <1>1 DEF Settled
<1>3. Changed(t) = flash.cells /\ Changed(t) \in Cells
  BY PlainCommand DEF NorInv, NorTypes, FlashType
<1>4. /\ flash' \in FlashType
      /\ Taken(t) => /\ flash'.cells = flash.cells
                     /\ flash.wel \/ t = WREN => flash'.wel
                     /\ flash'.busy = IF Writes(t) THEN t.cmd ELSE flash.busy
                     /\ flash'.four = (flash.four \/ t.cmd = "ENABLE_4BYTE_ADDR")
                     /\ flash'.next4 = (flash.next4 \/ t.cmd = "WRITE_STATUS_REG3")
      /\ ~Taken(t) => flash' = flash
  BY <1>1, <1>3, ChipIs DEF NorInv
<1>5. ChipOf(type)'
  BY <1>4 DEF NorInv, ChipOf
<1>6. ~ignored'
  BY <1>1 DEF NorInv
<1>7. want' \in Cells
  BY <1>2, <1>4 DEF NorInv, NorTypes, FlashType
<1>8. NorTypes'
  BY <1>2, <1>4, <1>7 DEF NorTypes
<1> QED
  BY <1>1, <1>2, <1>4, <1>5, <1>6, <1>8

LEMMA StartTransaction ==
  ASSUME NEW type \in Types, NorInv(type), ~ready, Transaction
  PROVE  NorInv(type)'
<1>1. PICK t : t = Head(todo)
  OBVIOUS
<1>2. t.cmd \notin {"MANUFACTURER_DEVICE_ID", "READ_STATUS_REG3"}
  BY <1>1, Zenon DEF Transaction
<1>3. CASE \E m \in 1 .. 2 : todo = Rest(norflash_init, m)
  <2>1. PICK m \in 1 .. 2 : todo = Rest(norflash_init, m)
    BY <1>3
  <2>2. t = norflash_init[m] /\ Tail(todo) = Rest(norflash_init, m + 1)
    BY <1>1, <2>1, RestOfInit
  <2>3. m = 1 /\ t.cmd = "RELEASE_POWER_DOWN"
    BY <1>2, <2>2, InitsAre DEF Cmd
  <2>4. m + 1 = 2 /\ 2 \in 1 .. 2
    BY <2>3
  <2>5. Tail(todo) = Rest(norflash_init, 2) /\ Tail(todo) # <<>>
    BY <2>2, <2>4, RestOfInit
  <2>6. /\ NorTypes' /\ ChipOf(type)' /\ ~ignored' /\ ~ready'
        /\ todo' = Rest(norflash_init, 2)
    BY <1>1, <2>3, <2>5, EarlyTransaction
  <2> QED
    BY <2>4, <2>6 DEF NorInv, Starting
<1>4. ~(todo = <<Cmd("READ_STATUS_REG3")>>)
  BY <1>1, <1>2 DEF Cmd
<1>5. ASSUME norflash_type = type, Wide(type),
             NEW m \in 1 .. 4, todo = Rest(FourBytes, m), FourBytesFrom(m)
      PROVE  NorInv(type)'
  <2>1. t = FourBytes[m] /\ Tail(todo) = Rest(FourBytes, m + 1)
    BY <1>1, <1>5, RestOfInit
  <2>2. /\ m = 1 => t = WREN /\ t.cmd = "WRITE_ENABLE"
        /\ m = 2 => t.cmd = "WRITE_STATUS_REG3"
        /\ m = 3 => t.cmd = "DELAY"
        /\ m = 4 => t.cmd = "ENABLE_4BYTE_ADDR"
    BY <2>1, InitsAre DEF Cmd, WREN
  <2>3. /\ NorTypes' /\ ChipOf(type)' /\ ~ignored'
        /\ Waits(t) => Idle
        /\ flash' = Chip(t) /\ todo' = Tail(todo) /\ norflash_type' = norflash_type
        /\ Taken(t) => /\ flash'.cells = flash.cells
                       /\ flash.wel \/ t = WREN => flash'.wel
                       /\ flash'.busy = IF Writes(t) THEN t.cmd ELSE flash.busy
                       /\ t.cmd = "ENABLE_4BYTE_ADDR" => flash'.four
        /\ Tail(todo) = <<>> => ready' /\ want' = flash'.cells
        /\ Tail(todo) # <<>> => ~ready'
    BY <1>1, <1>5, <2>2, EarlyTransaction
  <2>4. Taken(t)
    BY <1>5, <2>2, <2>3 DEF FourBytesFrom, Taken, Writes, Waits, Enabled, Idle
  <2>5. CASE m # 4
    <3>1. m + 1 \in 1 .. 4
      BY <2>5
    <3>2. todo' = Rest(FourBytes, m + 1) /\ Tail(todo) # <<>>
      BY <2>1, <2>3, <3>1, RestOfInit
    <3>3. FourBytesFrom(m + 1)'
      <4>1. /\ m = 1 => Enabled'
            /\ m = 2 => flash'.busy = "WRITE_STATUS_REG3"
            /\ m = 3 => Idle'
        BY <1>5, <2>2, <2>3, <2>4 DEF Writes, Enabled, Idle, Taken
      <4> QED
        BY <2>5, <4>1 DEF FourBytesFrom
    <3>4. Starting(type)'
      BY <1>5, <2>3, <3>1, <3>2, <3>3 DEF Starting
    <3> QED
      BY <2>3, <3>2, <3>4 DEF NorInv
  <2>6. CASE m = 4
    <3>1. Tail(todo) = <<>>
      BY <2>1, <2>6, RestOfInit
    <3>2. Idle' /\ flash'.four = TRUE
      BY <2>2, <2>3, <2>4, <2>6 DEF Writes, Idle, Taken, NorTypes, FlashType
    <3> QED
      BY <1>5, <2>3, <3>1, <3>2 DEF NorInv, Working, AtRest, Wide
  <2> QED
    BY <2>5, <2>6
<1> QED
  BY <1>3, <1>4, <1>5 DEF NorInv, Starting

\* What a ready driver still has to do never asks the chip for its type.
LEMMA ReadyHead ==
  ASSUME NEW type \in Types, NorInv(type), ready, todo # <<>>
  PROVE  Head(todo).cmd \notin {"MANUFACTURER_DEVICE_ID", "READ_STATUS_REG3"}
<1> DEFINE Others == {"READ_DATA", "WRITE_ENABLE", "PAGE_PROGRAM", "SECTOR_ERASE", "CHIP_ERASE", "WAIT"}
<1>1. CASE AtRest
  BY <1>1 DEF AtRest, norflash_read
<1>2. CASE Writing
  <2>1. PICK addr \in 0 .. NorSize - 1, len \in 1 .. PageSize + 1 :
          \E k \in 1 .. Len(Pieces(addr, len)), j \in 1 .. 3 : WriteFrom(addr, len, k, j)
    BY <1>2 DEF Writing
  <2>2. addr \in Nat /\ len \in Nat \ {0}
    BY NorAssumption
  <2> DEFINE n == Len(Pieces(addr, len))
             call == norflash_write_no_check(addr, len)
  <2>3. PICK k \in 1 .. n, j \in 1 .. 3 : todo = Rest(call, 3 * (k - 1) + j)
    BY <2>1, Zenon DEF WriteFrom
  <2>4. /\ \E S : call \in Seq(S)
        /\ Len(call) = 3 * n
        /\ call[3 * (k - 1) + 1] = WREN
        /\ call[3 * (k - 1) + 2] = ProgramOf(Pieces(addr, len)[k])
        /\ call[3 * (k - 1) + 3] = WAIT
    BY <2>2, WriteIs
  <2>5. n \in Nat
    BY <2>2, PiecesAre
  <2> HIDE DEF n, call
  <2>6. 3 * (k - 1) + j \in 1 .. 3 * n
    BY <2>5
  <2>7. Head(todo) = call[3 * (k - 1) + j]
    BY <2>3, <2>4, <2>6, RestOfCall
  <2>8. Head(todo) \in {WREN, WAIT, ProgramOf(Pieces(addr, len)[k])}
    BY <2>4, <2>7
  <2> QED
    BY <2>8 DEF WREN, WAIT, Cmd, ProgramOf
<1>3. CASE Erasing
  <2>1. PICK m \in 1 .. 4, addr \in Int :
          todo \in {Rest(norflash_erase_sector(addr), m), Rest(norflash_erase_chip, m)}
    <3>1. 0 \in Int /\ \A addr \in 0 .. NorSize - 1 : addr \in Int
      OBVIOUS
    <3> QED
      BY <1>3, <3>1, Zenon DEF Erasing, EraseFrom
  <2> DEFINE erase == [cmd |-> "SECTOR_ERASE", addr |-> addr]
             call  == norflash_erase_sector(addr)
  <2>2. PICK S : call \in Seq(S) /\ norflash_erase_chip \in Seq(S)
    BY ErasesAre
  <2>3. /\ Len(call) = 4 /\ Len(norflash_erase_chip) = 4
        /\ call[1] = WREN /\ call[2] = WAIT /\ call[3] = erase /\ call[4] = WAIT
        /\ norflash_erase_chip[1] = WREN /\ norflash_erase_chip[2] = WAIT
        /\ norflash_erase_chip[3] = Cmd("CHIP_ERASE") /\ norflash_erase_chip[4] = WAIT
    BY ErasesAre
  <2> HIDE DEF call
  <2>4. m \in 1 .. Len(call) /\ m \in 1 .. Len(norflash_erase_chip)
    BY <2>3
  <2>5. Head(todo) \in {call[m], norflash_erase_chip[m]}
    BY <2>1, <2>2, <2>4, RestOfCall DEF call
  <2>6. Head(todo) \in {WREN, WAIT, erase, Cmd("CHIP_ERASE")}
    BY <2>3, <2>5
  <2> QED
    BY <2>6 DEF WREN, WAIT, Cmd
<1> QED
  BY <1>1, <1>2, <1>3 DEF NorInv, Working

\* The chip tells its type, and how long its addresses are.
LEMMA ReadIdStep ==
  ASSUME NEW type \in Types, NorInv(type), ReadId(type)
  PROVE  NorInv(type)'
<1>1. /\ todo # <<>> /\ Head(todo).cmd = "MANUFACTURER_DEVICE_ID"
      /\ norflash_type' = IF Idle THEN type ELSE NoType
      /\ flash' = flash /\ ignored' = ignored
  BY DEF ReadId
<1>2. ChipOf(type)' /\ ~ignored' /\ flash' \in FlashType
  BY <1>1 DEF NorInv, ChipOf, NorTypes
<1>3. ~ready
  BY <1>1, ReadyHead
<1>4. is_known_norflash_type(norflash_type') <=> Idle
  BY <1>1 DEF is_known_norflash_type, Types, NoType
<1> DEFINE rest == IF ~Idle THEN norflash_init
                   ELSE IF Wide(norflash_type') THEN <<Cmd("READ_STATUS_REG3")>> ELSE <<>>
<1>5. /\ todo' = rest /\ ready' = Settled(rest)
      /\ want' = IF Settled(rest) THEN flash.cells ELSE want
  BY <1>4 DEF ReadId
<1>6. norflash_init # <<>> /\ <<Cmd("READ_STATUS_REG3")>> # <<>>
  BY DEF norflash_init
<1>7. NorTypes'
  BY <1>1, <1>2, <1>5 DEF NorInv, NorTypes, FlashType, Settled
<1>8. CASE ~Idle
  <2>1. todo' = norflash_init /\ ~ready'
    BY <1>5, <1>6, <1>8 DEF Settled
  <2>2. Starting(type)'
    BY <2>1, RestOfInit DEF Starting
  <2> QED
    BY <1>2, <1>7, <2>1, <2>2 DEF NorInv
<1>9. CASE Idle /\ Wide(type)
  <2>1. norflash_type' = type /\ todo' = <<Cmd("READ_STATUS_REG3")>> /\ ~ready' /\ Idle'
    BY <1>1, <1>5, <1>6, <1>9 DEF Settled, Idle
  <2>2. Starting(type)'
    BY <1>9, <2>1 DEF Starting
  <2> QED
    BY <1>2, <1>7, <2>1, <2>2 DEF NorInv
<1>10. CASE Idle /\ ~Wide(type)
  <2>1. norflash_type' = type /\ todo' = <<>> /\ ready' /\ want' = flash'.cells /\ Idle'
    BY <1>1, <1>3, <1>5, <1>10 DEF Settled, Idle
  <2>2. flash'.four = Wide(type)
    BY <1>2, <1>10 DEF ChipOf, FlashType, Wide
  <2>3. Working(type)'
    BY <2>1, <2>2 DEF Working, AtRest
  <2> QED
    BY <1>2, <1>7, <2>1, <2>3 DEF NorInv
<1> QED
  BY <1>8, <1>9, <1>10

LEMMA ReadSr3Step ==
  ASSUME NEW type \in Types, NorInv(type), ReadSr3
  PROVE  NorInv(type)'
<1>1. /\ todo # <<>> /\ Head(todo).cmd = "READ_STATUS_REG3"
      /\ todo' = IF flash.four THEN <<>> ELSE FourBytes
      /\ ready' = flash.four
      /\ want' = IF flash.four THEN flash.cells ELSE want
      /\ flash' = flash /\ norflash_type' = norflash_type /\ ignored' = ignored
  BY DEF ReadSr3
<1>2. ~ready
  BY <1>1, ReadyHead
<1>3. norflash_type = type /\ Wide(type) /\ Idle
  <2>1. ASSUME NEW m \in 1 .. 2 PROVE Head(Rest(norflash_init, m)).cmd # "READ_STATUS_REG3"
    <3>1. norflash_init[m] \in {Cmd("RELEASE_POWER_DOWN"), Cmd("MANUFACTURER_DEVICE_ID")}
      BY InitsAre
    <3>2. Head(Rest(norflash_init, m)) = norflash_init[m]
      BY RestOfInit
    <3> QED
      BY <3>1, <3>2 DEF Cmd
  <2>2. ASSUME NEW m \in 1 .. 4 PROVE Head(Rest(FourBytes, m)).cmd # "READ_STATUS_REG3"
    <3>1. FourBytes[m] \in {WREN, Cmd("WRITE_STATUS_REG3"), Cmd("DELAY"), Cmd("ENABLE_4BYTE_ADDR")}
      BY InitsAre
    <3>2. Head(Rest(FourBytes, m)) = FourBytes[m]
      BY RestOfInit
    <3> QED
      BY <3>1, <3>2 DEF Cmd, WREN
  <2> QED
    BY <1>1, <1>2, <2>1, <2>2 DEF NorInv, Starting
<1>4. NorTypes' /\ ChipOf(type)' /\ ~ignored'
  BY <1>1 DEF NorInv, NorTypes, FlashType, ChipOf
<1>5. CASE flash.four
  <2>1. ready' /\ todo' = <<>> /\ Idle' /\ want' = flash'.cells
    BY <1>1, <1>3, <1>5 DEF Idle
  <2>2. flash'.four = TRUE /\ Wide(type) = TRUE
    BY <1>1, <1>3, <1>5 DEF NorInv, NorTypes, FlashType, Wide
  <2> QED
    BY <1>1, <1>3, <1>4, <2>1, <2>2 DEF NorInv, Working, AtRest
<1>6. CASE ~flash.four
  <2>1. ~ready' /\ todo' = Rest(FourBytes, 1)
    BY <1>1, <1>6, RestOfInit
  <2>2. FourBytesFrom(1)' /\ 1 \in 1 .. 4
    BY <1>1, <1>3 DEF FourBytesFrom, Idle
  <2>3. Starting(type)'
    BY <1>1, <1>3, <2>1, <2>2 DEF Starting
  <2> QED
    BY <1>4, <2>1, <2>3 DEF NorInv
<1> QED
  BY <1>5, <1>6

-----------------------------------------------------------------------------
\* The chip comes to the end of what it was doing.
LEMMA FinishStep ==
  ASSUME NEW type \in Types, NorInv(type), Finish
  PROVE  NorInv(type)'
<1>1. /\ ~Idle /\ Idle'
      /\ flash' \in FlashType /\ flash'.cells = flash.cells
      /\ flash'.four = flash.four /\ flash'.next4 = flash.next4
      /\ UNCHANGED <<norflash_type, todo, ready, want, ignored>>
  BY DEF Finish, NorInv, NorTypes, FlashType, Idle, BusyWith
<1>2. NorTypes' /\ ChipOf(type)' /\ ~ignored'
  BY <1>1 DEF NorInv, NorTypes, ChipOf
<1>3. CASE ~ready
  <2>1. CASE \E m \in 1 .. 2 : todo = Rest(norflash_init, m)
    BY <1>1, <1>2, <1>3, <2>1 DEF NorInv, Starting
  <2>2. ASSUME norflash_type = type, Wide(type),
               NEW m \in 1 .. 4, todo = Rest(FourBytes, m), FourBytesFrom(m)
        PROVE  Starting(type)'
    <3>1. FourBytesFrom(m)'
      BY <1>1, <2>2 DEF FourBytesFrom, Enabled, Idle
    <3> QED
      BY <1>1, <2>2, <3>1 DEF Starting
  <2>3. Starting(type)'
    BY <1>1, <1>3, <2>1, <2>2 DEF NorInv, Starting
  <2> QED
    BY <1>1, <1>2, <1>3, <2>3 DEF NorInv
<1>4. CASE ready
  <2>1. Writing => Writing'
    <3> SUFFICES ASSUME NEW addr \in 0 .. NorSize - 1, NEW len \in 1 .. PageSize + 1,
                        NEW k \in 1 .. Len(Pieces(addr, len)), NEW j \in 1 .. 3,
                        WriteFrom(addr, len, k, j)
                 PROVE  Writing'
      BY DEF Writing
    <3>1. WriteFrom(addr, len, k, j)'
      BY <1>1 DEF WriteFrom, Enabled
    <3> QED
      BY <3>1 DEF Writing
  <2>2. Erasing => Erasing'
    <3>1. ASSUME NEW m \in 1 .. 4, NEW addr \in 0 .. NorSize - 1,
                 EraseFrom(norflash_erase_sector(addr), SectorErased(flash.cells, addr), m)
          PROVE  Erasing'
      <4>1. EraseFrom(norflash_erase_sector(addr), SectorErased(flash.cells, addr), m)'
        BY <1>1, <3>1 DEF EraseFrom, Enabled
      <4> QED
        BY <4>1 DEF Erasing
    <3>2. ASSUME NEW m \in 1 .. 4, EraseFrom(norflash_erase_chip, Erased, m)
          PROVE  Erasing'
      <4>1. EraseFrom(norflash_erase_chip, Erased, m)'
        BY <1>1, <3>2 DEF EraseFrom, Enabled
      <4> QED
        BY <4>1 DEF Erasing
    <3> QED
      BY <3>1, <3>2 DEF Erasing
  <2> QED
    BY <1>1, <1>2, <1>4, <2>1, <2>2 DEF NorInv, Working, AtRest
<1> QED
  BY <1>3, <1>4

-----------------------------------------------------------------------------
\* The calls.
LEMMA CallStep ==
  ASSUME NEW type \in Types, NorInv(type), NEW call, NEW cells \in Cells, Call(call, cells),
         (AtRest \/ Writing \/ Erasing)'
  PROVE  NorInv(type)'
  BY DEF NorInv, NorTypes, ChipOf, Call, Working

LEMMA ReadyToCall ==
  ASSUME NEW type \in Types, NorInv(type), ready, todo = <<>>
  PROVE  AtRest
<1>1. ASSUME NEW addr \in 0 .. NorSize - 1, NEW len \in 1 .. PageSize + 1,
             NEW k \in 1 .. Len(Pieces(addr, len)), NEW j \in 1 .. 3
      PROVE  Rest(norflash_write_no_check(addr, len), 3 * (k - 1) + j) # <<>>
  <2> DEFINE n == Len(Pieces(addr, len))
             call == norflash_write_no_check(addr, len)
  <2>1. addr \in Nat /\ len \in Nat \ {0}
    BY NorAssumption
  <2>2. n \in Nat /\ (\E S : call \in Seq(S)) /\ Len(call) = 3 * n
    BY <2>1, PiecesAre, WriteIs
  <2> HIDE DEF n, call
  <2>3. 3 * (k - 1) + j \in 1 .. 3 * n
    BY <1>1, <2>2 DEF n
  <2>4. Rest(call, 3 * (k - 1) + j) # <<>>
    BY <2>2, <2>3, RestOfCall
  <2> QED
    BY <2>4 DEF call
<1>2. ~Writing
  BY <1>1, Zenon DEF Writing, WriteFrom
<1>3. ASSUME NEW m \in 1 .. 4, NEW addr \in Int
      PROVE  Rest(norflash_erase_sector(addr), m) # <<>> /\ Rest(norflash_erase_chip, m) # <<>>
  <2> DEFINE call == norflash_erase_sector(addr)
  <2>1. /\ \E S : call \in Seq(S) /\ norflash_erase_chip \in Seq(S)
        /\ Len(call) = 4 /\ Len(norflash_erase_chip) = 4
    BY ErasesAre
  <2> HIDE DEF call
  <2>2. m \in 1 .. Len(call) /\ m \in 1 .. Len(norflash_erase_chip)
    BY <2>1
  <2>3. Rest(call, m) # <<>> /\ Rest(norflash_erase_chip, m) # <<>>
    BY <2>1, <2>2, RestOfCall
  <2> QED
    BY <2>3 DEF call
<1>4. ~Erasing
  <2>1. 0 \in Int /\ \A addr \in 0 .. NorSize - 1 : addr \in Int
    OBVIOUS
  <2> QED
    BY <1>3, <2>1, Zenon DEF Erasing, EraseFrom
<1> QED
  BY <1>2, <1>4 DEF NorInv, Working

LEMMA CallWriteStep ==
  ASSUME NEW type \in Types, NorInv(type), CallWrite
  PROVE  NorInv(type)'
<1>1. PICK addr \in 0 .. NorSize - 1, len \in 1 .. PageSize + 1 :
        Call(norflash_write_no_check(addr, len), Programmed(want, addr, addr + len))
  <2>1. PICK addr \in 0 .. NorSize - 1, len \in 1 .. PageSize + 1 :
          Call(norflash_write_no_check(addr, len),
               [a \in DOMAIN want |-> IF a \in addr .. addr + len - 1 THEN want[a] \cup {a}
                                                                      ELSE want[a]])
    BY Zenon DEF CallWrite
  <2>2. addr .. addr + len - 1 = addr .. (addr + len) - 1
    BY NorAssumption
  <2>3. Call(norflash_write_no_check(addr, len), Programmed(want, addr, addr + len))
    BY <2>1, <2>2, Zenon DEF Programmed
  <2> QED
    BY <2>3
<1> DEFINE call == norflash_write_no_check(addr, len)
           cells == Programmed(want, addr, addr + len)
<1>2. addr \in Nat /\ len \in Nat \ {0} /\ addr + len \in Int
  BY NorAssumption
<1>3. want \in Cells /\ cells \in Cells
  BY <1>2, ProgrammedCells DEF NorInv, NorTypes
<1>4. AtRest
  BY <1>1, ReadyToCall DEF Call
<1>5. todo' = call /\ want' = cells /\ flash' = flash
  BY <1>1 DEF Call
<1>6. Len(Pieces(addr, len)) \in Nat \ {0} /\ Pieces(addr, len)[1].from = addr
  BY <1>2, PiecesAre
<1>7. Rest(call, 1) = call
  BY <1>2, WriteIs, WholeCall
<1>8. 3 * (1 - 1) + 1 = 1 /\ 1 \in 1 .. 3 /\ 1 \in 1 .. Len(Pieces(addr, len))
  <2> DEFINE n == Len(Pieces(addr, len))
  <2>1. n \in Nat \ {0}
    BY <1>6
  <2> HIDE DEF n
  <2>2. 1 \in 1 .. n
    BY <2>1
  <2> QED
    BY <2>2 DEF n
<1>9. WriteFrom(addr, len, 1, 1)'
  <2>1. todo' = Rest(norflash_write_no_check(addr, len), 3 * (1 - 1) + 1)
    BY <1>5, <1>7, <1>8
  <2>2. Idle' /\ want' = Programmed(flash'.cells, Pieces(addr, len)[1].from, addr + len)
    BY <1>4, <1>5, <1>6 DEF AtRest, Idle
  <2> QED
    BY <2>1, <2>2 DEF WriteFrom
<1>10. Writing'
  BY <1>8, <1>9 DEF Writing
<1> QED
  BY <1>1, <1>3, <1>10, CallStep

LEMMA CallEraseStep ==
  ASSUME NEW type \in Types, NorInv(type), CallErase
  PROVE  NorInv(type)'
<1>1. want \in Cells /\ 1 \in 1 .. 4 /\ 0 \in Int
  BY DEF NorInv, NorTypes
<1>2. ASSUME NEW addr \in 0 .. NorSize - 1,
             Call(norflash_erase_sector(addr), SectorErased(want, addr))
      PROVE  NorInv(type)'
  <2>1. addr \in Int
    BY NorAssumption
  <2>2. AtRest
    BY <1>2, ReadyToCall DEF Call
  <2>3. Rest(norflash_erase_sector(addr), 1) = norflash_erase_sector(addr)
    BY <2>1, ErasesAre, WholeCall
  <2>4. EraseFrom(norflash_erase_sector(addr), SectorErased(flash.cells, addr), 1)'
    BY <1>2, <2>2, <2>3 DEF EraseFrom, Call, AtRest, Idle
  <2>5. Erasing'
    BY <1>1, <2>4 DEF Erasing
  <2> QED
    BY <1>1, <1>2, <2>5, SectorCells, CallStep
<1>3. ASSUME Call(norflash_erase_chip, Erased)
      PROVE  NorInv(type)'
  <2>1. AtRest
    BY <1>3, ReadyToCall DEF Call
  <2>2. Rest(norflash_erase_chip, 1) = norflash_erase_chip
    BY <1>1, ErasesAre, WholeCall
  <2>3. EraseFrom(norflash_erase_chip, Erased, 1)'
    BY <1>3, <2>1, <2>2 DEF EraseFrom, Call, AtRest, Idle
  <2>4. Erasing'
    BY <1>1, <2>3 DEF Erasing
  <2> QED
    BY <1>3, <2>4, ErasedCells, CallStep
<1> QED
  BY <1>2, <1>3 DEF CallErase

LEMMA CallReadStep ==
  ASSUME NEW type \in Types, NorInv(type), CallRead
  PROVE  NorInv(type)'
<1>1. AtRest /\ Call(norflash_read(0, 1), want) /\ want \in Cells
  BY ReadyToCall DEF CallRead, Call, NorInv, NorTypes
<1>2. AtRest'
  BY <1>1 DEF AtRest, Call, Idle
<1> QED
  BY <1>1, <1>2, CallStep

-----------------------------------------------------------------------------
\* The CPU starts anew, with the chip or without.
LEMMA RestartStep ==
  ASSUME NEW type \in Types, NorInv(type), CpuReset \/ PowerFails
  PROVE  NorInv(type)'
<1>1. /\ norflash_type' = NoType /\ todo' = norflash_init /\ ready' = FALSE
      /\ want' = want /\ ignored' = ignored
  BY DEF CpuReset, PowerFails, Restarted
<1>2. flash' \in FlashType /\ ChipOf(type)'
  <2>1. CASE CpuReset
    BY <2>1 DEF CpuReset, NorInv, NorTypes, ChipOf
  <2>2. CASE PowerFails
    <3>1. PICK n \in {flash.next4, flash.next4 /\ Idle} :
            flash' = [flash EXCEPT !.busy = "no", !.wel = FALSE, !.next4 = n, !.four = n]
      BY <2>2 DEF PowerFails
    <3>2. n \in BOOLEAN /\ (n => flash.next4) /\ "no" \in BusyWith
      BY <3>1 DEF NorInv, NorTypes, FlashType, BusyWith
    <3>3. flash' \in FlashType /\ flash'.four = n /\ flash'.next4 = n
      BY <3>1, <3>2 DEF NorInv, NorTypes, FlashType
    <3> QED
      BY <3>2, <3>3 DEF NorInv, ChipOf
  <2> QED
    BY <2>1, <2>2
<1>3. Starting(type)'
  BY <1>1, RestOfInit DEF Starting
<1> QED
  BY <1>1, <1>2, <1>3 DEF NorInv, NorTypes

-----------------------------------------------------------------------------
\* The theorem.
LEMMA NorStart ==
  ASSUME NEW type \in Types, NorInit
  PROVE  NorInv(type)
<1>1. flash \in FlashType /\ ~flash.four /\ ~flash.next4
  BY ErasedCells DEF NorInit, FlashType, BusyWith
<1>2. NorTypes /\ ChipOf(type) /\ ~ignored
  BY <1>1, ErasedCells DEF NorInit, NorTypes, ChipOf
<1>3. Starting(type)
  BY RestOfInit DEF NorInit, Starting
<1> QED
  BY <1>2, <1>3 DEF NorInit, NorInv

LEMMA NorStep ==
  ASSUME NEW type \in Types, NorInv(type), [NorNext(type)]_norVars
  PROVE  NorInv(type)'
<1>1. CASE Transaction
  <2>1. CASE ~ready
    BY <1>1, <2>1, StartTransaction
  <2>2. CASE ready
    BY <1>1, <2>2, WriteTransaction, ErasingTransaction, RestTransaction DEF NorInv, Working
  <2> QED
    BY <2>1, <2>2
<1>2. CASE UNCHANGED norVars
  BY <1>2 DEF norVars, NorInv, NorTypes, ChipOf, Starting, Working, AtRest, Writing, Erasing,
              WriteFrom, EraseFrom, FourBytesFrom, Enabled, Idle
<1> QED
  BY <1>1, <1>2, FinishStep, ReadIdStep, ReadSr3Step, CallWriteStep, CallEraseStep,
     CallReadStep, RestartStep DEF NorNext

\* After a call has returned the cells are as it promised, no command of a
\* started board is lost on a busy chip, and the board and the chip agree on the
\* length of an address: for both types of chip, pages, sectors and memories of
\* every size, and any number of calls, resets and power failures.
THEOREM CallsDoLand == \A type \in Types : NorSpec(type) => []CallsLand
<1> SUFFICES ASSUME NEW type \in Types PROVE NorSpec(type) => []CallsLand
  OBVIOUS
<1>1. NorInit => NorInv(type)
  BY NorStart
<1>2. NorInv(type) /\ [NorNext(type)]_norVars => NorInv(type)'
  BY NorStep
<1>3. NorInv(type) => CallsLand
  <2> SUFFICES ASSUME NorInv(type) PROVE CallsLand
    OBVIOUS
  <2>1. ready /\ todo = <<>> => flash.cells = want
    BY ReadyToCall DEF AtRest
  <2> QED
    BY <2>1 DEF CallsLand, NorInv, Working
<1> QED
  BY <1>1, <1>2, <1>3, PTL DEF NorSpec
=============================================================================
