------------------------------ MODULE Checksums ------------------------------
(***************************************************************************)
(* The checksums of hb_check.c.  A word is the set of its bits that are 1, *)
(* bit 0 the lowest: exclusive or is then the symmetric difference.  The   *)
(* boards go through a stream byte by byte and bit by bit, without a       *)
(* table; the programmer takes it in one piece and uses one.               *)
(***************************************************************************)
EXTENDS CrcTables, SequencesExt, FiniteSetsExt

CONSTANTS TestBytes, MaxFed

VARIABLES
  stream,   \* the bytes fed
  crc8, crc16, crc32  \* running values: hb_crc8_byte, hb_crc16_byte, slow_update

crcVars == <<stream, crc8, crc16, crc32>>

\* Byte sums count modulo this.
Base == 256

-----------------------------------------------------------------------------
Bits(width) == 0 .. width - 1
Zero == {}
Ones(width) == Bits(width)

Xor(a, b) == (a \ b) \cup (b \ a)
Left(w, width) == {k + 1 : k \in w} \cap Bits(width)
LeftBy8(w, width) == {k + 8 : k \in w} \cap Bits(width)
RightBy7(w) == {k - 7 : k \in {j \in w : j >= 7}}  \* mutant
RightBy8(w) == {k - 8 : k \in {j \in w : j >= 8}}
LowByte(w) == w \cap Bits(8)
HighByte(w, width) == {k - (width - 8) : k \in w \ Bits(width - 8)}

\* bitrev8, 16 and 32 exchange halves, then halves of halves, down to bits.
Exchange(w, n) == {IF (k \div n) % 2 = 1 THEN k - n ELSE k + n : k \in w}
bitrev8(b)  == Exchange(Exchange(Exchange(b, 4), 2), 1)
bitrev16(b) == Exchange(bitrev8(b), 8)
bitrev32(b) == Exchange(bitrev16(b), 16)
bitrev(w, width) == CASE width = 8  -> bitrev8(w)
                      [] width = 16 -> bitrev16(w)
                      [] width = 32 -> bitrev32(w)

RevIf(flag, w, width) == IF flag THEN bitrev(w, width) ELSE w

-----------------------------------------------------------------------------
\* A code: its width and the parameters of hb_crc*_generic.
Crc8  == [width |-> 8, poly |-> {0, 1, 2}, init |-> Zero,
          ref_in |-> FALSE, ref_out |-> FALSE, xor_out |-> Zero]
Crc16 == [width |-> 16, poly |-> {0, 2, 15}, init |-> Zero,
          ref_in |-> TRUE, ref_out |-> TRUE, xor_out |-> Zero]
Crc32 == [width |-> 32, poly |-> {0, 1, 2, 4, 5, 7, 8, 10, 11, 12, 16, 22, 23, 26},
          init |-> Ones(32), ref_in |-> TRUE, ref_out |-> TRUE, xor_out |-> Ones(32)]

\* One bit of the data goes in at the top.  Mutant: it does not.
ShiftedOnly(crc, bit, code) ==
  IF code.width - 1 \in crc THEN Xor(Left(crc, code.width), code.poly) ELSE Left(crc, code.width)

Shifted(crc, bit, code) ==
  LET top == (code.width - 1 \in crc) # bit
  IN  IF top THEN Xor(Left(crc, code.width), code.poly) ELSE Left(crc, code.width)

Downwards == [i \in 1 .. 8 |-> 8 - i]

ByteIn(crc, c, code) ==
  FoldLeft(LAMBDA r, j : Shifted(r, j \in c, code), crc, Downwards)

Generic(code, dat) ==
  LET sum == FoldLeft(LAMBDA r, c : ByteIn(r, RevIf(code.ref_in, c, 8), code), code.init, dat)
  IN  Xor(RevIf(code.ref_out, sum, code.width), code.xor_out)

\* hb_crc*_generic_gen_table.
gen_table(code, ref) ==
  [i \in SUBSET Bits(8) |->
     LET start == {k + code.width - 8 : k \in RevIf(ref, i, 8)}
     IN  RevIf(ref, FoldLeft(LAMBDA r, j : Shifted(r, FALSE, code), start, Downwards), code.width)]

crc16_plain == gen_table(Crc16, FALSE)
crc32_reflected == gen_table(Crc32, TRUE)

\* The literal tables, by the bits of the index and of the entry.
Number(w) == SumSet({2 ^ k : k \in w})
Half(n) == {k \in Bits(16) : (n \div 2 ^ k) % 2 = 1}
Entry32(i) ==
  LET n == Number(i)
  IN  Half(crc32_halves[2 * n + 2]) \cup {k + 16 : k \in Half(crc32_halves[2 * n + 1])}

\* Mutant: one entry of the 256 is wrong in one bit.
OneEntryWrong ==
  [i \in SUBSET Bits(8) |-> IF Number(i) = 200 THEN Xor(Entry32(i), {9}) ELSE Entry32(i)]

crc8_table  == [i \in SUBSET Bits(8) |-> Half(crc8_entries[Number(i) + 1])]
crc16_table == [i \in SUBSET Bits(8) |-> Half(crc16_entries[Number(i) + 1])]
crc32_table == [i \in SUBSET Bits(8) |-> Entry32(i)]

\* hb_crc*_generic_table.
TableByte(crc, c, code, table) ==
  IF code.ref_in THEN Xor(RightBy8(crc), table[Xor(LowByte(crc), c)])
  ELSE Xor(LeftBy8(crc, code.width), table[Xor(HighByte(crc, code.width), c)])

GenericTable(code, table, dat) ==
  LET sum == FoldLeft(LAMBDA r, c : TableByte(r, c, code, table),
                      RevIf(code.ref_in, code.init, code.width), dat)
  IN  Xor(RevIf(code.ref_out # code.ref_in, sum, code.width), code.xor_out)

-----------------------------------------------------------------------------
\* The functions by name.
hb_crc8_byte(crc, c)  == crc8_table[Xor(crc, c)]
hb_crc16_byte(crc, c) == Xor(RightBy8(crc), crc16_table[LowByte(Xor(crc, c))])
hb_crc32_byte(crc, c) == Xor(LeftBy8(crc, 32), crc32_table[Xor(HighByte(crc, 32), bitrev8(c))])

hb_crc32(dat) ==
  Xor(bitrev32(FoldLeft(hb_crc32_byte, Ones(32), dat)), Ones(32))

\* Mutant: the byte is not reflected.
update1_raw(crc, c) == ByteIn(crc, c, Crc32)

hb_crc32_slow_update1(crc, c) == ByteIn(crc, bitrev8(c), Crc32)
hb_crc32_slow_update(crc, dat) == FoldLeft(hb_crc32_slow_update1, crc, dat)
hb_crc32_slow_finalize(crc) == Xor(bitrev32(crc), Ones(32))

\* Sums of bytes: hb_sum puts the sum of the others into the last.
hb_calc_sum(dat) == FoldLeft(LAMBDA a, c : (a + Number(c)) % Base, 0, dat)
hb_chksum(dat, last) == hb_calc_sum(dat) = last

-----------------------------------------------------------------------------
CrcInit ==
  /\ stream = <<>> /\ crc8 = Zero /\ crc16 = Zero
  /\ crc32 = Ones(32)

\* The stream goes on by a byte, or by a block.
Feed(dat) ==
  /\ Len(stream) + Len(dat) <= MaxFed
  /\ stream' = stream \o dat
  /\ crc8'  = FoldLeft(hb_crc8_byte, crc8, dat)
  /\ crc16' = FoldLeft(hb_crc16_byte, crc16, dat)
  /\ crc32' = hb_crc32_slow_update(crc32, dat)

CrcNext == \E dat \in TupleOf(TestBytes, 1) \cup TupleOf(TestBytes, 2) : Feed(dat)

-----------------------------------------------------------------------------
\* The boards' CRC without a table, continued from block to block, is the
\* programmer's with one over the whole.
SlowIsTable == hb_crc32_slow_finalize(crc32) = hb_crc32(stream)

\* Two codes nobody uses: reflected on one side only, with other initial values.
OddCodes == {[Crc16 EXCEPT !.ref_out = FALSE, !.init = {0, 3}, !.xor_out = {1}],
             [Crc16 EXCEPT !.ref_in = FALSE, !.init = {15}]}

\* What is computed with the tables is what their generators and the plain
\* division give, for every width.
TablesAreDivision ==
  /\ crc8 = Generic(Crc8, stream)   /\ crc8 = GenericTable(Crc8, crc8_table, stream)
  /\ crc16 = Generic(Crc16, stream) /\ crc16 = GenericTable(Crc16, crc16_table, stream)
  /\ hb_crc32(stream) = Generic(Crc32, stream)
  /\ hb_crc32(stream) = GenericTable(Crc32, crc32_reflected, stream)
  /\ \A code \in OddCodes :
       Generic(code, stream) =
         GenericTable(code, IF code.ref_in THEN crc16_table ELSE crc16_plain, stream)

\* Every entry of the literal tables: it is the one the generator makes, and it
\* gives the division's value for the stream of that one byte.  (Asked once.)
EntriesAreDivision ==
  stream = <<>> =>
    /\ crc8_table = gen_table(Crc8, FALSE)
    /\ crc16_table = gen_table(Crc16, TRUE)
    /\ crc32_table = gen_table(Crc32, FALSE)
    /\ \A c \in SUBSET Bits(8) : /\ hb_crc8_byte(Zero, c) = Generic(Crc8, <<c>>)
                                 /\ hb_crc16_byte(Zero, c) = Generic(Crc16, <<c>>)
                                 /\ hb_crc32(<<c>>) = Generic(Crc32, <<c>>)

\* A stream with one byte altered has another CRC of every width, and another
\* sum.
AlteredIsSeen ==
  \A i \in DOMAIN stream, c \in TestBytes :
    c # stream[i] =>
      LET other == [stream EXCEPT ![i] = c]
      IN  /\ hb_crc32(other) # hb_crc32(stream)
          /\ Generic(Crc16, other) # crc16 /\ Generic(Crc8, other) # crc8
          /\ ~hb_chksum(other, hb_calc_sum(stream))

\* The boards' checksums are the programmer's, both are the codes they are
\* meant to be, with tables right in every entry, and none misses a byte that
\* was altered.
ChecksumsAgree == EntriesAreDivision /\ SlowIsTable /\ TablesAreDivision /\ AlteredIsSeen
=============================================================================
