----------------------------- MODULE PacketLink -----------------------------
(***************************************************************************)
(* The serial line in one direction at a time, byte by byte: packets in    *)
(* the frames of protocol.h, a line that loses and alters bytes, and the   *)
(* parser at its end.  The boards parse "isp" packets in their main loops, *)
(* four bytes a turn, and give a packet up when the 16-bit turn counters   *)
(* meet again; the programmer parses "ldr" packets as the bytes come.      *)
(* A board's receive buffer is part of the line here (UartRx shows that it *)
(* is a queue).                                                            *)
(***************************************************************************)
EXTENDS Integers, SequencesExt

CONSTANTS
  ByteBase,     \* values of a byte (256); lengths and sums wrap at it
  HeadByte, EndByte,  \* '#' or '@', and '$'
  LoopTurns,    \* values of the turn counters (65536)
  IspBodies, LdrBodies,  \* bodies of the packets sent
  NoiseBytes,   \* what an altered byte becomes
  MaxSent,      \* packets sent
  MaxNoise      \* bound on the bytes lost or altered and the packets cut short

Byte == 0 .. ByteBase - 1

VARIABLES
  kind,     \* the direction
  ctx,      \* the parser: its state, running length and sum, and rx
  wire,     \* bytes sent and not yet parsed, each with the packet it begins
  fed,      \* bytes parsed, the whole history
  owed,     \* history: a packet that comes whole and whose head met a ready
            \* parser, and how many bytes had been parsed before
  handled,  \* packets the parser has found
  since,    \* rx_timeout - rx_time
  noise     \* faults of the line so far

linkVars == <<kind, ctx, wire, owed, noise, fed, handled, since>>

-----------------------------------------------------------------------------
\* Frames.  The sum makes all bytes of a packet add up to zero.
SumOf(bytes) == FoldLeft(LAMBDA a, b : (a + b) % ByteBase, 0, bytes)

Closed(bytes) == Append(bytes \o <<EndByte>>, (-SumOf(bytes \o <<EndByte>>)) % ByteBase)

\* A request: the body is the command, two bytes nobody has explained, the
\* address, a size, and the data.
Request(cmd, addr, size, dat) == <<cmd, 0, 0>> \o addr \o <<size>> \o dat

\* Most requests have neither; those for the NOR flash have an address of four
\* bytes in front of the data, where the size does not count it.
Bare(cmd) == Request(cmd, <<0, 0>>, 0, <<>>)
ForNorFlash(cmd, addr, size, dat) == Request(cmd, <<0, 0>>, size, addr \o dat)

IspPacket(body) == Closed(<<HeadByte, Len(body)>> \o body)

LdrPacket(body) == Closed(<<HeadByte, Head(body), Len(body) - 1>> \o Tail(body))

Packets == IF kind = "isp" THEN {IspPacket(body) : body \in IspBodies}
           ELSE {LdrPacket(body) : body \in LdrBodies}

-----------------------------------------------------------------------------
\* The parsers.  rx has one byte less than a byte has values; the cell behind
\* it belongs to whatever the linker puts there.  round is history: the length
\* has gone round over the frame's own head.
Fresh == [state |-> "IDLE", len |-> 0, sum |-> 0, ok |-> FALSE, round |-> FALSE,
          rx |-> [x \in Byte |-> 0]]

\* Mutant: the sum of the frame before is kept.
StartedOnOldSum(p, b, state) ==
  [p EXCEPT !.state = state, !.len = 1, !.sum = (@ + b) % ByteBase,
            !.rx = [Fresh.rx EXCEPT ![0] = b]]

\* What an older frame left in rx is not read again; it counts as 0 here.
Started(p, b, state) ==
  [p EXCEPT !.state = state, !.len = 1, !.sum = b, !.round = FALSE,
            !.rx = [Fresh.rx EXCEPT ![0] = b]]

CheckHead(p, b, state) ==
  IF b = HeadByte THEN Started(p, b, state) ELSE [p EXCEPT !.state = "IDLE"]

\* Mutant: the byte that does not fit is dropped.
DropsByte(p, b, state) == [p EXCEPT !.state = "IDLE"]

HeadAgain(p, b, state) == CheckHead(p, b, state)

Stored(p, b, state) ==
  [p EXCEPT !.state = state, !.rx[p.len] = b,
            !.len = (@ + 1) % ByteBase, !.sum = (@ + b) % ByteBase,
            !.round = @ \/ p.len = ByteBase - 1]

\* The sum of an int and a byte is not cut to eight bits: it may never be met.
UntilLength(p, more, header) ==
  IF p.rx[header - 1] + header = p.len THEN [p EXCEPT !.state = "END"]
  ELSE [p EXCEPT !.state = more]

\* The last two bytes of a frame.
ParseEnd(p, b, state) ==
  IF p.state = "END"
  THEN IF b = EndByte THEN [p EXCEPT !.state = "CHECKSUM", !.sum = (@ + b) % ByteBase]
       ELSE HeadAgain(p, b, state)
  ELSE IF b = (-p.sum) % ByteBase THEN [p EXCEPT !.state = "IDLE", !.ok = TRUE]
       ELSE HeadAgain(p, b, state)

isp_parse(p, b) ==
  CASE p.state = "IDLE"   -> CheckHead(p, b, "LENGTH")
    [] p.state = "LENGTH" -> Stored(p, b, "BODY")
    [] p.state = "BODY"   -> UntilLength(Stored(p, b, "BODY"), "BODY", 2)
    [] OTHER              -> ParseEnd(p, b, "LENGTH")

ldr_parse(p, b) ==
  CASE p.state = "IDLE"   -> CheckHead(p, b, "STATUS")
    [] p.state = "STATUS" -> Stored(p, b, "SIZE")
    [] p.state = "SIZE"   -> Stored(p, b, IF b = 0 THEN "END" ELSE "DATA")
    [] p.state = "DATA"   -> UntilLength(Stored(p, b, "DATA"), "DATA", 3)
    [] OTHER              -> ParseEnd(p, b, "STATUS")

\* The packet in rx, when the parser says that there is one.
Found(p) ==
  LET length == IF kind = "isp" THEN p.rx[1] + 2 ELSE p.rx[2] + 3
  IN  Closed([x \in 1 .. length |-> p.rx[x - 1]])

-----------------------------------------------------------------------------
\* What the other side sends: packets, of which some lose their last bytes.
OnLine(item) ==
  [x \in 1 .. Len(item.packet) - item.cut |->
     [b |-> item.packet[x],
      begins |-> IF x = 1 /\ item.cut = 0 THEN item.packet ELSE <<>>]]

BytesOf(items) == [x \in 1 .. Len(items) |-> items[x].b]

Nothing == [packet |-> <<>>, at |-> 0]

LinkInit ==
  /\ kind \in {"isp", "ldr"}
  /\ \E packets \in [1 .. MaxSent -> Packets] :
       \E cuts \in [1 .. MaxSent -> 0 .. Max({Len(packet) : packet \in Packets})] :
         /\ \A x \in 1 .. MaxSent : cuts[x] < Len(packets[x])
         /\ noise = Cardinality({x \in 1 .. MaxSent : cuts[x] > 0})
         /\ wire = FlattenSeq([x \in 1 .. MaxSent |->
                                OnLine([packet |-> packets[x], cut |-> cuts[x]])])
  /\ noise <= MaxNoise
  /\ ctx = Fresh /\ fed = <<>> /\ owed = Nothing /\ handled = <<>> /\ since = 0

\* The next byte to come is lost or altered; a packet half parsed is spoilt.
Disturb ==
  /\ wire # <<>> /\ noise < MaxNoise /\ noise' = noise + 1
  /\ \/ wire' = Tail(wire)
     \/ \E b \in NoiseBytes \ {Head(wire).b} :
          wire' = <<[b |-> b, begins |-> <<>>]>> \o Tail(wire)
  /\ owed' = Nothing
  /\ UNCHANGED <<kind, ctx, fed, handled, since>>

\* A parser takes the byte for the head of a packet if it is one.
Ready(p, b) ==
  \/ p.state = "IDLE"
  \/ p.state = "END" /\ b # EndByte
  \/ p.state = "CHECKSUM" /\ b # (-p.sum) % ByteBase

\* One more of the bytes that have come, with what is owed behind it; p is what
\* the parser makes of it.
Fed(a, item, p) ==
  LET begun == IF item.begins # <<>> /\ Ready(a.p, item.b)
               THEN [packet |-> item.begins, at |-> Len(fed) + a.taken] ELSE a.owed
  IN  [p     |-> p, taken |-> a.taken + 1,
       owed  |-> IF p.ok /\ Found(p) = begun.packet THEN Nothing ELSE begun]

NoneTaken == [p |-> [ctx EXCEPT !.ok = FALSE], taken |-> 0, owed |-> owed]

\* At most so many bytes of those that have come, up to the end of a packet.
Parsed(n) ==
  FoldLeft(LAMBDA a, item : IF a.p.ok THEN a ELSE Fed(a, item, isp_parse(a.p, item.b)),
           NoneTaken, SubSeq(wire, 1, n))

HandsOn(p) == handled' = IF p.ok THEN Append(handled, Found(p)) ELSE handled

\* Mutant: the counters are never compared.
NeverMeets(turns) == FALSE

Meets(turns) == turns = 0

\* A turn of a board's main loop.
LoopTurn ==
  /\ kind = "isp"
  /\ \E n \in 0 .. 4 \cap 0 .. Len(wire) :
       LET r     == Parsed(n)
           turns == ((IF r.p.ok THEN 0 ELSE since) + 1) % LoopTurns
       IN  /\ wire' = SubSeq(wire, r.taken + 1, Len(wire))
           /\ fed' = fed \o BytesOf(SubSeq(wire, 1, r.taken))
           /\ HandsOn(r.p)
           /\ since' = turns
           /\ ctx' = IF Meets(turns) THEN [r.p EXCEPT !.state = "IDLE"] ELSE r.p
           /\ owed' = IF Meets(turns) THEN Nothing ELSE r.owed
  /\ UNCHANGED <<kind, noise>>

\* slot_serial_on_read, one turn of its loop.
ReadByte ==
  /\ kind = "ldr" /\ wire # <<>>
  /\ LET r == Fed(NoneTaken, Head(wire), ldr_parse(NoneTaken.p, Head(wire).b))
     IN  ctx' = r.p /\ owed' = r.owed /\ HandsOn(r.p)
  /\ wire' = Tail(wire) /\ fed' = Append(fed, Head(wire).b)
  /\ UNCHANGED <<kind, since, noise>>

LinkNext == Disturb \/ LoopTurn \/ ReadByte

LinkSpec == LinkInit /\ [][LinkNext]_linkVars /\ WF_linkVars(LoopTurn)

-----------------------------------------------------------------------------

\* Whatever the line does, what a parser hands on is a frame that has just
\* come, byte for byte, up to the sum that closes it; when the length has gone
\* round, only up to its end byte: the sum closes all that went round, too.
FoundCameIn ==
  [][ handled' # handled =>
        LET frame == Last(handled')
        IN  \/ IsSuffix(frame, fed')
            \/ ctx'.round /\ IsSuffix(Front(frame), Front(fed')) ]_linkVars

\* A packet that comes whole and whose head meets a parser ready for one is
\* found, with its last byte, whatever came before: also when that head ends a
\* frame that was cut short before its end byte or its sum.  (Where more is
\* missing the parser takes the next packet for the rest of the body.)
WholeAreFound ==
  owed # Nothing => Len(fed) < owed.at + Len(owed.packet)

\* A board's parser is in a packet; a length it can never reach holds it up for
\* one round of the counters.
Parsing == kind = "isp" /\ ctx.state # "IDLE"

\* main.c, "a whole turn and no new data: this packet has timed out": no packet
\* is given up while its bytes come.
TimeoutMeansSilence ==
  [][ (owed # Nothing /\ owed' = Nothing /\ handled' = handled /\ noise' = noise)
        => fed' = fed ]_linkVars
=============================================================================
