------------------------------- MODULE UartTx -------------------------------
(***************************************************************************)
(* Sending, in both programs: the main loop puts whole packets into txrb,  *)
(* the interrupt handler takes byte after byte out of it.                  *)
(*                                                                         *)
(* A byte takes about two thousand clocks on the line, an evaluation of    *)
(* ringbuf_writable some twenty: between the start of the last evaluation  *)
(* of the wait loop and the end of the check behind it the handler runs at *)
(* most once.  For the same reason the wait loop, which turns 32767 times, *)
(* ends because there is room, and not because it has turned often enough. *)
(***************************************************************************)
EXTENDS RingBuf

CONSTANTS
  MaxPackets,  \* bound on the packets sent
  Lengths      \* their lengths

ASSUME TxAssumption == MaxPackets \in Nat /\ Lengths \subseteq 1 .. RbSize - 1

VARIABLES
  tx_buf, r, w,  \* txrb
  tx_busy,
  TI,            \* the transmit interrupt is pending
  SBUF, sending, \* the byte last given to the UART; whether it is on its way
  line,          \* bytes that have left the UART
  pc,            \* where the main loop is in uart1_send_raw
  sent, n,       \* packets so far, and the length of the last one
  seen, moved    \* r when the evaluation began; whether it has moved since

ring == <<tx_buf, r, w>>
uart == <<tx_busy, TI, SBUF, sending, line>>
main == <<pc, sent, n, seen, moved>>
vars == <<ring, uart, main>>

\* A byte is known by its packet, its place in it, and the packet's length.
Bytes == [packet : 1 .. MaxPackets, at : 1 .. RbSize - 1, of : Lengths]
NoByte == [packet |-> 0, at |-> 0, of |-> 0]

Packet == [k \in 1 .. n |-> [packet |-> sent, at |-> k, of |-> n]]

TypeOK ==
  /\ tx_buf \in [Indices -> Bytes \cup {NoByte}]
  /\ r \in Indices /\ w \in Indices
  /\ tx_busy \in BOOLEAN /\ TI \in BOOLEAN /\ sending \in BOOLEAN
  /\ SBUF \in Bytes \cup {NoByte}
  /\ line \in Seq(Bytes)
  /\ pc \in {"away", "wait", "check"}
  /\ sent \in 0 .. MaxPackets /\ n \in Lengths \cup {0}
  /\ seen \in Indices /\ moved \in BOOLEAN

Init ==
  /\ tx_buf = [x \in Indices |-> NoByte]
  /\ r = 0 /\ w = 0
  /\ tx_busy = FALSE /\ TI = FALSE /\ SBUF = NoByte /\ sending = FALSE /\ line = <<>>
  /\ pc = "away" /\ sent = 0 /\ n = 0 /\ seen = 0 /\ moved = FALSE

-----------------------------------------------------------------------------
uart1_send_tx ==
  /\ pc = "away" /\ sent < MaxPackets
  /\ sent' = sent + 1 /\ n' \in Lengths
  /\ pc' = "wait" /\ seen' = r /\ moved' = FALSE
  /\ UNCHANGED <<ring, uart>>

\* What an evaluation of ringbuf_writable may yield.
Evaluations ==
  {WritableSeen(w, v[1], v[2]) : v \in IF moved THEN {<<r, r>>} ELSE TwoViews(seen, r)}

WaitForRoom ==
  /\ pc = "wait"
  /\ \E room \in Evaluations :
       IF room < n THEN pc' = "wait" /\ moved' = FALSE
       ELSE pc' = "check" /\ moved' = (seen # r)
  /\ seen' = r
  /\ UNCHANGED <<ring, uart, sent, n>>

\* Mutant: the check behind the loop is left out.
AlwaysRoom(room) == TRUE

HasRoom(room) == room >= n

\* Mutant: bytes in the buffer alone make the line busy.
BusyIfReadable == ringbuf_readable(r, w) # 0

LineBusy == tx_busy \/ ringbuf_readable(r, w) # 0

GiveUp ==
  /\ pc = "check"
  /\ \E room \in Evaluations : ~HasRoom(room)
  /\ pc' = "away" /\ UNCHANGED <<ring, uart, sent, n, seen, moved>>

\* With the interrupt disabled: into the buffer, or the first byte straight
\* into the UART.
Enqueue ==
  /\ pc = "check"
  /\ \E room \in Evaluations : HasRoom(room)
  /\ LET queued == Fitting(r, w, IF LineBusy THEN Packet ELSE Tail(Packet))
     IN  /\ tx_buf' = WrittenAt(tx_buf, w, queued)
         /\ w' = Behind(w, Len(queued))
  /\ IF LineBusy THEN UNCHANGED <<tx_busy, SBUF, sending>>
     ELSE tx_busy' = TRUE /\ SBUF' = Head(Packet) /\ sending' = TRUE
  /\ pc' = "away"
  /\ UNCHANGED <<r, TI, line, sent, n, seen, moved>>

uart1_send_raw == WaitForRoom \/ GiveUp \/ Enqueue

-----------------------------------------------------------------------------
\* The second half of uart1_isr.
\* Mutant: the last byte stays.
KeepsLast == ringbuf_readable(r, w) > 1

MoreToSend == ringbuf_readable(r, w) # 0

uart1_isr ==
  /\ TI
  /\ pc \in {"wait", "check"} => ~moved /\ seen = r
  /\ TI' = FALSE
  /\ IF MoreToSend
     THEN SBUF' = tx_buf[r] /\ sending' = TRUE /\ r' = Bump(r) /\ UNCHANGED tx_busy
     ELSE tx_busy' = FALSE /\ UNCHANGED <<r, SBUF, sending>>
  /\ UNCHANGED <<tx_buf, w, line, main>>

\* The UART has sent a byte.
ByteLeaves ==
  /\ sending
  /\ line' = Append(line, SBUF) /\ sending' = FALSE /\ TI' = TRUE
  /\ UNCHANGED <<ring, tx_busy, SBUF, main>>

Next == uart1_send_tx \/ uart1_send_raw \/ uart1_isr \/ ByteLeaves

Spec == Init /\ [][Next]_vars

\* The UART sends, interrupts are served, uart1_send_raw goes on.
FairSpec == Spec /\ WF_vars(uart1_isr) /\ WF_vars(ByteLeaves) /\ WF_vars(uart1_send_raw)

-----------------------------------------------------------------------------
\* Everything that has left, is leaving, or will.
Stream ==
  line \o (IF sending THEN <<SBUF>> ELSE <<>>) \o Contents(tx_buf, r, w)

\* Whatever the torn reads yield, a packet that passes the check fits: the
\* handler's index, moving, only makes room.
NeverCut ==
  pc = "check" =>
    \A room \in Evaluations : HasRoom(room) => n <= ringbuf_writable(r, w)

\* Packets go out whole and one after the other, or not at all: a torn read
\* of the handler's index never lets half a packet into the buffer, and a
\* packet started directly never runs into one still on the line.
WholePackets ==
  \A k \in 1 .. Len(Stream) :
    LET b == Stream[k]
    IN  /\ b.at = 1 => IF k = 1 THEN TRUE ELSE
                         /\ Stream[k - 1].at = Stream[k - 1].of
                         /\ Stream[k - 1].packet < b.packet
        /\ b.at > 1 => k > 1 /\ Stream[k - 1] = [b EXCEPT !.at = @ - 1]
        /\ b.at < b.of => k < Len(Stream)

\* Bytes in the buffer are never forgotten: while there are any, the line is
\* busy, and while it is busy an interrupt is due.
NeverStalls ==
  /\ ringbuf_readable(r, w) # 0 => tx_busy
  /\ tx_busy => (TI \/ sending)

\* The UART gets a byte only when it has sent the one before, and there is
\* never a second interrupt to be told of while one is pending.
OneAtATime == [][SBUF' # SBUF => ~sending /\ ~TI']_vars

\* A send is under way; it ends without the loop's counter.
Sends == pc # "away"
=============================================================================
