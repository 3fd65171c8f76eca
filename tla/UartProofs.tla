----------------------------- MODULE UartProofs -----------------------------
(***************************************************************************)
(* Theorems about sending, for buffers and packets of every size.          *)
(***************************************************************************)
EXTENDS UartTx, RingProofs

-----------------------------------------------------------------------------
\* The line is busy exactly while the UART has a byte or has just sent one.
BusyInv ==
  /\ tx_busy \in BOOLEAN /\ TI \in BOOLEAN /\ sending \in BOOLEAN
  /\ tx_busy <=> (TI \/ sending)
  /\ ~(TI /\ sending)
  /\ ringbuf_readable(r, w) # 0 => tx_busy

LEMMA BusyInit == Init => BusyInv
<1>1. Init => ringbuf_readable(r, w) = 0
  BY DEF Init, ringbuf_readable
<1> QED
  BY <1>1, Zenon DEF Init, BusyInv

LEMMA BusyStep == BusyInv /\ [Next]_vars => BusyInv'
<1> SUFFICES ASSUME BusyInv, [Next]_vars PROVE BusyInv'
  OBVIOUS
<1> USE DEF BusyInv
<1>1. CASE uart1_send_tx
  BY <1>1 DEF uart1_send_tx, ring, uart, ringbuf_readable
<1>2. CASE WaitForRoom
  BY <1>2 DEF WaitForRoom, ring, uart, ringbuf_readable
<1>3. CASE GiveUp
  BY <1>3 DEF GiveUp, ring, uart, ringbuf_readable
<1>4. CASE Enqueue
  <2>1. CASE LineBusy
    BY <1>4, <2>1 DEF Enqueue, LineBusy
  <2>2. CASE ~LineBusy
    BY <1>4, <2>2 DEF Enqueue, LineBusy
  <2> QED
    BY <2>1, <2>2
<1>5. CASE uart1_isr
  <2>1. CASE MoreToSend
    BY <1>5, <2>1 DEF uart1_isr, MoreToSend
  <2>2. CASE ~MoreToSend
    BY <1>5, <2>2 DEF uart1_isr, MoreToSend, ringbuf_readable
  <2> QED
    BY <2>1, <2>2
<1>6. CASE ByteLeaves
  BY <1>6 DEF ByteLeaves, ring, ringbuf_readable
<1>7. CASE UNCHANGED vars
  BY <1>7 DEF vars, ring, uart, ringbuf_readable
<1> QED
  BY <1>1, <1>2, <1>3, <1>4, <1>5, <1>6, <1>7 DEF Next, uart1_send_raw

\* Bytes in the buffer are never forgotten (uart1_isr clears tx_busy only
\* when there are none, uart1_send_raw starts the line when it is idle).
THEOREM BytesNotForgotten == Spec => []NeverStalls
<1>1. BusyInv => NeverStalls
  BY DEF BusyInv, NeverStalls
<1> QED
  BY <1>1, BusyInit, BusyStep, PTL DEF Spec

\* The UART is never given a byte while it sends another.
THEOREM NoByteOverwritten == Spec => OneAtATime
<1>1. BusyInv /\ [Next]_vars => [SBUF' # SBUF => ~sending /\ ~TI']_vars
  <2> SUFFICES ASSUME BusyInv, Next, SBUF' # SBUF PROVE ~sending /\ ~TI'
    BY DEF vars, uart
  <2> USE DEF BusyInv
  <2>1. CASE Enqueue
    BY <2>1 DEF Enqueue, LineBusy
  <2>2. CASE uart1_isr
    BY <2>2 DEF uart1_isr
  <2>3. ~uart1_send_tx /\ ~WaitForRoom /\ ~GiveUp /\ ~ByteLeaves
    BY DEF uart1_send_tx, WaitForRoom, GiveUp, ByteLeaves, uart
  <2> QED
    BY <2>1, <2>2, <2>3 DEF Next, uart1_send_raw
<1> QED
  BY <1>1, BusyInit, BusyStep, PTL DEF Spec, OneAtATime

-----------------------------------------------------------------------------
\* Between the last evaluation of the wait loop and the check, the index the
\* handler owns stands where it was seen, or one byte further.
RoomInv ==
  /\ r \in Indices /\ w \in Indices /\ seen \in Indices
  /\ moved \in BOOLEAN /\ n \in Nat
  /\ pc \in {"away", "wait", "check"}
  /\ pc # "away" => n # 0
  /\ pc # "away" => r = seen \/ (~moved /\ seen # w /\ r = Bump(seen))
  /\ pc = "check" /\ ~moved => n <= ringbuf_writable(seen, w)

LEMMA RoomInit == Init => RoomInv
<1>1. 0 \in Indices
  BY RingAssumption DEF Indices
<1>2. Init => moved \in BOOLEAN /\ pc = "away"
  BY Zenon DEF Init
<1>3. Init => n \in Nat /\ r = 0 /\ w = 0 /\ seen = 0
  BY DEF Init
<1> QED
  BY <1>1, <1>2, <1>3 DEF RoomInv

LEMMA PacketLength ==
  ASSUME n \in Nat \ {0}
  PROVE  Len(Packet) = n /\ Len(Tail(Packet)) = n - 1
<1> DEFINE S == [packet : {sent}, at : 1 .. n, of : {n}]
<1>1. Packet \in Seq(S) /\ Len(Packet) = n
  BY DEF Packet
<1> QED
  BY <1>1

\* Whatever the torn reads yielded, a packet that passes the check fits.
LEMMA CheckedFits == RoomInv => NeverCut
<1> SUFFICES ASSUME RoomInv, pc = "check", NEW room \in Evaluations, room >= n
             PROVE  n <= ringbuf_writable(r, w)
  BY DEF NeverCut, HasRoom
<1> USE DEF RoomInv
<1>1. CASE moved
  BY <1>1 DEF Evaluations, ringbuf_writable
<1>2. CASE ~moved /\ r = seen
  BY <1>2
<1>3. CASE ~moved /\ r # seen
  <2>1. ringbuf_writable(r, w) = ringbuf_writable(seen, w) + 1
    BY <1>3, TakingMakesRoom
  <2>2. ringbuf_writable(seen, w) \in Int
    BY RingAssumption, WritableValue DEF Indices
  <2> QED
    BY <1>3, <2>1, <2>2
<1> QED
  BY <1>1, <1>2, <1>3

LEMMA RoomStep == RoomInv /\ [Next]_vars => RoomInv'
<1> SUFFICES ASSUME RoomInv, [Next]_vars PROVE RoomInv'
  OBVIOUS
<1> USE DEF RoomInv
<1>1. CASE uart1_send_tx
  <2>1. n' \in Nat \ {0}
    BY <1>1, RingAssumption, TxAssumption DEF uart1_send_tx
  <2>2. r' = r /\ w' = w /\ seen' = r /\ pc' = "wait" /\ moved' = FALSE
    BY <1>1 DEF uart1_send_tx, ring
  <2>3. moved' \in BOOLEAN
    BY <2>2
  <2> QED
    BY <2>1, <2>2, <2>3
<1>2. CASE WaitForRoom
  <2>1. PICK room \in Evaluations :
          IF room < n THEN pc' = "wait" /\ moved' = FALSE
          ELSE pc' = "check" /\ moved' = (seen # r)
    BY <1>2 DEF WaitForRoom
  <2>2. pc = "wait" /\ seen' = r /\ r' = r /\ w' = w /\ n' = n
    BY <1>2 DEF WaitForRoom, ring
  <2>3. CASE room < n
    BY <2>1, <2>2, <2>3
  <2>4. CASE ~(room < n)
    <3>1. pc' = "check" /\ moved' = (seen # r)
      BY <2>1, <2>4
    <3>2. ASSUME ~moved' PROVE n <= ringbuf_writable(r, w)
      <4>1. seen = r
        BY <3>1, <3>2
      <4>2. room = ringbuf_writable(r, w)
        BY <4>1, SteadyIndexReadWhole DEF Evaluations, ringbuf_writable
      <4>3. room \in Int
        BY <4>2, RingAssumption, WritableValue DEF Indices
      <4> QED
        BY <2>4, <4>2, <4>3
    <3>3. moved' \in BOOLEAN
      BY <3>1
    <3>4. ringbuf_writable(seen', w') = ringbuf_writable(r, w)
      BY <2>2
    <3> QED
      BY <2>2, <3>1, <3>2, <3>3, <3>4
  <2> QED
    BY <2>3, <2>4
<1>3. CASE GiveUp
  BY <1>3 DEF GiveUp, ring
<1>4. CASE Enqueue
  <2>1. n <= ringbuf_writable(r, w)
    BY <1>4, CheckedFits DEF Enqueue, NeverCut
  <2>2. PICK k \in {n, n - 1} : w' = Behind(w, k)
    <3> DEFINE bytes == IF LineBusy THEN Packet ELSE Tail(Packet)
    <3>1. n \in Nat \ {0}
      BY <1>4 DEF Enqueue
    <3>2. Len(bytes) \in {n, n - 1}
      BY <3>1, PacketLength
    <3>3. ringbuf_writable(r, w) \in Int
      BY RingAssumption, WritableValue DEF Indices
    <3>4. Fitting(r, w, bytes) = bytes
      BY <2>1, <3>1, <3>2, <3>3 DEF Fitting
    <3> QED
      BY <1>4, <3>2, <3>4 DEF Enqueue
  <2>3. w' \in Indices
    BY <1>4, <2>2, RingAssumption, RemainderInRange DEF Enqueue, Behind, Indices
  <2> QED
    BY <1>4, <2>3 DEF Enqueue
<1>5. CASE uart1_isr
  <2>1. UNCHANGED <<w, pc, seen, moved, n>>
    BY <1>5 DEF uart1_isr, main
  <2>2. CASE MoreToSend
    <3>1. r # w
      BY <2>2 DEF MoreToSend, ringbuf_readable, Indices
    <3>2. r' = Bump(r)
      BY <1>5, <2>2 DEF uart1_isr
    <3>3. pc # "away" => ~moved /\ seen = r
      BY <1>5 DEF uart1_isr
    <3>4. r' \in Indices
      BY <3>1, <3>2, TakingMakesRoom
    <3> QED
      BY <2>1, <3>1, <3>2, <3>3, <3>4
  <2>3. CASE ~MoreToSend
    BY <1>5, <2>1, <2>3 DEF uart1_isr
  <2> QED
    BY <2>2, <2>3
<1>6. CASE ByteLeaves
  BY <1>6 DEF ByteLeaves, ring, main
<1>7. CASE UNCHANGED vars
  BY <1>7 DEF vars, ring, main
<1> QED
  BY <1>1, <1>2, <1>3, <1>4, <1>5, <1>6, <1>7 DEF Next, uart1_send_raw

\* uart1_send_raw never lets part of a packet into the buffer: ringbuf_write_n
\* finds the room its check saw, whatever halves of the index it read.
THEOREM PacketsNotCut == Spec => []NeverCut
  BY RoomInit, RoomStep, CheckedFits, PTL DEF Spec

-----------------------------------------------------------------------------
\* Octets that may be on their way: those of packets, and what buffer and
\* UART hold before the first.
Octets == [packet : Nat, at : Nat, of : Nat]

\* Whole packets, in the order of their numbers.
WholeIn(s) ==
  \A k \in 1 .. Len(s) :
    LET b == s[k]
    IN  /\ b.at = 1 => IF k = 1 THEN TRUE ELSE
                         /\ s[k - 1].at = s[k - 1].of
                         /\ s[k - 1].packet < b.packet
        /\ b.at > 1 => k > 1 /\ s[k - 1] = [b EXCEPT !.at = @ - 1]
        /\ b.at < b.of => k < Len(s)

UpTo(s, m) ==
  \A k \in 1 .. Len(s) : s[k].packet <= m /\ 1 <= s[k].at /\ s[k].at <= s[k].of

\* The packets that have left, are leaving or will; none is of the packet that
\* uart1_send_raw still holds.
StreamInv ==
  /\ tx_buf \in [Indices -> Octets] /\ SBUF \in Octets /\ line \in Seq(Octets)
  /\ sent \in Nat
  /\ pc # "away" => sent # 0
  /\ WholeIn(Stream)
  /\ UpTo(Stream, IF pc = "away" THEN sent ELSE sent - 1)

\* The three parts of the stream.
Leaving == IF sending THEN <<SBUF>> ELSE <<>>

LEMMA StreamParts ==
  ASSUME StreamInv, RoomInv
  PROVE  /\ Leaving \in Seq(Octets)
         /\ Contents(tx_buf, r, w) \in Seq(Octets)
         /\ line \o Leaving \in Seq(Octets)
         /\ Stream = (line \o Leaving) \o Contents(tx_buf, r, w)
         /\ Stream \in Seq(Octets)
<1>1. Leaving \in Seq(Octets)
  BY DEF StreamInv, Leaving
<1>2. Contents(tx_buf, r, w) \in Seq(Octets)
  BY ContentsLength DEF StreamInv, RoomInv
<1>3. line \o Leaving \in Seq(Octets)
  BY <1>1, ConcatProperties DEF StreamInv
<1>4. Stream = (line \o Leaving) \o Contents(tx_buf, r, w)
  BY Zenon DEF Stream, Leaving
<1>5. Stream \in Seq(Octets)
  BY <1>2, <1>3, <1>4, ConcatProperties
<1> QED
  BY <1>1, <1>2, <1>3, <1>4, <1>5

LEMMA PacketOctets ==
  ASSUME sent \in Nat, n \in Nat \ {0}
  PROVE  /\ Packet \in Seq(Octets) /\ Len(Packet) = n /\ Packet # <<>>
         /\ \A k \in 1 .. n : Packet[k] = [packet |-> sent, at |-> k, of |-> n]
         /\ Head(Packet) \in Octets /\ Tail(Packet) \in Seq(Octets)
         /\ <<Head(Packet)>> \o Tail(Packet) = Packet
<1>1. \A k \in 1 .. n : [packet |-> sent, at |-> k, of |-> n] \in Octets
  BY DEF Octets
<1>2. Packet \in Seq(Octets) /\ Len(Packet) = n
  BY <1>1 DEF Packet
<1>3. Packet # <<>>
  BY <1>2
<1>4. \A k \in 1 .. n : Packet[k] = [packet |-> sent, at |-> k, of |-> n]
  BY DEF Packet
<1>5. /\ Head(Packet) \in Octets /\ Tail(Packet) \in Seq(Octets)
      /\ <<Head(Packet)>> \o Tail(Packet) = Packet
  BY <1>2, <1>3, HeadAndTail
<1> QED
  BY <1>2, <1>3, <1>4, <1>5

\* A packet behind whole packets of smaller numbers.
LEMMA PacketBehind ==
  ASSUME sent \in Nat \ {0}, n \in Nat \ {0},
         NEW s \in Seq(Octets), WholeIn(s), UpTo(s, sent - 1)
  PROVE  WholeIn(s \o Packet) /\ UpTo(s \o Packet, sent)
<1> DEFINE l == Len(s)
           t == s \o Packet
<1>1. /\ Packet \in Seq(Octets) /\ Len(Packet) = n
      /\ \A k \in 1 .. n : Packet[k] = [packet |-> sent, at |-> k, of |-> n]
  BY PacketOctets
<1>2. l \in Nat /\ Len(t) = l + n
  BY <1>1, ConcatProperties, LenProperties
<1>3. \A k \in 1 .. l : t[k] = s[k]
  BY <1>1, ConcatProperties, LenProperties
<1>4. \A k \in 1 .. n : t[l + k] = [packet |-> sent, at |-> k, of |-> n]
  <2> TAKE k \in 1 .. n
  <2>1. /\ l + k \in 1 .. l + n /\ ~(l + k <= l) /\ (l + k) - l = k
    BY <1>2
  <2>2. t[l + k] = Packet[(l + k) - l]
    BY <1>1, <2>1, ConcatProperties
  <2> QED
    BY <1>1, <2>1, <2>2
<1>5. \A k \in 1 .. l : s[k] \in Octets
  BY ElementOfSeq
<1>6. \A k \in 1 .. l + n : k > l => k - l \in 1 .. n /\ l + (k - l) = k
  BY <1>2
<1>7. \A k \in 1 .. l + n :
        k > l => t[k] = [packet |-> sent, at |-> k - l, of |-> n]
  <2> TAKE k \in 1 .. l + n
  <2> HAVE k > l
  <2>1. k - l \in 1 .. n /\ l + (k - l) = k
    BY <1>6
  <2>2. t[l + (k - l)] = [packet |-> sent, at |-> k - l, of |-> n]
    BY <1>4, <2>1
  <2> QED
    BY <2>1, <2>2
<1>8. UpTo(t, sent)
  <2> SUFFICES ASSUME NEW k \in 1 .. l + n
               PROVE  t[k].packet <= sent /\ 1 <= t[k].at /\ t[k].at <= t[k].of
    BY <1>2 DEF UpTo
  <2>1. CASE k <= l
    <3>1. k \in 1 .. l
      BY <1>2, <2>1
    <3>2. t[k] = s[k] /\ s[k] \in Octets
      BY <1>3, <1>5, <3>1
    <3>3. s[k].packet <= sent - 1 /\ 1 <= s[k].at /\ s[k].at <= s[k].of
      BY <3>1 DEF UpTo
    <3>4. s[k].packet \in Nat
      BY <3>2 DEF Octets
    <3> HIDE DEF t, l
    <3> QED
      BY <3>2, <3>3, <3>4
  <2>2. CASE k > l
    <3>1. t[k] = [packet |-> sent, at |-> k - l, of |-> n]
      BY <1>7, <2>2
    <3>2. k - l \in 1 .. n
      BY <1>6, <2>2
    <3> HIDE DEF t, l
    <3> QED
      BY <3>1, <3>2
  <2> QED
    BY <1>2, <2>1, <2>2
<1>9. WholeIn(t)
  <2>0. ~(l < l)
    BY <1>2
  <2> USE <1>2
  <2> HIDE DEF t
  <2> SUFFICES ASSUME NEW k \in 1 .. Len(t)
               PROVE  /\ t[k].at = 1 => IF k = 1 THEN TRUE ELSE
                                          /\ t[k - 1].at = t[k - 1].of
                                          /\ t[k - 1].packet < t[k].packet
                      /\ t[k].at > 1 => k > 1 /\ t[k - 1] = [t[k] EXCEPT !.at = @ - 1]
                      /\ t[k].at < t[k].of => k < Len(t)
    BY Zenon DEF WholeIn
  <2>1. CASE k <= l
    <3>1. k \in 1 .. l /\ (k # 1 => k - 1 \in 1 .. l)
      BY <1>2, <2>1
    <3>2. t[k] = s[k] /\ (k # 1 => t[k - 1] = s[k - 1])
      BY <1>3, <3>1
    <3>3. /\ s[k].at = 1 => IF k = 1 THEN TRUE ELSE
                              /\ s[k - 1].at = s[k - 1].of
                              /\ s[k - 1].packet < s[k].packet
          /\ s[k].at > 1 => k > 1 /\ s[k - 1] = [s[k] EXCEPT !.at = @ - 1]
          /\ s[k].at < s[k].of => k < l
      BY <3>1 DEF WholeIn
    <3> HIDE DEF t, l
    <3> QED
      BY <1>2, <3>1, <3>2, <3>3
  <2>2. CASE k = l + 1
    <3>1. t[k] = [packet |-> sent, at |-> 1, of |-> n]
      <4>1. k > l /\ k - l = 1
        BY <1>2, <2>2
      <4> QED
        BY <1>7, <4>1
    <3>2. 1 < n => k < l + n
      BY <1>2, <2>2
    <3>3. ASSUME k # 1
          PROVE  t[k - 1].at = t[k - 1].of /\ t[k - 1].packet < sent
      <4>1. l \in 1 .. l /\ k - 1 = l
        BY <1>2, <2>2, <3>3
      <4>2. t[k - 1] = s[l]
        BY <1>3, <4>1
      <4>3. s[l].packet \in Nat /\ s[l].at \in Nat /\ s[l].of \in Nat
        BY <1>5, <4>1 DEF Octets
      <4>4. s[l].packet <= sent - 1 /\ s[l].at <= s[l].of
        BY <4>1 DEF UpTo
      <4> HIDE DEF t
      <4>5. ~(s[l].at < s[l].of)
        BY <2>0, <4>1 DEF WholeIn
      <4> HIDE DEF t, l
      <4> QED
        BY <4>2, <4>3, <4>4, <4>5
    <3> HIDE DEF t, l
    <3> QED
      BY <3>1, <3>2, <3>3
  <2>3. CASE k > l + 1
    <3>1. t[k] = [packet |-> sent, at |-> k - l, of |-> n]
      BY <1>2, <1>7, <2>3
    <3>2. t[k - 1] = [packet |-> sent, at |-> (k - 1) - l, of |-> n]
      <4>1. k - 1 \in 1 .. l + n /\ k - 1 > l
        BY <1>2, <2>3
      <4> QED
        BY <1>7, <4>1
    <3>3. k - l > 1 /\ k > 1 /\ (k - 1) - l = (k - l) - 1 /\ (k - l < n => k < l + n)
      BY <1>2, <2>3
    <3>4. [t[k] EXCEPT !.at = @ - 1] = [packet |-> sent, at |-> (k - l) - 1, of |-> n]
      <4> HIDE DEF t, l
      <4> QED
        BY <3>1
    <3> HIDE DEF t, l
    <3> QED
      BY <1>2, <3>1, <3>2, <3>3, <3>4
  <2> QED
    <3> HIDE DEF l
    <3>1. k <= l \/ k = l + 1 \/ k > l + 1
      BY <1>2
    <3> QED
      BY <2>1, <2>2, <2>3, <3>1
<1> QED
  BY <1>8, <1>9

LEMMA StreamInit == Init => StreamInv
<1> SUFFICES ASSUME Init PROVE StreamInv
  OBVIOUS
<1>1. NoByte \in Octets
  BY DEF NoByte, Octets
<1>2. tx_buf \in [Indices -> Octets] /\ SBUF \in Octets
  BY <1>1 DEF Init
<1>3. line = <<>> /\ ~sending /\ sent \in Nat /\ pc = "away"
  BY DEF Init
<1>4. Contents(tx_buf, r, w) \in Seq(Octets) /\ Len(Contents(tx_buf, r, w)) = 0
  <2>1. r \in Indices /\ w \in Indices /\ r = w
    BY RingAssumption DEF Init, Indices
  <2>2. ringbuf_readable(r, w) = 0
    BY <2>1, ReadableValue
  <2> QED
    BY <1>2, <2>1, <2>2, ContentsLength
<1>5. Contents(tx_buf, r, w) = <<>>
  BY <1>4, EmptySeq
<1>6. Stream = <<>>
  BY <1>3, <1>5 DEF Stream
<1>7. Len(Stream) = 0 /\ line \in Seq(Octets)
  BY <1>3, <1>6, EmptySeq
<1>8. WholeIn(Stream)
  BY <1>7 DEF WholeIn
<1>9. UpTo(Stream, IF pc = "away" THEN sent ELSE sent - 1)
  BY <1>7 DEF UpTo
<1> QED
  BY <1>2, <1>3, <1>7, <1>8, <1>9 DEF StreamInv

LEMMA LargerLimit ==
  ASSUME NEW s \in Seq(Octets), NEW a \in Int, NEW b \in Int, a <= b, UpTo(s, a)
  PROVE  UpTo(s, b)
<1> SUFFICES ASSUME NEW k \in 1 .. Len(s) PROVE s[k].packet <= b
  BY DEF UpTo
<1>1. s[k] \in Octets
  BY ElementOfSeq
<1>2. s[k].packet \in Nat
  BY <1>1 DEF Octets
<1>3. s[k].packet <= a
  BY DEF UpTo
<1> QED
  BY <1>2, <1>3

\* The whole packet is put behind the stream.
LEMMA EnqueueAppends ==
  ASSUME StreamInv, RoomInv, BusyInv, Enqueue
  PROVE  /\ tx_buf' \in [Indices -> Octets] /\ SBUF' \in Octets
         /\ Stream' = Stream \o Packet
<1> DEFINE C == Contents(tx_buf, r, w)
           bytes == IF LineBusy THEN Packet ELSE Tail(Packet)
<1>1. pc = "check" /\ n \in Nat \ {0} /\ sent \in Nat
  BY DEF Enqueue, RoomInv, StreamInv
<1>2. n <= ringbuf_writable(r, w)
  BY CheckedFits DEF Enqueue, NeverCut
<1>3. /\ Packet \in Seq(Octets) /\ Len(Packet) = n /\ Packet # <<>>
      /\ Head(Packet) \in Octets /\ Tail(Packet) \in Seq(Octets)
      /\ <<Head(Packet)>> \o Tail(Packet) = Packet
  BY <1>1, PacketOctets
<1>4. bytes \in Seq(Octets) /\ Len(bytes) \in {n, n - 1}
  BY <1>1, <1>3, PacketLength
<1>5. ringbuf_writable(r, w) \in Int
  BY RingAssumption, WritableValue DEF RoomInv, Indices
<1>6. Len(bytes) <= ringbuf_writable(r, w)
  BY <1>1, <1>2, <1>4, <1>5
<1>7. Fitting(r, w, bytes) = bytes
  BY <1>6 DEF Fitting
<1>8. tx_buf' = WrittenAt(tx_buf, w, bytes) /\ w' = Behind(w, Len(bytes)) /\ r' = r /\ line' = line
  BY <1>7 DEF Enqueue
<1>9. /\ tx_buf' \in [Indices -> Octets]
      /\ Contents(tx_buf', r', w') = C \o bytes
  <2> HIDE DEF bytes
  <2>1. tx_buf \in [Indices -> Octets] /\ r \in Indices /\ w \in Indices
    BY DEF StreamInv, RoomInv
  <2>2. /\ WrittenAt(tx_buf, w, bytes) \in [Indices -> Octets]
        /\ Contents(WrittenAt(tx_buf, w, bytes), r, Behind(w, Len(bytes))) = C \o bytes
    BY <1>4, <1>6, <2>1, ContentsPut
  <2> QED
    BY <1>8, <2>2, Zenon
<1>10. /\ Leaving \in Seq(Octets) /\ C \in Seq(Octets) /\ line \o Leaving \in Seq(Octets)
       /\ Stream = (line \o Leaving) \o C
  BY StreamParts
<1>11. Stream' = (line' \o Leaving') \o Contents(tx_buf', r', w')
  BY Zenon DEF Stream, Leaving
<1>12. CASE LineBusy
  <2>1. UNCHANGED <<SBUF, sending>>
    BY <1>12 DEF Enqueue
  <2>2. Leaving' = Leaving
    BY <2>1 DEF Leaving
  <2>3. Stream' = (line \o Leaving) \o (C \o Packet)
    BY <1>8, <1>9, <1>11, <1>12, <2>2
  <2>4. (line \o Leaving) \o (C \o Packet) = Stream \o Packet
    <3> DEFINE A == line \o Leaving
    <3>1. A \in Seq(Octets) /\ C \in Seq(Octets) /\ Packet \in Seq(Octets) /\ Stream = A \o C
      BY <1>3, <1>10
    <3> HIDE DEF A, C
    <3>2. (A \o C) \o Packet = A \o (C \o Packet)
      BY <3>1, ConcatAssociative
    <3> QED
      BY <3>1, <3>2, Zenon DEF A
  <2>5. SBUF' \in Octets
    BY <2>1 DEF StreamInv
  <2> QED
    BY <1>9, <2>3, <2>4, <2>5
<1>13. CASE ~LineBusy
  <2>1. SBUF' = Head(Packet) /\ sending'
    BY <1>13 DEF Enqueue
  <2>2. ~sending /\ ringbuf_readable(r, w) = 0
    BY <1>13 DEF LineBusy, BusyInv
  <2>3. C = <<>>
    <3>1. C \in Seq(Octets) /\ Len(C) = 0
      BY <2>2, ContentsLength DEF StreamInv, RoomInv
    <3> HIDE DEF C
    <3> QED
      BY <3>1, EmptySeq
  <2>4. Leaving = <<>> /\ Leaving' = <<Head(Packet)>>
    BY <2>1, <2>2 DEF Leaving
  <2>5. line \in Seq(Octets) /\ <<Head(Packet)>> \in Seq(Octets)
    BY <1>3 DEF StreamInv
  <2>6. Stream = line
    <3> HIDE DEF C
    <3> QED
      BY <1>10, <2>3, <2>4, <2>5, ConcatEmptySeq
  <2>7. Contents(tx_buf', r', w') = Tail(Packet)
    <3> HIDE DEF C
    <3> QED
      BY <1>3, <1>9, <1>13, <2>3, ConcatEmptySeq
  <2>8. Stream' = (line \o <<Head(Packet)>>) \o Tail(Packet)
    BY <1>8, <1>11, <2>4, <2>7
  <2>9. (line \o <<Head(Packet)>>) \o Tail(Packet) = line \o Packet
    <3>1. (line \o <<Head(Packet)>>) \o Tail(Packet) = line \o (<<Head(Packet)>> \o Tail(Packet))
      BY <1>3, <2>5, ConcatAssociative
    <3> QED
      BY <1>3, <3>1
  <2> QED
    BY <1>3, <1>9, <2>1, <2>6, <2>8, <2>9
<1> QED
  BY <1>12, <1>13

\* The handler and the UART move bytes along the stream.
LEMMA IsrKeepsStream ==
  ASSUME StreamInv, RoomInv, BusyInv, uart1_isr
  PROVE  SBUF' \in Octets /\ Stream' = Stream
<1>1. UNCHANGED <<tx_buf, w, line>> /\ ~sending
  BY DEF uart1_isr, BusyInv
<1>2. Stream' = (line' \o Leaving') \o Contents(tx_buf', r', w')
  BY Zenon DEF Stream, Leaving
<1>3. /\ Leaving \in Seq(Octets) /\ Contents(tx_buf, r, w) \in Seq(Octets)
      /\ Stream = (line \o Leaving) \o Contents(tx_buf, r, w)
  BY StreamParts
<1>4. Leaving = <<>> /\ line \in Seq(Octets)
  BY <1>1 DEF Leaving, StreamInv
<1>5. CASE ~MoreToSend
  <2>1. UNCHANGED <<r, SBUF, sending>>
    BY <1>5 DEF uart1_isr
  <2>2. Leaving' = Leaving
    BY <2>1 DEF Leaving
  <2> QED
    BY <1>1, <1>2, <1>3, <2>1, <2>2 DEF StreamInv
<1>6. CASE MoreToSend
  <2> DEFINE C == Contents(tx_buf, r, w)
  <2>1. SBUF' = tx_buf[r] /\ sending' /\ r' = Bump(r)
    BY <1>6 DEF uart1_isr
  <2>2. tx_buf \in [Indices -> Octets] /\ r \in Indices /\ w \in Indices /\ r # w
    BY <1>6, ReadableValue DEF StreamInv, RoomInv, MoreToSend
  <2>3. /\ C # <<>> /\ Head(C) = tx_buf[r]
        /\ Tail(C) = Contents(tx_buf, Bump(r), w)
    BY <2>2, ContentsTaken
  <2>4. Leaving' = <<Head(C)>>
    BY <2>1, <2>3 DEF Leaving
  <2>5. Stream' = (line \o <<Head(C)>>) \o Tail(C)
    BY <1>1, <1>2, <2>1, <2>3, <2>4
  <2> HIDE DEF C
  <2>6. /\ Head(C) \in Octets /\ Tail(C) \in Seq(Octets)
        /\ <<Head(C)>> \o Tail(C) = C
    <3>1. C \in Seq(Octets)
      BY <1>3 DEF C
    <3> QED
      BY <2>3, <3>1, HeadAndTail
  <2>7. <<Head(C)>> \in Seq(Octets)
    BY <2>6
  <2>8. Stream' = line \o C
    <3>1. (line \o <<Head(C)>>) \o Tail(C) = line \o (<<Head(C)>> \o Tail(C))
      BY <1>4, <2>6, <2>7, ConcatAssociative
    <3> QED
      BY <2>5, <2>6, <3>1
  <2>9. Stream = line \o C
    BY <1>3, <1>4, ConcatEmptySeq DEF C
  <2> QED
    BY <2>1, <2>2, <2>8, <2>9
<1> QED
  BY <1>5, <1>6

LEMMA LeavingKeepsStream ==
  ASSUME StreamInv, RoomInv, ByteLeaves
  PROVE  line' \in Seq(Octets) /\ Stream' = Stream
<1>1. /\ UNCHANGED <<tx_buf, r, w, SBUF>>
      /\ sending /\ ~sending' /\ line' = Append(line, SBUF)
  BY DEF ByteLeaves, ring
<1>2. Stream' = (line' \o Leaving') \o Contents(tx_buf', r', w')
  BY Zenon DEF Stream, Leaving
<1>3. Stream = (line \o Leaving) \o Contents(tx_buf, r, w)
  BY StreamParts
<1>4. Leaving = <<SBUF>> /\ Leaving' = <<>>
  BY <1>1 DEF Leaving
<1>5. line \in Seq(Octets) /\ SBUF \in Octets
  BY DEF StreamInv
<1>6. line' \in Seq(Octets) /\ line' = line \o <<SBUF>>
  BY <1>1, <1>5, AppendIsConcat
<1>7. line' \o Leaving' = line'
  BY <1>4, <1>6, ConcatEmptySeq
<1> QED
  BY <1>1, <1>2, <1>3, <1>4, <1>6, <1>7

LEMMA StreamStep ==
  StreamInv /\ RoomInv /\ BusyInv /\ [Next]_vars => StreamInv'
<1> SUFFICES ASSUME StreamInv, RoomInv, BusyInv, [Next]_vars PROVE StreamInv'
  OBVIOUS
<1>1. Stream \in Seq(Octets)
  BY StreamParts
<1> DEFINE limit == IF pc = "away" THEN sent ELSE sent - 1
<1>2. limit \in Int /\ limit <= sent /\ UpTo(Stream, limit) /\ WholeIn(Stream)
  BY DEF StreamInv
\* Steps that move nothing, and do not lower the limit.
<1>3. ASSUME UNCHANGED <<ring, SBUF, sending, line>>, sent' \in Nat,
             pc' # "away" => sent' # 0, limit' \in Int, limit <= limit'
      PROVE  StreamInv'
  <2>1. Stream' = Stream
    BY <1>3, Zenon DEF Stream, ring
  <2>2. UpTo(Stream, limit')
    <3> HIDE DEF limit
    <3> QED
      BY <1>1, <1>2, <1>3, LargerLimit
  <2>3. tx_buf' = tx_buf /\ SBUF' = SBUF /\ line' = line
    BY <1>3 DEF ring
  <2>4. UpTo(Stream', limit') /\ WholeIn(Stream')
    BY <1>2, <2>1, <2>2
  <2> QED
    BY <1>3, <2>3, <2>4, Zenon DEF StreamInv
<1>4. CASE uart1_send_tx
  <2>1. UNCHANGED <<ring, SBUF, sending, line>> /\ sent' = sent + 1 /\ pc = "away" /\ pc' = "wait"
    BY <1>4 DEF uart1_send_tx, uart
  <2>2. sent \in Nat
    BY DEF StreamInv
  <2>3. limit' = sent /\ limit = sent
    BY <2>1, <2>2
  <2> QED
    BY <1>3, <2>1, <2>2, <2>3
<1>5. CASE WaitForRoom
  <2>1. UNCHANGED <<ring, SBUF, sending, line, sent>> /\ pc = "wait" /\ pc' \in {"wait", "check"}
    BY <1>5 DEF WaitForRoom, uart
  <2>2. sent \in Nat /\ sent # 0
    BY <2>1 DEF StreamInv
  <2>3. limit' = limit
    BY <2>1
  <2> QED
    BY <1>2, <1>3, <2>1, <2>2, <2>3
<1>6. CASE GiveUp
  <2>1. UNCHANGED <<ring, SBUF, sending, line, sent>> /\ pc' = "away"
    BY <1>6 DEF GiveUp, uart
  <2>2. sent \in Nat
    BY DEF StreamInv
  <2>3. limit' = sent
    BY <2>1
  <2> QED
    BY <1>2, <1>3, <2>1, <2>2, <2>3
<1>7. CASE Enqueue
  <2>1. pc = "check" /\ pc' = "away" /\ sent' = sent /\ line' = line /\ n \in Nat \ {0}
    BY <1>7 DEF Enqueue, RoomInv
  <2>2. sent \in Nat \ {0} /\ limit = sent - 1 /\ limit' = sent
    BY <2>1 DEF StreamInv
  <2>3. /\ tx_buf' \in [Indices -> Octets] /\ SBUF' \in Octets
        /\ Stream' = Stream \o Packet
    BY <1>7, EnqueueAppends
  <2>4. UpTo(Stream, sent - 1)
    BY <1>2, <2>2
  <2>5. WholeIn(Stream \o Packet) /\ UpTo(Stream \o Packet, sent)
    BY <1>1, <1>2, <2>1, <2>2, <2>4, PacketBehind
  <2>6. line' \in Seq(Octets) /\ sent' \in Nat
    BY <2>1, <2>2 DEF StreamInv
  <2> QED
    BY <2>1, <2>2, <2>3, <2>5, <2>6 DEF StreamInv
<1>8. CASE uart1_isr
  <2>1. UNCHANGED <<tx_buf, line, pc, sent>>
    BY <1>8 DEF uart1_isr, main
  <2>2. SBUF' \in Octets /\ Stream' = Stream
    BY <1>8, IsrKeepsStream
  <2> QED
    BY <2>1, <2>2 DEF StreamInv
<1>9. CASE ByteLeaves
  <2>1. UNCHANGED <<tx_buf, SBUF, pc, sent>>
    BY <1>9 DEF ByteLeaves, ring, main
  <2>2. line' \in Seq(Octets) /\ Stream' = Stream
    BY <1>9, LeavingKeepsStream
  <2> QED
    BY <2>1, <2>2 DEF StreamInv
<1>10. CASE UNCHANGED vars
  <2>1. UNCHANGED <<ring, SBUF, sending, line, sent, pc>>
    BY <1>10 DEF vars, uart, main
  <2>2. sent \in Nat /\ (pc # "away" => sent # 0) /\ limit' = limit
    BY <2>1 DEF StreamInv
  <2> QED
    BY <1>2, <1>3, <2>1, <2>2
<1> QED
  BY <1>4, <1>5, <1>6, <1>7, <1>8, <1>9, <1>10 DEF Next, uart1_send_raw

\* Packets go out whole and one after the other, or not at all: what
\* uart1_send_raw puts into the buffer or starts directly, and what uart1_isr
\* takes out, makes one stream of whole packets, in buffers of every size.
THEOREM PacketsStayWhole == Spec => []WholePackets
<1>1. StreamInv => WholePackets
  BY Zenon DEF StreamInv, WholeIn, WholePackets
<1> QED
  BY <1>1, BusyInit, BusyStep, RoomInit, RoomStep, StreamInit, StreamStep, PTL DEF Spec
=============================================================================
