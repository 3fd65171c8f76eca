------------------------------ MODULE RxProofs ------------------------------
(***************************************************************************)
(* The receive buffer is a queue of bytes, for buffers of every size, until*)
(* the interrupt handler skips a byte inside a read; and a PC that keeps   *)
(* pace never brings it to that.                                           *)
(***************************************************************************)
EXTENDS UartRx, RingProofs

\* A PC that keeps pace leaves room for one low half of the index: while the
\* carry into the high half is not yet written, the interrupt handler takes
\* the buffer for that much fuller than it is.  Where an index has no high
\* half the loop over the size hides the difference.
Margin == IF LowBase = RbSize THEN 1 ELSE LowBase

LeavesMargin == Ahead \in Nat /\ Ahead + Margin < RbSize

States == {"away", "poll", "fetch", "load", "store", "carry", "wrap"}

\* What the main loop knows in each of its steps, as long as the handler has
\* not skipped inside a read: in a poll the handler has added to what there is
\* to read, and if it has skipped for that the buffer is full; and once the
\* byte is taken one of its bytes goes where there is room, in the carry too.
RxIndex ==
  /\ w \in Indices /\ r \in Nat
  /\ pc \in States
  /\ pc \notin {"carry", "wrap"} => r \in Indices
  /\ pc = "poll" => (seen_r # r \/ seen_w # w => r # w)
  /\ pc = "fetch" => seen_r = r
  /\ pc \in {"fetch", "load", "store"} => r # w
  /\ pc = "store" => low = r % LowBase
  /\ pc = "carry" => r + LowBase <= RbSize /\ (hit \/ w # r + LowBase - 1)
  /\ pc = "wrap" => r <= RbSize

RxBuffer == rx_buf \in [Indices -> Nat] /\ came \in Nat /\ read \in Seq(Nat)

\* A PC that keeps pace is never further ahead than it is allowed to be.
InBuffer == ringbuf_readable(MovedIndex, w)

RxPace == InBuffer = came - Len(read) /\ InBuffer <= Ahead

RxInv == ~crossed => RxIndex /\ RxBuffer

PacedInv == paced => ~crossed /\ RxPace

-----------------------------------------------------------------------------
\* The index on its way through the pieces of its movement.
LEMMA MovedInRing == RxIndex => MovedIndex \in Indices
<1> SUFFICES ASSUME RxIndex PROVE MovedIndex \in Indices
  OBVIOUS
<1>1. \A x \in Nat : x % RbSize \in Indices
  BY RingAssumption, RemainderInRange DEF Indices
<1>2. r + LowBase \in Nat
  BY RingAssumption DEF RxIndex
<1>3. \A x \in Indices : Bump(x) \in Indices
  BY RingAssumption DEF Bump, Indices
<1>4. pc \in States
  BY DEF RxIndex
<1>5. CASE pc \in {"load", "store"}
  BY <1>3, <1>5 DEF MovedIndex, RxIndex
<1>6. CASE pc = "carry"
  BY <1>1, <1>2, <1>6 DEF MovedIndex
<1>7. CASE pc = "wrap"
  BY <1>1, <1>7 DEF MovedIndex, RxIndex
<1>8. CASE pc \in {"away", "poll", "fetch"}
  BY <1>8 DEF MovedIndex, RxIndex
<1> QED
  BY <1>4, <1>5, <1>6, <1>7, <1>8 DEF States

\* Writing the low half moves the index by one, but for the carry.
LEMMA LowHalfWritten ==
  ASSUME NEW x \in Indices, NEW y, y = High(x) + (((x % LowBase) + 1) % LowBase)
  PROVE  /\ (x % LowBase) + 1 = LowBase =>
              /\ y \in Nat /\ y + LowBase = x + 1 /\ y + LowBase <= RbSize
              /\ (y + LowBase) % RbSize = Bump(x)
         /\ (x % LowBase) + 1 # LowBase =>
              /\ y \in Nat /\ y <= RbSize /\ y % RbSize = Bump(x)
<1> DEFINE l == x % LowBase
<1>1. /\ x \in Nat /\ x < RbSize /\ RbSize \in Nat /\ RbSize > 0
      /\ LowBase \in Nat /\ 2 <= LowBase
  BY RingAssumption DEF Indices
<1>2. l \in 0 .. LowBase - 1 /\ l <= x
  <2>1. l \in 0 .. LowBase - 1
    BY <1>1, RemainderInRange
  <2>2. l <= x
    BY <1>1, SMT
  <2> QED
    BY <2>1, <2>2
<1>3. (x + 1) % RbSize = Bump(x)
  <2> DEFINE i == x + 1
  <2>1. i \in Nat /\ i <= RbSize
    BY <1>1
  <2> HIDE DEF i
  <2>2. i % RbSize = IF i = RbSize THEN 0 ELSE i
    BY <1>1, <2>1, AtMostSize
  <2> QED
    BY <2>2, Zenon DEF i, Bump
<1>4. High(x) = x - l
  BY DEF High
<1>5. (l + 1) % LowBase = IF l + 1 = LowBase THEN 0 ELSE l + 1
  <2> DEFINE i == l + 1
  <2>1. i \in Nat /\ i <= LowBase
    BY <1>1, <1>2
  <2> HIDE DEF i
  <2>2. i % LowBase = IF i = LowBase THEN 0 ELSE i
    BY <1>1, <2>1, AtMostSize
  <2> QED
    BY <2>2, Zenon DEF i
<1>6. y = (x - l) + ((l + 1) % LowBase)
  BY <1>4
<1> HIDE DEF l
<1>7. ASSUME l + 1 = LowBase
      PROVE  /\ y \in Nat /\ y + LowBase = x + 1 /\ y + LowBase <= RbSize
             /\ (y + LowBase) % RbSize = Bump(x)
  <2>1. y = x - l
    BY <1>1, <1>2, <1>5, <1>6, <1>7
  <2>2. y + LowBase = x + 1
    BY <1>1, <1>2, <1>7, <2>1
  <2> QED
    BY <1>1, <1>2, <1>3, <2>1, <2>2
<1>8. ASSUME l + 1 # LowBase
      PROVE  y \in Nat /\ y <= RbSize /\ y % RbSize = Bump(x)
  <2>1. y = x + 1
    BY <1>1, <1>2, <1>5, <1>6, <1>8
  <2> QED
    BY <1>1, <1>3, <2>1
<1> QED
  BY <1>7, <1>8 DEF l


\* Before anything has come.
LEMMA RxInit == Init => RxInv /\ Queue!Init /\ (LeavesMargin => PacedInv)
<1> SUFFICES ASSUME Init PROVE RxInv /\ Queue!Init /\ (LeavesMargin => PacedInv)
  OBVIOUS
<1>1. 0 \in Indices
  BY RingAssumption DEF Indices
<1>2. r = 0 /\ w = 0 /\ pc = "away"
  BY DEF Init
<1>3. MovedIndex = 0
  BY <1>2 DEF MovedIndex
<1>4. InBuffer = 0
  BY <1>1, <1>2, <1>3, ReadableValue DEF InBuffer
<1>5. rx_buf \in [Indices -> Nat]
  BY DEF Init
<1>6. came = 0 /\ read = <<>>
  BY DEF Init
<1>7. read \in Seq(Nat) /\ Len(read) = 0
  BY <1>6, EmptySeq
<1>8. Unread = <<>>
  <2>1. Unread \in Seq(Nat) /\ Len(Unread) = InBuffer
    BY <1>1, <1>2, <1>3, <1>5, ContentsLength, Zenon DEF Unread, InBuffer
  <2>2. Len(Unread) = 0
    BY <1>4, <2>1, Zenon
  <2> QED
    BY <2>1, <2>2, EmptySeq
<1>9. RxIndex
  BY <1>1, <1>2 DEF RxIndex, States
<1>10. RxBuffer
  <2>1. came \in Nat
    BY <1>6
  <2> QED
    BY <1>5, <1>7, <2>1, Zenon DEF RxBuffer
<1>11. LeavesMargin => RxPace
  <2>1. came - Len(read) = 0
    <3>1. 0 - 0 = 0
      OBVIOUS
    <3> QED
      BY <1>6, <1>7, <3>1, Zenon
  <2>2. LeavesMargin => 0 <= Ahead
    BY DEF LeavesMargin
  <2> QED
    BY <1>4, <2>1, <2>2, Zenon DEF RxPace
<1>12. ~crossed
  BY DEF Init
<1> QED
  BY <1>6, <1>8, <1>9, <1>10, <1>11, <1>12, Zenon DEF RxInv, PacedInv, Queue!Init

-----------------------------------------------------------------------------
\* The handler's side.

\* A read index on its way may be the size itself.
LEMMA WritableOnTheWay ==
  ASSUME NEW x \in 0 .. RbSize, NEW y \in Indices
  PROVE  ringbuf_writable(x, y) =
           IF y >= x THEN RbSize - y + x - 1 ELSE x - y - 1
BY RingAssumption, SmallRemainder DEF ringbuf_writable, WritableSeen, Indices

\* A PC that keeps pace leaves room that the handler finds, whatever part of
\* the read index has been written.
LEMMA RoomInRead ==
  ASSUME LeavesMargin, RxIndex, InBuffer < Ahead
  PROVE  ~Full
<1>1. /\ RbSize \in Nat /\ LowBase \in Nat /\ 2 <= LowBase /\ 2 <= RbSize
      /\ Ahead \in Nat /\ Ahead + 1 < RbSize
      /\ LowBase # RbSize => Ahead + LowBase < RbSize
  BY RingAssumption DEF LeavesMargin, Margin
<1>2. MovedIndex \in Indices /\ w \in Indices /\ r \in Nat
  BY MovedInRing DEF RxIndex
<1> DEFINE q == InBuffer
<1>3. q \in Nat /\ q < Ahead /\ ringbuf_writable(MovedIndex, w) = RbSize - 1 - q
  BY <1>2, ReadableValue DEF InBuffer
<1>4. ringbuf_writable(MovedIndex, w) # 0
  BY <1>1, <1>3
<1>5. CASE pc \in {"away", "poll", "fetch"}
  <2>1. MovedIndex = r
    BY <1>5 DEF MovedIndex
  <2> QED
    BY <1>4, <2>1 DEF Full
<1>6. CASE pc \in {"load", "store"}
  <2>1. MovedIndex = Bump(r) /\ r \in Indices
    BY <1>6 DEF MovedIndex, RxIndex
  <2>2. r # w
    <3> SUFFICES ASSUME r = w PROVE FALSE
      OBVIOUS
    <3>1. q = ringbuf_readable(Bump(r), r)
      BY <2>1 DEF InBuffer
    <3>2. q = RbSize - 1
      BY <1>1, <2>1, <3>1 DEF ringbuf_readable, Bump, Indices
    <3> HIDE DEF q
    <3> QED
      BY <1>1, <1>3, <3>2
  <2>3. ringbuf_writable(Bump(r), w) = ringbuf_writable(r, w) + 1
    BY <1>2, <2>1, <2>2, TakingMakesRoom
  <2>4. ringbuf_writable(r, w) \in Int
    BY <1>1, <1>2, <2>1, ReadableValue
  <2>5. RbSize - 1 - q # 1
    BY <1>1, <1>3
  <2> QED
    BY <1>3, <1>4, <2>1, <2>3, <2>5 DEF Full
<1>7. CASE pc = "carry"
  <2>1. r + LowBase <= RbSize
    BY <1>7 DEF RxIndex
  <2> DEFINE i == r + LowBase
  <2>2. MovedIndex = i % RbSize
    BY <1>7 DEF MovedIndex
  <2>3. i \in Nat /\ i <= RbSize /\ i = r + LowBase
    BY <1>1, <1>2, <2>1
  <2> HIDE DEF i
  <2>4. MovedIndex = IF i = RbSize THEN 0 ELSE i
    BY <1>1, <2>2, <2>3, AtMostSize
  <2>5. q = IF w >= MovedIndex THEN w - MovedIndex ELSE RbSize - MovedIndex + w
    BY DEF InBuffer, ringbuf_readable
  <2>6. ringbuf_writable(r, w) = IF w >= r THEN RbSize - w + r - 1 ELSE r - w - 1
    <3>1. r \in 0 .. RbSize
      BY <1>1, <1>2, <2>1
    <3> QED
      BY <1>2, <3>1, WritableOnTheWay, Zenon
  <2> HIDE DEF q
  <2>7. ringbuf_writable(r, w) # 0
    BY <1>1, <1>2, <1>3, <2>3, <2>4, <2>5, <2>6 DEF Indices
  <2> QED
    BY <2>7 DEF Full
<1>8. CASE pc = "wrap"
  <2>1. MovedIndex = r % RbSize /\ r <= RbSize
    BY <1>8 DEF MovedIndex, RxIndex
  <2>2. MovedIndex = IF r = RbSize THEN 0 ELSE r
    BY <1>1, <1>2, <2>1, AtMostSize
  <2>3. q = IF w >= MovedIndex THEN w - MovedIndex ELSE RbSize - MovedIndex + w
    BY DEF InBuffer, ringbuf_readable
  <2>4. ringbuf_writable(r, w) = IF w >= r THEN RbSize - w + r - 1 ELSE r - w - 1
    <3>1. r \in 0 .. RbSize
      BY <1>1, <1>2, <2>1
    <3> QED
      BY <1>2, <3>1, WritableOnTheWay, Zenon
  <2> HIDE DEF q
  <2>5. ringbuf_writable(r, w) # 0
    BY <1>1, <1>2, <1>3, <2>1, <2>2, <2>3, <2>4 DEF Indices
  <2> QED
    BY <2>5 DEF Full
<1> QED
  BY <1>5, <1>6, <1>7, <1>8 DEF RxIndex, States


\* Where the handler finds room there is room for its byte, whatever part of
\* the read index has been written.
LEMMA RoomIsReal ==
  ASSUME RxIndex, ~Full, pc # "away" => ~hit
  PROVE  ringbuf_writable(MovedIndex, w) # 0
<1>1. /\ RbSize \in Nat /\ LowBase \in Nat /\ 2 <= LowBase /\ 2 <= RbSize
  BY RingAssumption
<1>2. MovedIndex \in Indices /\ w \in Indices /\ r \in Nat
  BY MovedInRing DEF RxIndex
<1>3. ringbuf_writable(r, w) # 0
  BY DEF Full
<1>4. CASE pc \in {"away", "poll", "fetch"}
  BY <1>3, <1>4 DEF MovedIndex
<1>5. CASE pc \in {"load", "store"}
  <2>1. MovedIndex = Bump(r) /\ r \in Indices /\ r # w
    BY <1>5 DEF MovedIndex, RxIndex
  <2>2. ringbuf_writable(Bump(r), w) = ringbuf_writable(r, w) + 1
    BY <1>2, <2>1, TakingMakesRoom
  <2>3. ringbuf_writable(r, w) \in 0 .. RbSize - 1
    BY <1>1, <1>2, <2>1, ReadableValue
  <2> QED
    BY <1>1, <2>1, <2>2, <2>3
<1>6. CASE pc = "carry"
  <2>1. r + LowBase <= RbSize /\ w # r + LowBase - 1
    BY <1>6 DEF RxIndex
  <2> DEFINE i == r + LowBase
  <2>2. MovedIndex = i % RbSize
    BY <1>6 DEF MovedIndex
  <2>3. i \in Nat /\ i <= RbSize /\ i > 0 /\ w # i - 1
    BY <1>1, <1>2, <2>1
  <2> HIDE DEF i
  <2>4. MovedIndex = IF i = RbSize THEN 0 ELSE i
    BY <1>1, <2>2, <2>3, AtMostSize
  <2>5. ringbuf_writable(MovedIndex, w) =
          IF w >= MovedIndex THEN RbSize - w + MovedIndex - 1 ELSE MovedIndex - w - 1
    BY <1>2, WritableValue
  <2> QED
    BY <1>1, <1>2, <2>3, <2>4, <2>5 DEF Indices
<1>7. CASE pc = "wrap"
  <2>1. MovedIndex = r % RbSize /\ r <= RbSize
    BY <1>7 DEF MovedIndex, RxIndex
  <2>2. MovedIndex = IF r = RbSize THEN 0 ELSE r
    BY <1>1, <1>2, <2>1, AtMostSize
  <2>3. /\ ringbuf_writable(r, w) = IF w >= r THEN RbSize - w + r - 1 ELSE r - w - 1
        /\ ringbuf_writable(MovedIndex, w) =
             IF w >= MovedIndex THEN RbSize - w + MovedIndex - 1 ELSE MovedIndex - w - 1
    <3>1. r \in 0 .. RbSize
      BY <1>1, <1>2, <2>1
    <3> QED
      BY <1>2, <3>1, WritableOnTheWay, WritableValue, Zenon
  <2> QED
    BY <1>1, <1>2, <1>3, <2>2, <2>3 DEF Indices
<1> QED
  BY <1>4, <1>5, <1>6, <1>7 DEF RxIndex, States

\* A byte that comes is put into the queue; the oldest goes when it is full,
\* also while the main loop asks whether there is a byte.
LEMMA IsrPuts ==
  ASSUME RxInv, uart1_isr, ~crossed'
  PROVE  /\ RxIndex' /\ RxBuffer' /\ Queue!Put
         /\ ~Full => InBuffer' = InBuffer + 1
<1>1. RxIndex /\ RxBuffer
  BY DEF RxInv, uart1_isr
<1>2. MovedIndex \in Indices /\ w \in Indices /\ r \in Nat
  BY <1>1, MovedInRing DEF RxIndex
<1>3. rx_buf \in [Indices -> Nat] /\ came \in Nat /\ read \in Seq(Nat)
  BY <1>1 DEF RxBuffer
<1>4. /\ came' = came + 1 /\ rx_buf' = [rx_buf EXCEPT ![w] = came'] /\ w' = Bump(w)
      /\ read' = read /\ pc' = pc /\ low' = low /\ seen_r' = seen_r /\ seen_w' = seen_w
      /\ (pc # "away" => ~hit) /\ hit' = (pc # "away") /\ (Full => ~Reading)
  BY DEF uart1_isr, main
<1>5. came' \in Nat
  BY <1>3, <1>4
<1>7. InBuffer \in 0 .. RbSize - 1 /\ ringbuf_writable(MovedIndex, w) = RbSize - 1 - InBuffer
  BY <1>2, ReadableValue DEF InBuffer
<1>10. /\ Unread \in Seq(Nat) /\ Len(Unread) = InBuffer
  BY <1>2, <1>3, ContentsLength, Zenon DEF Unread, InBuffer
<1>11. RxBuffer'
  <2>1. rx_buf' \in [Indices -> Nat]
    BY <1>2, <1>3, <1>4, <1>5
  <2> QED
    BY <1>3, <1>4, <1>5, <2>1, Zenon DEF RxBuffer
<1>16. ASSUME NEW x \in Indices, ringbuf_writable(x, w) # 0
       PROVE  /\ Bump(w) \in Indices
              /\ Contents(rx_buf', x, Bump(w)) = Append(Contents(rx_buf, x, w), came')
              /\ ringbuf_readable(x, Bump(w)) = ringbuf_readable(x, w) + 1
  <2>1. PICK e \in Nat : e = came'
    BY <1>5
  <2>2. rx_buf' = [rx_buf EXCEPT ![w] = e]
    BY <1>4, <2>1
  <2>3. Appends([rx_buf EXCEPT ![w] = e], rx_buf, x, w, e)
    BY <1>2, <1>3, <1>16, ContentsAppended, Zenon
  <2> QED
    BY <2>1, <2>2, <2>3, Zenon DEF Appends
<1>12. CASE ~Full
  <2>0. ringbuf_writable(MovedIndex, w) # 0
    BY <1>1, <1>4, <1>12, RoomIsReal
  <2>1. r' = r
    BY <1>12 DEF uart1_isr
  <2>2. MovedIndex' = MovedIndex
    BY <1>4, <2>1 DEF MovedIndex
  <2>3. /\ Bump(w) \in Indices
        /\ Contents(rx_buf', MovedIndex, Bump(w)) = Append(Contents(rx_buf, MovedIndex, w), came')
        /\ ringbuf_readable(MovedIndex, Bump(w)) = InBuffer + 1
    BY <1>2, <1>16, <2>0 DEF InBuffer
  <2>4. Unread' = Append(Unread, came') /\ InBuffer' = InBuffer + 1
    BY <1>4, <2>2, <2>3, Zenon DEF Unread, InBuffer
  <2>5. InBuffer # RbSize - 1
    BY <1>7, <2>0, RingAssumption
  <2>6. Queue!Put
    <3>1. Len(Unread) # RbSize - 1
      BY <1>10, <2>5, Zenon
    <3> QED
      BY <1>4, <2>4, <3>1, Zenon DEF Queue!Put
  <2>7. RxIndex'
    <3>1. w' \in Indices
      BY <1>4, <2>3, Zenon
    <3>2. ASSUME pc \in {"poll", "fetch", "load", "store"} PROVE r # w'
      <4>1. r \in Indices
        BY <1>1, <3>2 DEF RxIndex
      <4>2. ringbuf_readable(r, Bump(w)) = ringbuf_readable(r, w) + 1
        BY <1>12, <1>16, <4>1 DEF Full
      <4>3. ringbuf_readable(r, w) \in 0 .. RbSize - 1 /\ RbSize \in Nat
        BY <1>2, <4>1, ReadableValue, RingAssumption
      <4>4. ringbuf_readable(r, w') # 0
        BY <1>4, <4>2, <4>3
      <4> QED
        BY <3>1, <4>1, <4>4, ReadableValue
    <3> QED
      BY <1>1, <1>4, <2>1, <3>1, <3>2 DEF RxIndex
  <2> QED
    BY <1>11, <2>4, <2>6, <2>7
<1>13. CASE Full
  <2>0. pc \in {"away", "poll"}
    BY <1>1, <1>4, <1>13 DEF Reading, RxIndex, States
  <2>1. MovedIndex = r /\ MovedIndex' = r' /\ r \in Indices
    BY <1>2, <1>4, <2>0 DEF MovedIndex
  <2>2. ringbuf_writable(r, w) = 0 /\ r' = Bump(r) % WordSize
    BY <1>13 DEF Full, uart1_isr
  <2>3. InBuffer = RbSize - 1 /\ InBuffer # 0
    BY <1>7, <2>1, <2>2, RingAssumption
  <2>4. r # w
    BY <1>2, <2>1, <2>3, ReadableValue DEF InBuffer
  <2>5. Bump(r) \in Indices /\ ringbuf_writable(Bump(r), w) # 0
    <3>1. Bump(r) \in Indices /\ ringbuf_writable(Bump(r), w) = ringbuf_writable(r, w) + 1
      BY <1>2, <2>1, <2>4, TakingMakesRoom
    <3> QED
      BY <2>2, <3>1
  <2>6. r' = Bump(r)
    BY <2>2, <2>5, RingAssumption, SmallRemainder DEF Indices
  <2>7. Tail(Unread) = Contents(rx_buf, Bump(r), w)
    BY <1>2, <1>3, <2>1, <2>4, ContentsTaken, Zenon DEF Unread
  <2>8. /\ Bump(w) \in Indices
        /\ Contents(rx_buf', Bump(r), Bump(w)) = Append(Contents(rx_buf, Bump(r), w), came')
        /\ ringbuf_readable(Bump(r), Bump(w)) = ringbuf_readable(Bump(r), w) + 1
    BY <1>16, <2>5
  <2>9. Unread' = Append(Tail(Unread), came')
    BY <1>4, <2>1, <2>6, <2>7, <2>8, Zenon DEF Unread
  <2>10. Queue!Put
    <3>1. Len(Unread) = RbSize - 1
      BY <1>10, <2>3, Zenon
    <3> QED
      BY <1>4, <2>9, <3>1, Zenon DEF Queue!Put
  <2>11. RxIndex'
    <3>1. ringbuf_readable(Bump(r), Bump(w)) # 0
      BY <1>2, <2>5, <2>8, ReadableValue
    <3>2. Bump(r) # Bump(w)
      BY <2>5, <2>8, <3>1, ReadableValue
    <3> QED
      BY <1>1, <1>4, <2>0, <2>5, <2>6, <2>8, <3>2 DEF RxIndex, Indices
  <2> QED
    BY <1>11, <1>13, <2>10, <2>11
<1> QED
  BY <1>12, <1>13

\* A PC that keeps pace never makes the handler skip.
LEMMA IsrKeepsPace ==
  ASSUME LeavesMargin, RxInv, PacedInv, uart1_isr
  PROVE  PacedInv'
<1> SUFFICES ASSUME paced' PROVE ~crossed' /\ RxPace'
  BY DEF PacedInv
<1>1. /\ paced /\ came' = came + 1 /\ read' = read /\ came - Len(read) < Ahead
      /\ crossed' = (crossed \/ (Full /\ Reading))
  BY DEF uart1_isr, main
<1>2. ~crossed /\ RxPace /\ RxIndex /\ RxBuffer
  BY <1>1 DEF RxInv, PacedInv
<1>3. InBuffer < Ahead
  BY <1>1, <1>2, Zenon DEF RxPace
<1>4. ~Full
  BY <1>2, <1>3, RoomInRead
<1>5. ~crossed'
  BY <1>1, <1>2, <1>4
<1>6. InBuffer' = InBuffer + 1
  BY <1>4, <1>5, IsrPuts
<1>7. PICK n \in Nat : n = Len(read)
  BY <1>2 DEF RxBuffer
<1>8. InBuffer = came - n /\ n = Len(read')
  BY <1>1, <1>2, <1>7, Zenon DEF RxPace
<1>9. came \in Nat /\ Ahead \in Nat
  BY <1>2 DEF RxBuffer, LeavesMargin
<1>10. InBuffer' = came' - n /\ InBuffer' <= Ahead
  BY <1>1, <1>3, <1>6, <1>8, <1>9
<1> QED
  BY <1>5, <1>8, <1>10, Zenon DEF RxPace

-----------------------------------------------------------------------------
\* The main loop's side.

\* A byte is found only where there is one, also when an index was read while
\* it moved.
LEMMA HasByteFinds ==
  ASSUME RxIndex, Decide, pc' = "fetch"
  PROVE  r # w
<1>1. /\ pc = "poll" /\ (seen_r # r \/ seen_w # w => r # w) /\ r \in Indices /\ w \in Indices
  BY DEF RxIndex, Decide
<1>2. PICK views_r \in TwoViews(seen_r, r), views_w \in TwoViews(seen_w, w) :
        HasByte(views_w, views_r)
  BY DEF Decide
<1>3. CASE seen_w = w /\ seen_r = r
  <2>1. views_r = <<r, r>> /\ views_w = <<w, w>>
    BY <1>1, <1>2, <1>3, SteadyIndexReadWhole, Zenon
  <2>2. ReadableSeen(<<w, w>>, <<r, r>>) # 0
    BY <1>2, <2>1, Zenon DEF HasByte
  <2>3. (IF w >= r THEN w - r ELSE RbSize - r + w) % WordSize # 0
    BY <2>2 DEF ReadableSeen
  <2>4. 0 < WordSize /\ WordSize \in Nat
    BY RingAssumption
  <2> QED
    BY <1>1, <2>3, <2>4, SmallRemainder DEF Indices
<1> QED
  BY <1>1, <1>3

\* The steps that do not read leave the queue alone, although they move the
\* index.
LEMMA OtherStepsStutter ==
  ASSUME RxIndex, RxBuffer, Poll \/ Decide \/ Load \/ Store \/ Carry \/ Wrap
  PROVE  RxIndex' /\ RxBuffer' /\ UNCHANGED <<Unread, came, read, InBuffer>>
<1>1. RxIndex /\ RxBuffer
  OBVIOUS
<1>2. rx_buf' = rx_buf /\ w' = w /\ came' = came /\ read' = read
  BY DEF Poll, Decide, Load, Store, Carry, Wrap, ring
<1>3. RxIndex' /\ MovedIndex' = MovedIndex
  <2>1. CASE Poll
    BY <1>1, <2>1 DEF Poll, ring, RxIndex, States, MovedIndex
  <2>2. CASE Decide
    <3>1. pc' = "fetch" => r # w
      BY <1>1, <2>2, HasByteFinds
    <3>2. pc = "poll" /\ pc' \in {"fetch", "away"} /\ seen_r' = r /\ r' = r
      BY <2>2 DEF Decide, ring
    <3> QED
      BY <1>1, <1>2, <3>1, <3>2 DEF RxIndex, States, MovedIndex
  <2>3. CASE Load
    BY <1>1, <2>3 DEF Load, ring, RxIndex, States, MovedIndex
  <2>4. CASE Store
    <3>1. /\ pc = "store" /\ r \in Indices /\ low = r % LowBase /\ low' = low
          /\ r' = High(r) + ((low + 1) % LowBase) /\ w \in Indices /\ r # w
          /\ pc' = IF low + 1 = LowBase THEN "carry" ELSE "wrap"
      BY <1>1, <2>4 DEF Store, RxIndex
    <3>2. /\ low + 1 = LowBase =>
               /\ r' \in Nat /\ r' + LowBase = r + 1 /\ r' + LowBase <= RbSize
               /\ (r' + LowBase) % RbSize = Bump(r)
          /\ low + 1 # LowBase =>
               /\ r' \in Nat /\ r' <= RbSize /\ r' % RbSize = Bump(r)
      BY <3>1, LowHalfWritten
    <3>3. MovedIndex = Bump(r)
      BY <3>1 DEF MovedIndex
    <3>4. CASE low + 1 = LowBase
      <4>1. pc' = "carry" /\ MovedIndex' = (r' + LowBase) % RbSize
        BY <3>1, <3>4 DEF MovedIndex
      <4>2. r' + LowBase - 1 = r
        BY <3>1, <3>2, <3>4, RingAssumption DEF Indices
      <4> QED
        BY <1>2, <3>1, <3>2, <3>3, <3>4, <4>1, <4>2 DEF RxIndex, States
    <3>5. CASE low + 1 # LowBase
      <4>1. pc' = "wrap" /\ MovedIndex' = r' % RbSize
        BY <3>1, <3>5 DEF MovedIndex
      <4> QED
        BY <1>2, <3>1, <3>2, <3>3, <3>5, <4>1 DEF RxIndex, States
    <3> QED
      BY <3>4, <3>5
  <2>5. CASE Carry
    <3>1. pc = "carry" /\ r \in Nat /\ r + LowBase <= RbSize /\ w \in Indices /\ pc' = "wrap"
      BY <1>1, <2>5 DEF Carry, RxIndex
    <3>2. r' = r + LowBase /\ r' \in Nat
      <4> DEFINE i == r + LowBase
      <4>1. i \in Nat /\ i < WordSize /\ WordSize \in Nat
        BY <3>1, RingAssumption
      <4>2. r' = i % WordSize
        BY <2>5 DEF Carry, AddCarry
      <4> HIDE DEF i
      <4>3. r' = i
        BY <4>1, <4>2, SmallRemainder
      <4> QED
        BY <4>1, <4>3 DEF i
    <3>3. MovedIndex = (r + LowBase) % RbSize /\ MovedIndex' = r' % RbSize
      BY <3>1 DEF MovedIndex
    <3>4. MovedIndex' = MovedIndex
      BY <3>2, <3>3, Zenon
    <3> QED
      BY <1>2, <3>1, <3>2, <3>4 DEF RxIndex, States
  <2>6. CASE Wrap
    <3>1. /\ pc = "wrap" /\ r \in Nat /\ r <= RbSize /\ w \in Indices /\ pc' = "away"
          /\ r' = IF r = RbSize THEN 0 ELSE r
      BY <1>1, <2>6 DEF Wrap, AtSize, RxIndex
    <3>2. MovedIndex = r % RbSize /\ MovedIndex' = r'
      BY <3>1 DEF MovedIndex
    <3>3. RbSize \in Nat /\ RbSize > 0
      BY RingAssumption
    <3>4. r % RbSize = IF r = RbSize THEN 0 ELSE r
      BY <3>1, <3>3, AtMostSize
    <3> QED
      BY <1>2, <3>1, <3>2, <3>3, <3>4 DEF RxIndex, States, Indices
  <2> QED
    BY <2>1, <2>2, <2>3, <2>4, <2>5, <2>6
<1>4. Unread' = Unread /\ InBuffer' = InBuffer
  BY <1>2, <1>3, Zenon DEF Unread, InBuffer
<1>5. RxBuffer'
  BY <1>1, <1>2, Zenon DEF RxBuffer
<1> QED
  BY <1>2, <1>3, <1>4, <1>5, Zenon

\* What the main loop is given is the head of the queue.
LEMMA FetchGets ==
  ASSUME RxIndex, RxBuffer, Fetch
  PROVE  /\ RxIndex' /\ RxBuffer' /\ Queue!Get
         /\ InBuffer' = InBuffer - 1 /\ Len(read') = Len(read) + 1
<1>1. RxIndex /\ RxBuffer
  OBVIOUS
<1>2. /\ pc = "fetch" /\ pc' = "load" /\ r' = r /\ w' = w /\ rx_buf' = rx_buf /\ came' = came
  BY DEF Fetch, ring
<1>3. r \in Indices /\ w \in Indices /\ seen_r = r /\ r # w
  BY <1>1, <1>2 DEF RxIndex
<1>4. rx_buf \in [Indices -> Nat] /\ came \in Nat /\ read \in Seq(Nat)
  BY <1>1 DEF RxBuffer
<1>5. read' = Append(read, rx_buf[r])
  <2>1. Views(r, r) = {r}
    BY <1>3, RingAssumption DEF Views, Mixed, High, Indices
  <2> QED
    BY <1>3, <2>1 DEF Fetch, ByteAt
<1>6. MovedIndex = r /\ MovedIndex' = Bump(r)
  BY <1>2 DEF MovedIndex
<1>7. /\ Bump(r) \in Indices /\ Unread # <<>>
      /\ Head(Unread) = rx_buf[r] /\ Tail(Unread) = Contents(rx_buf, Bump(r), w)
  BY <1>3, <1>4, <1>6, ContentsTaken, Zenon DEF Unread
<1>8. Unread' = Tail(Unread)
  BY <1>2, <1>6, <1>7, Zenon DEF Unread
<1>9. Queue!Get
  BY <1>2, <1>5, <1>7, <1>8, Zenon DEF Queue!Get
<1>10. RxIndex'
  BY <1>1, <1>2, <1>3 DEF RxIndex, States
<1>11. rx_buf[r] \in Nat
  BY <1>3, <1>4
<1>12. read' \in Seq(Nat) /\ Len(read') = Len(read) + 1
  BY <1>4, <1>5, <1>11, AppendProperties
<1>13. RxBuffer'
  BY <1>2, <1>4, <1>12, Zenon DEF RxBuffer
<1>14. InBuffer' = InBuffer - 1
  <2>1. InBuffer = ringbuf_readable(r, w) /\ InBuffer' = ringbuf_readable(Bump(r), w)
    BY <1>2, <1>6, Zenon DEF InBuffer
  <2>2. /\ ringbuf_readable(r, w) \in 0 .. RbSize - 1
        /\ ringbuf_readable(Bump(r), w) \in 0 .. RbSize - 1
        /\ ringbuf_writable(r, w) = RbSize - 1 - ringbuf_readable(r, w)
        /\ ringbuf_writable(Bump(r), w) = RbSize - 1 - ringbuf_readable(Bump(r), w)
        /\ ringbuf_writable(Bump(r), w) = ringbuf_writable(r, w) + 1
    BY <1>3, <1>7, ReadableValue, TakingMakesRoom
  <2> QED
    BY <2>1, <2>2, RingAssumption
<1> QED
  BY <1>9, <1>10, <1>12, <1>13, <1>14

\* Until the handler skips inside a read, every step of the two sides is a
\* step of the queue, or leaves it alone.
LEMMA RxStep ==
  ASSUME RxInv, [Next]_vars
  PROVE  RxInv' /\ [~crossed' => (Queue!Put \/ Queue!Get)]_<<Unread, came, read>>
<1> SUFFICES ASSUME ~crossed'
             PROVE  RxIndex' /\ RxBuffer' /\ [Queue!Put \/ Queue!Get]_<<Unread, came, read>>
  BY DEF RxInv
<1>1. CASE uart1_isr
  BY <1>1, IsrPuts
<1>2. CASE MainLoop
  <2>1. RxIndex /\ RxBuffer
    BY <1>2 DEF MainLoop, RxInv
  <2>2. CASE Fetch
    BY <2>1, <2>2, FetchGets
  <2>3. CASE Poll \/ Decide \/ Load \/ Store \/ Carry \/ Wrap
    BY <2>1, <2>3, OtherStepsStutter
  <2> QED
    BY <1>2, <2>2, <2>3 DEF MainLoop, uart1_run
<1>3. CASE UNCHANGED vars
  <2>1. RxIndex /\ RxBuffer
    BY <1>3 DEF vars, RxInv
  <2>2. RxIndex' /\ RxBuffer'
    BY <1>3, <2>1 DEF vars, ring, main, RxIndex, RxBuffer
  <2>3. UNCHANGED <<Unread, came, read>>
    BY <1>3 DEF vars, ring, main, Unread, MovedIndex
  <2> QED
    BY <2>2, <2>3
<1> QED
  BY <1>1, <1>2, <1>3 DEF Next

\* A PC that keeps pace goes on doing so.
LEMMA PaceStep ==
  ASSUME LeavesMargin, RxInv, PacedInv, [Next]_vars
  PROVE  PacedInv'
<1>1. CASE uart1_isr
  BY <1>1, IsrKeepsPace
<1>2. CASE MainLoop
  <2> SUFFICES ASSUME paced' PROVE ~crossed' /\ RxPace'
    BY DEF PacedInv
  <2>1. paced /\ crossed' = crossed
    BY <1>2 DEF MainLoop
  <2>2. ~crossed /\ RxPace /\ RxIndex /\ RxBuffer
    BY <2>1 DEF RxInv, PacedInv
  <2>3. CASE Fetch
    <3>1. came' = came /\ InBuffer' = InBuffer - 1 /\ Len(read') = Len(read) + 1
      BY <2>2, <2>3, FetchGets DEF Fetch
    <3>2. PICK n \in Nat : n = Len(read)
      BY <2>2 DEF RxBuffer
    <3>3. Len(read') = n + 1 /\ InBuffer = came - n /\ InBuffer <= Ahead
      BY <2>2, <3>1, <3>2, Zenon DEF RxPace
    <3>4. came \in Nat /\ Ahead \in Nat
      BY <2>2 DEF RxBuffer, LeavesMargin
    <3>5. InBuffer' = came' - (n + 1) /\ InBuffer' <= Ahead
      BY <3>1, <3>2, <3>3, <3>4
    <3> QED
      BY <2>1, <2>2, <3>3, <3>5, Zenon DEF RxPace
  <2>4. CASE Poll \/ Decide \/ Load \/ Store \/ Carry \/ Wrap
    <3>1. UNCHANGED <<came, read, InBuffer>>
      BY <2>2, <2>4, OtherStepsStutter
    <3> QED
      BY <2>1, <2>2, <3>1, Zenon DEF RxPace
  <2> QED
    BY <1>2, <2>3, <2>4 DEF MainLoop, uart1_run
<1>3. CASE UNCHANGED vars
  BY <1>3 DEF vars, ring, main, PacedInv, RxPace, InBuffer, MovedIndex
<1> QED
  BY <1>1, <1>2, <1>3 DEF Next

-----------------------------------------------------------------------------
\* The parser is given the bytes that came, in their order and each once, the
\* oldest lost only when the buffer is full, for as long as the handler does
\* not skip inside a read: ringbuf_read with its index moved in pieces, and
\* uart1_isr that puts bytes at any of them and skips between the reads and
\* while the main loop asks for a byte, make a queue, for every size of the
\* buffer and for a PC that sends as it likes.
THEOREM ReceiveIsQueue == Spec => KeepsBytes
<1>1. Init => RxInv /\ Queue!Init
  BY RxInit
<1>2. RxInv /\ [Next]_vars
        => RxInv' /\ [~crossed' => (Queue!Put \/ Queue!Get)]_<<Unread, came, read>>
  BY RxStep
<1> QED
  BY <1>1, <1>2, PTL DEF Spec, KeepsBytes

\* A PC that is never further ahead than one low half of an index short of the
\* size does not bring the handler to skip inside a read, nor anywhere: also
\* between the two halves of a carry, when the handler takes the buffer for
\* fuller than it is, it finds room.
THEOREM PacedNeverCrosses == ASSUME LeavesMargin PROVE Spec => NeverCrossed
<1>1. Init => RxInv /\ PacedInv
  BY RxInit
<1>2. RxInv /\ PacedInv /\ [Next]_vars => RxInv' /\ PacedInv'
  BY RxStep, PaceStep
<1>3. PacedInv => (paced => ~crossed)
  BY DEF PacedInv
<1> QED
  BY <1>1, <1>2, <1>3, PTL DEF Spec, NeverCrossed

=============================================================================
