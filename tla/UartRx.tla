------------------------------- MODULE UartRx -------------------------------
(***************************************************************************)
(* Receiving, in both programs: the interrupt handler puts every byte into *)
(* rxrb and, when that is full, skips the oldest; the main loop reads.     *)
(* Both change the read index, and nothing keeps them apart.  The main     *)
(* loop does so in the steps of an eight-bit CPU: the low half, the carry, *)
(* the comparison with the size.  A byte takes about two thousand clocks   *)
(* on the line, such a read some hundred: the handler runs at most once in *)
(* it, anywhere in it.                                                     *)
(***************************************************************************)
EXTENDS RingBuf

CONSTANTS
  MaxBytes,  \* bound on the bytes that come
  Ahead      \* unread bytes a PC that keeps pace has sent at the most

VARIABLES
  rx_buf, r, w,    \* rxrb
  came,            \* bytes so far; a byte is known by its number
  read,            \* what uart1_parse has been given
  pc, low,         \* where the main loop is in a read; the low half of r
  seen_r, seen_w,  \* the indices when an evaluation began
  hit,             \* the handler has run in this read
  paced,           \* the PC keeps pace
  crossed          \* history: the handler has skipped inside a ringbuf_read

ring == <<rx_buf, r, w>>
main == <<read, pc, low, seen_r, seen_w>>
vars == <<ring, came, main, hit, paced, crossed>>

Init ==
  /\ rx_buf = [x \in Indices |-> 0] /\ r = 0 /\ w = 0
  /\ came = 0 /\ read = <<>>
  /\ pc = "away" /\ low = 0 /\ seen_r = 0 /\ seen_w = 0 /\ hit = FALSE
  /\ paced \in BOOLEAN /\ crossed = FALSE

-----------------------------------------------------------------------------

\* ringbuf_read is under way: between its two uses of the index, or while it
\* moves it.
Reading == pc \in {"fetch", "load", "store", "carry", "wrap"}

\* The first half of uart1_isr.
Full == ringbuf_writable(r, w) = 0

uart1_isr ==
  /\ came < MaxBytes
  /\ paced => came - Len(read) < Ahead
  /\ pc # "away" => ~hit
  /\ came' = came + 1
  /\ r' = IF Full THEN Bump(r) % WordSize ELSE r
  /\ rx_buf' = [rx_buf EXCEPT ![w] = came'] /\ w' = Bump(w)
  /\ hit' = (pc # "away")
  /\ crossed' = (crossed \/ (Full /\ Reading))
  /\ UNCHANGED <<main, paced>>

-----------------------------------------------------------------------------
\* A round of uart1_run: is there a byte?
Poll ==
  /\ pc = "away"
  /\ pc' = "poll" /\ seen_r' = r /\ seen_w' = w /\ hit' = FALSE
  /\ UNCHANGED <<ring, came, read, low>>

ReadableSeen(views_w, views_r) ==
  (IF views_w[1] >= views_r[1] THEN views_w[2] - views_r[2]
   ELSE RbSize - views_r[2] + views_w[2]) % WordSize

\* Mutant: the last byte stays in the buffer.
MoreThanOne(views_w, views_r) == ReadableSeen(views_w, views_r) > 1

HasByte(views_w, views_r) == ReadableSeen(views_w, views_r) # 0

Decide ==
  /\ pc = "poll"
  /\ \E views_r \in TwoViews(seen_r, r), views_w \in TwoViews(seen_w, w) :
       pc' = IF HasByte(views_w, views_r) THEN "fetch" ELSE "away"
  /\ seen_r' = r
  /\ UNCHANGED <<ring, came, read, low, seen_w, hit>>

\* What is found behind the buffer is none of the bytes that came.
ByteAt(x) == IF x \in Indices THEN rx_buf[x] ELSE 0

\* ringbuf_read takes the byte, then moves the index.
Fetch ==
  /\ pc = "fetch"
  /\ \E x \in Views(seen_r, r) : read' = Append(read, ByteAt(x))
  /\ pc' = "load"
  /\ UNCHANGED <<ring, came, low, seen_r, seen_w, hit>>

Load ==
  /\ pc = "load"
  /\ low' = r % LowBase /\ pc' = "store"
  /\ UNCHANGED <<ring, came, read, seen_r, seen_w, hit>>

Store ==
  /\ pc = "store"
  /\ r' = High(r) + ((low + 1) % LowBase)
  /\ pc' = IF low + 1 = LowBase THEN "carry" ELSE "wrap"
  /\ UNCHANGED <<rx_buf, w, came, read, low, seen_r, seen_w, hit>>

\* Mutant: the carry is lost.
NoCarry == UNCHANGED r

AddCarry == r' = (r + LowBase) % WordSize

Carry ==
  /\ pc = "carry"
  /\ AddCarry /\ pc' = "wrap"
  /\ UNCHANGED <<rx_buf, w, came, read, low, seen_r, seen_w, hit>>

AtSize == r = RbSize

Wrap ==
  /\ pc = "wrap"
  /\ r' = IF AtSize THEN 0 ELSE r
  /\ pc' = "away"
  /\ UNCHANGED <<rx_buf, w, came, read, low, seen_r, seen_w, hit>>

uart1_run == Poll \/ Decide \/ Fetch \/ Load \/ Store \/ Carry \/ Wrap

MainLoop == uart1_run /\ UNCHANGED <<paced, crossed>>

Next == uart1_isr \/ MainLoop

Spec == Init /\ [][Next]_vars

-----------------------------------------------------------------------------
\* The read index, had the whole of its movement been done at once.
MovedIndex ==
  CASE pc \in {"load", "store"} -> Bump(r)
    [] pc = "carry"             -> (r + LowBase) % RbSize
    [] pc = "wrap"              -> r % RbSize
    [] OTHER                    -> r

Unread == Contents(rx_buf, MovedIndex, w)

\* Until the handler skips inside a read, the parser is given the bytes that
\* came, in order and each once, but for the oldest ones of a full buffer,
\* although the handler sees the index half moved and skips while the main
\* loop waits, and the main loop sees the other index half written.
Queue == INSTANCE ByteQueue WITH Capacity <- RbSize - 1, q <- Unread

KeepsBytes ==
  Queue!Init /\ [][~crossed' => (Queue!Put \/ Queue!Get)]_<<Unread, came, read>>

\* A PC that keeps pace never brings the handler to that.
NeverCrossed == [](paced => ~crossed)

\* A byte waits for the main loop.
ByteWaits == Unread # <<>> /\ ~crossed

-----------------------------------------------------------------------------
\* ringbuf.h:5, "reading and writing of data in a circular buffer manner":
\* between reads the index is one of the ring.
IndexStaysInRing == pc = "away" => r \in Indices
=============================================================================
