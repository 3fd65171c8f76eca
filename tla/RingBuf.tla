------------------------------ MODULE RingBuf -------------------------------
(***************************************************************************)
(* ringbuf.h: a ring of RbSize bytes that is empty when its two indices    *)
(* are equal and full one byte short of RbSize.  The CPU has eight bits    *)
(* and reads an index of sixteen in two halves; an interrupt between them  *)
(* yields one half of the old value and one of the new.                    *)
(***************************************************************************)
EXTENDS Integers, Sequences

CONSTANTS
  RbSize,    \* bytes in a buffer (1024 in the application, 256 in the boot loader)
  LowBase,   \* values of the low half of an index (256)
  WordSize   \* values of a whole index (65536)

ASSUME RingAssumption ==
  /\ RbSize \in Nat /\ LowBase \in Nat /\ WordSize \in Nat
  /\ 2 <= RbSize /\ RbSize < WordSize /\ 2 <= LowBase
  /\ RbSize % LowBase = 0

Indices == 0 .. RbSize - 1

Bump(x) == IF x + 1 = RbSize THEN 0 ELSE x + 1

\* Mutant: two bytes are kept free.
KeepsTwoFree(w, compared, subtracted) ==
  (IF w >= compared THEN RbSize - w + subtracted - 2 ELSE subtracted - w - 2) % WordSize

\* The macros read the other side's index twice, to compare and to subtract.
WritableSeen(w, compared, subtracted) ==
  (IF w >= compared THEN RbSize - w + subtracted - 1 ELSE subtracted - w - 1) % WordSize

ringbuf_writable(r, w) == WritableSeen(w, r, r)

ringbuf_readable(r, w) == IF w >= r THEN w - r ELSE RbSize - r + w

\* The k-th byte to be read, and all of them.
Contents(buf, r, w) ==
  [k \in 1 .. ringbuf_readable(r, w) |-> buf[(r + k - 1) % RbSize]]

\* The buffer after bytes were written at w, and the index behind them.
WrittenAt(buf, w, bytes) ==
  [x \in Indices |-> LET k == ((x - w) % RbSize) + 1
                     IN  IF k <= Len(bytes) THEN bytes[k] ELSE buf[x]]

Behind(w, n) == (w + n) % RbSize

\* ringbuf_write_n gives up what does not fit.
Fitting(r, w, bytes) ==
  IF Len(bytes) <= ringbuf_writable(r, w) THEN bytes
  ELSE SubSeq(bytes, 1, ringbuf_writable(r, w))

-----------------------------------------------------------------------------
\* What a reader sees of an index that moves from old to new meanwhile.
High(x) == x - (x % LowBase)

Mixed(old, new) == {High(old) + (new % LowBase), High(new) + (old % LowBase)}

Views(old, new) == {old, new} \cup Mixed(old, new)

\* The same for two reads in a row, when the index moves once at the most.
TwoViews(old, new) ==
  {<<v, new>> : v \in Views(old, new)} \cup {<<old, v>> : v \in Views(old, new)}
=============================================================================
