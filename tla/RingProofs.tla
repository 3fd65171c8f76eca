----------------------------- MODULE RingProofs -----------------------------
(***************************************************************************)
(* Lemmas about ringbuf.h: its indices, the room in it, and its contents   *)
(* when a byte is taken out and when bytes are put in.                     *)
(***************************************************************************)
EXTENDS RingBuf, SequenceTheorems, TLAPS

-----------------------------------------------------------------------------
\* Arithmetic of the ring.
LEMMA SmallRemainder ==
  ASSUME NEW x \in Nat, NEW m \in Nat, x < m
  PROVE  x % m = x
  BY SMT

LEMMA RemainderInRange ==
  ASSUME NEW x \in Nat, NEW m \in Nat, m > 0
  PROVE  x % m \in 0 .. m - 1
  BY SMT

\* Free bytes of a consistent pair of indices: no wrap around WordSize.
LEMMA WritableValue ==
  ASSUME NEW x \in Indices, NEW y \in Indices
  PROVE  ringbuf_writable(x, y) =
           IF y >= x THEN RbSize - y + x - 1 ELSE x - y - 1
  BY RingAssumption, SmallRemainder DEF ringbuf_writable, WritableSeen, Indices

\* A byte taken out makes room for one.
LEMMA TakingMakesRoom ==
  ASSUME NEW x \in Indices, NEW y \in Indices, x # y
  PROVE  /\ Bump(x) \in Indices
         /\ ringbuf_writable(Bump(x), y) = ringbuf_writable(x, y) + 1
<1>1. Bump(x) \in Indices
  BY RingAssumption DEF Bump, Indices
<1>2. CASE x + 1 = RbSize
  BY <1>1, <1>2, RingAssumption, WritableValue DEF Bump, Indices
<1>3. CASE x + 1 # RbSize
  BY <1>1, <1>3, RingAssumption, WritableValue DEF Bump, Indices
<1> QED
  BY <1>1, <1>2, <1>3

\* An index that does not move is read as it is.
LEMMA SteadyIndexReadWhole ==
  ASSUME NEW x \in Indices
  PROVE  TwoViews(x, x) = {<<x, x>>}
<1>1. x % LowBase \in Int
  BY RingAssumption DEF Indices
<1>2. High(x) + (x % LowBase) = x
  BY <1>1 DEF High, Indices
<1>3. Views(x, x) = {x}
  BY <1>2 DEF Views, Mixed
<1> QED
  BY <1>3 DEF TwoViews

-----------------------------------------------------------------------------
\* Positions in the ring.
LEMMA RoundOnce ==
  ASSUME NEW x \in Int, NEW k \in Int, NEW m \in Nat, 0 <= x + k, x + k < m + m
  PROVE  (x + k) % m = IF x + k < m THEN x + k ELSE x + k - m
  BY SMT

LEMMA RoundOnceBefore ==
  ASSUME NEW x \in Int, NEW k \in Int, NEW m \in Nat, 0 <= x + k - 1, x + k - 1 < m + m
  PROVE  (x + k - 1) % m = IF x + k - 1 < m THEN x + k - 1 ELSE x + k - 1 - m
  BY SMT

LEMMA RoundBack ==
  ASSUME NEW x \in Int, NEW m \in Nat, -m <= x, x < m
  PROVE  x % m = IF x < 0 THEN x + m ELSE x
  BY SMT

LEMMA ReadableValue ==
  ASSUME NEW x \in Indices, NEW y \in Indices
  PROVE  /\ ringbuf_readable(x, y) \in 0 .. RbSize - 1
         /\ ringbuf_writable(x, y) = RbSize - 1 - ringbuf_readable(x, y)
         /\ ringbuf_readable(x, y) = 0 <=> x = y
  BY RingAssumption, WritableValue DEF ringbuf_readable, Indices

\* The contents are a sequence.
LEMMA ContentsLength ==
  ASSUME NEW S, NEW buf \in [Indices -> S], NEW x \in Indices, NEW y \in Indices
  PROVE  /\ Contents(buf, x, y) \in Seq(S)
         /\ Len(Contents(buf, x, y)) = ringbuf_readable(x, y)
<1> DEFINE m == ringbuf_readable(x, y)
<1>1. m \in Nat
  BY ReadableValue
<1>2. \A k \in 1 .. m : (x + k - 1) % RbSize \in Indices
  <2> TAKE k \in 1 .. m
  <2>1. x + k - 1 \in Nat
    BY <1>1 DEF Indices
  <2> QED
    BY <2>1, RingAssumption, RemainderInRange DEF Indices
<1>3. \A k \in 1 .. m : buf[(x + k - 1) % RbSize] \in S
  BY <1>2
<1> HIDE DEF m
<1>4. [k \in 1 .. m |-> buf[(x + k - 1) % RbSize]] \in Seq(S)
  BY <1>1, <1>3
<1>5. Len([k \in 1 .. m |-> buf[(x + k - 1) % RbSize]]) = m
  BY <1>1
<1> QED
  BY <1>4, <1>5 DEF Contents, m

\* The first byte to be read, and those behind it when it is taken.
LEMMA ContentsTaken ==
  ASSUME NEW S, NEW buf \in [Indices -> S], NEW x \in Indices, NEW y \in Indices, x # y
  PROVE  /\ Bump(x) \in Indices
         /\ Contents(buf, x, y) # <<>>
         /\ Head(Contents(buf, x, y)) = buf[x]
         /\ Tail(Contents(buf, x, y)) = Contents(buf, Bump(x), y)
<1> DEFINE m == ringbuf_readable(x, y)
           s == Contents(buf, x, y)
           t == Contents(buf, Bump(x), y)
<1>1. Bump(x) \in Indices
  BY TakingMakesRoom
<1>2. m \in 1 .. RbSize - 1 /\ ringbuf_readable(Bump(x), y) = m - 1
  <2>1. /\ m \in 0 .. RbSize - 1 /\ m # 0
        /\ ringbuf_writable(x, y) = RbSize - 1 - m
    BY ReadableValue
  <2>2. /\ ringbuf_readable(Bump(x), y) \in 0 .. RbSize - 1
        /\ ringbuf_writable(Bump(x), y) = RbSize - 1 - ringbuf_readable(Bump(x), y)
    BY <1>1, ReadableValue
  <2>3. ringbuf_writable(Bump(x), y) = ringbuf_writable(x, y) + 1
    BY TakingMakesRoom
  <2> HIDE DEF m
  <2> QED
    BY <2>1, <2>2, <2>3, RingAssumption
<1>3. /\ s \in Seq(S) /\ Len(s) = m
      /\ t \in Seq(S) /\ Len(t) = m - 1
  BY <1>1, <1>2, ContentsLength
<1>4. \A k \in 1 .. m : s[k] = buf[(x + k - 1) % RbSize]
  BY DEF Contents
<1>5. \A k \in 1 .. m - 1 : t[k] = buf[(Bump(x) + k - 1) % RbSize]
  BY <1>2 DEF Contents
<1>6. \A k \in 1 .. m - 1 : (Bump(x) + k - 1) % RbSize = (x + (k + 1) - 1) % RbSize
  <2> TAKE k \in 1 .. m - 1
  <2>1. x \in Nat /\ k \in Nat /\ x < RbSize /\ k < RbSize - 1 /\ 1 <= k
    BY <1>2, RingAssumption DEF Indices
  <2>2. CASE x + 1 = RbSize
    <3>1. (k - 1) % RbSize = k - 1
      BY <2>1, RingAssumption, SmallRemainder
    <3>2. (x + k) % RbSize = x + k - RbSize
      <4>1. /\ x \in Int /\ k \in Int /\ 0 <= x + k /\ x + k < RbSize + RbSize
            /\ ~(x + k < RbSize) /\ RbSize \in Nat
        BY <2>1, <2>2, RingAssumption
      <4> QED
        BY <4>1, RoundOnce
    <3> QED
      BY <2>1, <2>2, <3>1, <3>2, RingAssumption DEF Bump
  <2>3. CASE x + 1 # RbSize
    BY <2>1, <2>3 DEF Bump
  <2> QED
    BY <2>2, <2>3
<1>7. s # <<>> /\ Head(s) = s[1]
  BY <1>2, <1>3
<1>8. s[1] = buf[x]
  <2>1. x % RbSize = x
    BY RingAssumption, SmallRemainder DEF Indices
  <2>2. s[1] = buf[(x + 1 - 1) % RbSize]
    BY <1>2, <1>4
  <2> QED
    BY <2>1, <2>2 DEF Indices
<1>9. Tail(s) = t
  <2> HIDE DEF s, t, m
  <2>1. /\ Tail(s) \in Seq(S) /\ Len(Tail(s)) = m - 1
        /\ \A k \in 1 .. m - 1 : Tail(s)[k] = s[k + 1]
    BY <1>2, <1>3, <1>7, HeadTailProperties
  <2>2. \A k \in 1 .. m - 1 : s[k + 1] = t[k]
    <3> TAKE k \in 1 .. m - 1
    <3>1. k + 1 \in 1 .. m
      BY <1>2
    <3> QED
      BY <1>4, <1>5, <1>6, <3>1
  <2> QED
    BY <1>3, <2>1, <2>2, SeqEqual
<1> QED
  BY <1>1, <1>7, <1>8, <1>9

\* Bytes that fit are put behind those that are there.
LEMMA ContentsPut ==
  ASSUME NEW S, NEW buf \in [Indices -> S], NEW x \in Indices, NEW y \in Indices,
         NEW bytes \in Seq(S), Len(bytes) <= ringbuf_writable(x, y)
  PROVE  /\ WrittenAt(buf, y, bytes) \in [Indices -> S]
         /\ Behind(y, Len(bytes)) \in Indices
         /\ Contents(WrittenAt(buf, y, bytes), x, Behind(y, Len(bytes)))
              = Contents(buf, x, y) \o bytes
<1> DEFINE m == ringbuf_readable(x, y)
           l == Len(bytes)
           z == Behind(y, l)
           new == WrittenAt(buf, y, bytes)
           pos(i) == (i - y) % RbSize
<1>1. /\ RbSize \in Nat /\ x \in Nat /\ y \in Nat /\ x < RbSize /\ y < RbSize /\ 2 <= RbSize
      /\ l \in Nat /\ l <= RbSize - 1 - m /\ m \in 0 .. RbSize - 1
  BY RingAssumption, ReadableValue, LenProperties DEF Indices
<1>2. z \in Indices /\ z = IF y + l < RbSize THEN y + l ELSE y + l - RbSize
  <2>1. y \in Int /\ l \in Int /\ 0 <= y + l /\ y + l < RbSize + RbSize
    BY <1>1
  <2>2. (y + l) % RbSize = IF y + l < RbSize THEN y + l ELSE y + l - RbSize
    BY <1>1, <2>1, RoundOnce
  <2>3. z = IF y + l < RbSize THEN y + l ELSE y + l - RbSize
    BY <2>2, Zenon DEF Behind
  <2> HIDE DEF z, l, m
  <2> QED
    BY <1>1, <2>3 DEF Indices
<1>3. \A i \in Indices : pos(i) = IF i < y THEN i - y + RbSize ELSE i - y
  <2> TAKE i \in Indices
  <2>1. i - y \in Int /\ -RbSize <= i - y /\ i - y < RbSize /\ i \in Int
    BY <1>1 DEF Indices
  <2>2. (i - y) % RbSize = IF i - y < 0 THEN i - y + RbSize ELSE i - y
    BY <1>1, <2>1, RoundBack
  <2> QED
    BY <1>1, <2>1, <2>2
<1>4. \A i \in Indices : new[i] = IF pos(i) + 1 <= l THEN bytes[pos(i) + 1] ELSE buf[i]
  BY DEF WrittenAt
<1>5. new \in [Indices -> S]
  <2>1. \A i \in Indices : new[i] \in S
    <3> TAKE i \in Indices
    <3>1. pos(i) \in Nat
      BY <1>1, <1>3 DEF Indices
    <3>2. pos(i) + 1 <= l => bytes[pos(i) + 1] \in S
      BY <1>1, <3>1, ElementOfSeq
    <3> QED
      BY <1>4, <3>2
  <2> QED
    BY <2>1 DEF WrittenAt
<1>6. ringbuf_readable(x, z) = m + l
  BY <1>1, <1>2 DEF ringbuf_readable
<1>7. \A k \in 1 .. m + l :
        (x + k - 1) % RbSize = IF x + k - 1 < RbSize THEN x + k - 1 ELSE x + k - 1 - RbSize
  <2> TAKE k \in 1 .. m + l
  <2>1. x \in Int /\ k \in Int /\ 0 <= x + k - 1 /\ x + k - 1 < RbSize + RbSize
    BY <1>1
  <2> QED
    BY <1>1, <2>1, RoundOnceBefore
<1>8. \A k \in 1 .. m + l : (x + k - 1) % RbSize \in Indices
  BY <1>1, <1>7 DEF Indices
<1>9. \A k \in 1 .. m + l :
        /\ k <= m => pos((x + k - 1) % RbSize) >= l
        /\ k > m => pos((x + k - 1) % RbSize) = k - m - 1
  <2> TAKE k \in 1 .. m + l
  <2> DEFINE i == (x + k - 1) % RbSize
  <2>1. i \in Indices /\ i = IF x + k - 1 < RbSize THEN x + k - 1 ELSE x + k - 1 - RbSize
    BY <1>7, <1>8
  <2>2. pos(i) = IF i < y THEN i - y + RbSize ELSE i - y
    BY <1>3, <2>1
  <2>3. m = IF y >= x THEN y - x ELSE RbSize - x + y
    BY DEF ringbuf_readable
  <2> HIDE DEF i, pos, m, l
  <2>4. k \in 1 .. m + l
    OBVIOUS
  <2>5. pos(i) >= l \/ k > m
    BY <1>1, <2>1, <2>2, <2>3, <2>4
  <2>6. k > m => pos(i) = k - m - 1
    BY <1>1, <2>1, <2>2, <2>3, <2>4
  <2> QED
    BY <1>1, <2>5, <2>6 DEF i
<1>10. /\ Contents(buf, x, y) \in Seq(S) /\ Len(Contents(buf, x, y)) = m
       /\ Contents(new, x, z) \in Seq(S) /\ Len(Contents(new, x, z)) = m + l
  <2>1. Contents(buf, x, y) \in Seq(S) /\ Len(Contents(buf, x, y)) = m
    BY ContentsLength
  <2> HIDE DEF new, z
  <2>2. Contents(new, x, z) \in Seq(S) /\ Len(Contents(new, x, z)) = ringbuf_readable(x, z)
    BY <1>2, <1>5, ContentsLength
  <2> QED
    BY <1>6, <2>1, <2>2
<1>11. \A k \in 1 .. m + l :
         Contents(new, x, z)[k] = (Contents(buf, x, y) \o bytes)[k]
  <2> TAKE k \in 1 .. m + l
  <2>1. Contents(new, x, z)[k] = new[(x + k - 1) % RbSize]
    BY <1>6 DEF Contents
  <2>2. (Contents(buf, x, y) \o bytes)[k] =
          IF k <= m THEN Contents(buf, x, y)[k] ELSE bytes[k - m]
    BY <1>10, ConcatProperties
  <2>3. CASE k <= m
    <3>1. Contents(buf, x, y)[k] = buf[(x + k - 1) % RbSize]
      BY <2>3 DEF Contents
    <3>2. pos((x + k - 1) % RbSize) >= l /\ pos((x + k - 1) % RbSize) \in Int
      BY <1>1, <1>3, <1>8, <1>9, <2>3 DEF Indices
    <3>3. new[(x + k - 1) % RbSize] = buf[(x + k - 1) % RbSize]
      <4> DEFINE i == (x + k - 1) % RbSize
      <4>1. i \in Indices /\ pos(i) >= l /\ pos(i) \in Int
        BY <1>8, <3>2, Zenon
      <4>2. l \in Int
        BY <1>1
      <4> HIDE DEF pos, new, l, m, i
      <4>3. new[i] = buf[i]
        BY <1>4, <4>1, <4>2
      <4> QED
        BY <4>3, Zenon DEF i
    <3> QED
      BY <2>1, <2>2, <2>3, <3>1, <3>3
  <2>4. CASE k > m
    <3>1. pos((x + k - 1) % RbSize) = k - m - 1
      BY <1>9, <2>4
    <3>2. new[(x + k - 1) % RbSize] = bytes[k - m]
      <4> DEFINE i == (x + k - 1) % RbSize
      <4>1. k \in 1 .. m + l
        OBVIOUS
      <4>2. i \in Indices /\ pos(i) = k - m - 1
        BY <1>8, <3>1, <4>1, Zenon
      <4> HIDE DEF pos, new, l, m, i
      <4>3. pos(i) + 1 = k - m /\ pos(i) + 1 <= l
        BY <1>1, <2>4, <4>1, <4>2
      <4>4. new[i] = bytes[k - m]
        BY <1>4, <4>2, <4>3
      <4> QED
        BY <4>4, Zenon DEF i
    <3> QED
      BY <1>1, <2>1, <2>2, <2>4, <3>2
  <2>5. k <= m \/ k > m
    BY <1>1
  <2> QED
    BY <2>3, <2>4, <2>5, Zenon
<1>12. Contents(buf, x, y) \o bytes \in Seq(S) /\ Len(Contents(buf, x, y) \o bytes) = m + l
  BY <1>10, ConcatProperties
<1>13. Contents(new, x, z) = Contents(buf, x, y) \o bytes
  <2> HIDE DEF new, z, m, l
  <2> QED
    BY <1>10, <1>11, <1>12, SeqEqual
<1> QED
  BY <1>2, <1>5, <1>13

\* A sequence is its head and its tail.
LEMMA HeadAndTail ==
  ASSUME NEW S, NEW s \in Seq(S), s # <<>>
  PROVE  /\ Head(s) \in S /\ Tail(s) \in Seq(S)
         /\ <<Head(s)>> \o Tail(s) = s
<1> DEFINE h == <<Head(s)>>
           t == Tail(s)
           n == Len(s)
<1>1. n \in Nat \ {0}
  BY EmptySeq
<1>2. /\ Head(s) \in S /\ t \in Seq(S) /\ Len(t) = n - 1
      /\ \A k \in 1 .. n - 1 : t[k] = s[k + 1]
  BY HeadTailProperties
<1>3. Head(s) = s[1]
  BY <1>1
<1>4. h \in Seq(S) /\ Len(h) = 1 /\ h[1] = s[1] /\ t \in Seq(S)
  BY <1>2, <1>3
<1> HIDE DEF h, t, n
<1>5. /\ h \o t \in Seq(S) /\ Len(h \o t) = Len(h) + Len(t)
      /\ \A k \in 1 .. Len(h) + Len(t) :
           (h \o t)[k] = IF k <= Len(h) THEN h[k] ELSE t[k - Len(h)]
  BY <1>4, ConcatProperties
<1>6. Len(h) = 1 /\ Len(h) + Len(t) = n
  BY <1>1, <1>2, <1>4
<1>7. \A k \in 1 .. n : (h \o t)[k] = s[k]
  <2> TAKE k \in 1 .. n
  <2>1. CASE k = 1
    BY <1>1, <1>4, <1>5, <1>6, <2>1
  <2>2. CASE k # 1
    <3>1. k - 1 \in 1 .. n - 1 /\ (k - 1) + 1 = k /\ ~(k <= 1)
      BY <1>1, <2>2
    <3>2. (h \o t)[k] = t[k - 1]
      BY <1>5, <1>6, <3>1
    <3> QED
      BY <1>2, <3>1, <3>2
  <2> QED
    BY <2>1, <2>2
<1>8. h \o t = s
  BY <1>5, <1>6, <1>7, SeqEqual DEF n
<1> QED
  BY <1>2, <1>8 DEF h, t

\* An index at the size goes back to the start.
LEMMA AtMostSize ==
  ASSUME NEW x \in Nat, NEW m \in Nat, x <= m, m > 0
  PROVE  x % m = IF x = m THEN 0 ELSE x
  BY SMT

\* A byte is put behind the contents.
Appends(after, buf, x, y, e) ==
  /\ Bump(y) \in Indices
  /\ Contents(after, x, Bump(y)) = Append(Contents(buf, x, y), e)
  /\ ringbuf_readable(x, Bump(y)) = ringbuf_readable(x, y) + 1

LEMMA ContentsAppended ==
  ASSUME NEW S, NEW buf \in [Indices -> S], NEW x \in Indices, NEW y \in Indices, NEW e \in S,
         ringbuf_writable(x, y) # 0
  PROVE  Appends([buf EXCEPT ![y] = e], buf, x, y, e)
<1> DEFINE u == <<e>>
<1>1. u \in Seq(S) /\ Len(u) = 1 /\ u[1] = e
  OBVIOUS
<1>2. /\ ringbuf_readable(x, y) \in 0 .. RbSize - 1
      /\ ringbuf_writable(x, y) = RbSize - 1 - ringbuf_readable(x, y)
  BY ReadableValue
<1>3. Len(u) <= ringbuf_writable(x, y)
  BY <1>1, <1>2, RingAssumption
<1>4. Behind(y, Len(u)) = Bump(y)
  <2>1. y + 1 \in Nat /\ y + 1 <= RbSize /\ RbSize \in Nat /\ RbSize > 0
    BY RingAssumption DEF Indices
  <2>2. (y + 1) % RbSize = IF y + 1 = RbSize THEN 0 ELSE y + 1
    <3> DEFINE i == y + 1
    <3> HIDE DEF i
    <3>1. i \in Nat /\ i <= RbSize
      BY <2>1 DEF i
    <3>2. i % RbSize = IF i = RbSize THEN 0 ELSE i
      BY <2>1, <3>1, AtMostSize
    <3> QED
      BY <3>2, Zenon DEF i
  <2> QED
    BY <1>1, <2>2 DEF Behind, Bump
<1>5. WrittenAt(buf, y, u) = [buf EXCEPT ![y] = e]
  <2>1. ASSUME NEW i \in Indices
        PROVE  (IF ((i - y) % RbSize) + 1 <= Len(u) THEN u[((i - y) % RbSize) + 1] ELSE buf[i])
                 = IF i = y THEN e ELSE buf[i]
    <3>1. i - y \in Int /\ -RbSize <= i - y /\ i - y < RbSize /\ RbSize \in Nat
          /\ i \in Int /\ y \in Int /\ -RbSize < i - y
      BY RingAssumption DEF Indices
    <3>2. (i - y) % RbSize = IF i - y < 0 THEN i - y + RbSize ELSE i - y
      BY <3>1, RoundBack
    <3>3. CASE i = y
      <4>1. (i - y) % RbSize = 0
        BY <3>1, <3>2, <3>3
      <4> HIDE DEF u
      <4> QED
        BY <1>1, <3>3, <4>1
    <3>4. CASE i # y
      <4>1. (i - y) % RbSize \in Nat /\ (i - y) % RbSize > 0
        BY <3>1, <3>2, <3>4
      <4> HIDE DEF u
      <4> QED
        BY <1>1, <3>4, <4>1
    <3> QED
      BY <3>3, <3>4
  <2> HIDE DEF u
  <2>2. WrittenAt(buf, y, u) = [i \in Indices |-> IF i = y THEN e ELSE buf[i]]
    BY <2>1 DEF WrittenAt
  <2>3. [buf EXCEPT ![y] = e] = [i \in Indices |-> IF i = y THEN e ELSE buf[i]]
    OBVIOUS
  <2> QED
    BY <2>2, <2>3
<1>6. Contents(buf, x, y) \in Seq(S)
  BY ContentsLength
<1>7. /\ WrittenAt(buf, y, u) \in [Indices -> S]
      /\ Behind(y, Len(u)) \in Indices
      /\ Contents(WrittenAt(buf, y, u), x, Behind(y, Len(u))) = Contents(buf, x, y) \o u
  <2> HIDE DEF u
  <2> QED
    <3>1. \A b \in Seq(S) : Len(b) <= ringbuf_writable(x, y) =>
            /\ WrittenAt(buf, y, b) \in [Indices -> S]
            /\ Behind(y, Len(b)) \in Indices
            /\ Contents(WrittenAt(buf, y, b), x, Behind(y, Len(b))) = Contents(buf, x, y) \o b
      BY ContentsPut
    <3> QED
      BY <1>1, <1>3, <3>1
<1>8. Append(Contents(buf, x, y), e) = Contents(buf, x, y) \o u
  BY <1>6, AppendIsConcat
<1>9. ringbuf_readable(x, Bump(y)) = ringbuf_readable(x, y) + 1
  <2>1. Bump(y) \in Indices
    BY <1>4, <1>7
  <2>2. x \in Int /\ y \in Int /\ RbSize \in Int /\ 0 <= x /\ x < RbSize /\ 0 <= y /\ y < RbSize
    BY RingAssumption DEF Indices
  <2>3. ringbuf_readable(x, y) < RbSize - 1
    BY <1>2, <2>2
  <2>4. CASE y + 1 = RbSize
    BY <2>2, <2>3, <2>4 DEF ringbuf_readable, Bump
  <2>5. CASE y + 1 # RbSize
    BY <2>2, <2>3, <2>5 DEF ringbuf_readable, Bump
  <2> QED
    BY <2>4, <2>5
<1> QED
  <2> HIDE DEF u
  <2> QED
    BY <1>4, <1>5, <1>7, <1>8, <1>9, Zenon DEF Appends
=============================================================================
