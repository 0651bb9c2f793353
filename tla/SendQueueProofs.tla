--------------------------- MODULE SendQueueProofs ---------------------------
(* Theorems about SendQueue, for any ring, any number of producers and any *)
(* messages.  The cells have places that never wrap (CycleBufferProofs):   *)
(* message i of those in the buffer, lo..hi-1, begins at place b[i].       *)
EXTENDS SendQueue, CycleBufferProofs

FrameLen(m) == HeaderLen + PayloadLen[m]

\* The k-th cell of a message, counted from 0.
Mark(m, k) == IF k < HeaderLen THEN [of |-> m, part |-> "header", at |-> k + 1]
              ELSE [of |-> m, part |-> "payload", at |-> k - HeaderLen + 1]

Fits(m) == m \in Messages /\ FrameLen(m) < MaxFrame

\* The messages lo..hi-1 lie one behind the other, and what the ring still has of them,
\* from place o on, is in its cells.
Placed(f, lo, hi, o, b, ms) ==
  /\ lo <= hi
  /\ (f.out % Size) = (o % Size)
  /\ \A i \in lo..(hi - 1) :
       /\ Fits(ms[i])
       /\ b[i + 1] = b[i] + FrameLen(ms[i])
       /\ \A k \in 0..(FrameLen(ms[i]) - 1) :
            b[i] + k >= o => f.buf[(b[i] + k) % Size] = Mark(ms[i], k)
  /\ \A i \in lo..hi : b[hi] - b[i] >= 2 * (hi - i)

Counted(f, n) == f.item_num = n /\ Items(f.total_write, f.total_read) = n

Starts == [Int -> Int]
Kinds == [Int -> Messages \cup {Nobody}]

\* They are those of q.
Listed(q, lo, hi, ms) ==
  /\ q \in Seq(Messages) /\ Len(q) = hi - lo
  /\ \A j \in 1..Len(q) : q[j] = ms[lo + j - 1]

\* The messages of q are in the ring, and nobody is in the middle of one.
Rest(f, q) ==
  \E lo, hi, o \in Int, b \in Starts, ms \in Kinds :
    /\ Placed(f, lo, hi, o, b, ms) /\ Listed(q, lo, hi, ms)
    /\ b[lo] = o /\ b[hi] = o + fifo_len(f)
    /\ Counted(f, 2 * (hi - lo))

\* The header of m has been put behind the last message.
PutMid(f, m, q) ==
  \E lo, hi, o \in Int, b \in Starts, ms \in Kinds :
    /\ Placed(f, lo, hi, o, b, ms) /\ Listed(q, lo, hi, ms)
    /\ b[lo] = o /\ b[hi] + HeaderLen = o + fifo_len(f)
    /\ \A k \in 0..(HeaderLen - 1) : f.buf[(b[hi] + k) % Size] = Mark(m, k)
    /\ Counted(f, 2 * (hi - lo) + 1)

\* The header of the first message of q, m, has been taken.
GetMid(f, m, q) ==
  \E lo, hi, o \in Int, b \in Starts, ms \in Kinds :
    /\ Placed(f, lo, hi, o, b, ms) /\ Listed(q, lo, hi, ms)
    /\ lo < hi /\ ms[lo] = m
    /\ b[lo] + HeaderLen = o /\ b[hi] = o + fifo_len(f)
    /\ Counted(f, 2 * (hi - lo) - 1)

Ring(f) == f \in Rings(Cells) /\ fifo_len(f) <= Size

-----------------------------------------------------------------------------
(* Headers and payloads.                                                   *)

LEMMA Lengths ==
  ASSUME NEW m \in Messages
  PROVE  /\ HeaderLen \in Nat \ {0} /\ PayloadLen[m] \in Nat \ {0}
         /\ FrameLen(m) \in Nat /\ FrameLen(m) >= 2
         /\ Size \in Nat \ {0} /\ WrapAt \in Nat /\ WrapAt > Size
  <1>1. HeaderLen \in Nat \ {0} /\ PayloadLen[m] \in Nat \ {0}
    BY QueueAssumption DEF QueueAssumption
  <1> QED
    BY <1>1, BufferAssumption DEF BufferAssumption, FrameLen

LEMMA Parts ==
  ASSUME NEW m, Fits(m)
  PROVE  /\ Header(m) \in Seq(Cells) /\ Len(Header(m)) = HeaderLen /\ Header(m) # <<>>
         /\ Payload(m) \in Seq(Cells) /\ Len(Payload(m)) = PayloadLen[m]
         /\ Payload(m) # <<>>
         /\ \A k \in 0..(HeaderLen - 1) : Header(m)[k + 1] = Mark(m, k)
         /\ \A k \in 0..(PayloadLen[m] - 1) : Payload(m)[k + 1] = Mark(m, HeaderLen + k)
  <1>1. m \in Messages /\ HeaderLen + PayloadLen[m] < MaxFrame
    BY DEF Fits, FrameLen
  <1>2. HeaderLen \in Nat \ {0} /\ PayloadLen[m] \in Nat \ {0} /\ MaxFrame \in Nat
    BY <1>1, QueueAssumption DEF QueueAssumption
  <1> DEFINE H(k) == [of |-> m, part |-> "header", at |-> k]
             P(k) == [of |-> m, part |-> "payload", at |-> k]
             n == PayloadLen[m]
  <1>3. \A k \in 1..HeaderLen : H(k) \in Cells
    BY <1>1, <1>2 DEF Cells
  <1>4. \A k \in 1..n : P(k) \in Cells
    BY <1>1, <1>2 DEF Cells
  <1>5. Header(m) \in Seq(Cells) /\ Len(Header(m)) = HeaderLen /\ Header(m) # <<>>
        /\ \A k \in 1..HeaderLen : Header(m)[k] = H(k)
    <2> HIDE DEF H
    <2>1. Header(m) = [k \in 1..HeaderLen |-> H(k)]
      BY DEF Header, H
    <2> QED
      BY <1>2, <1>3, <2>1
  <1>6. Payload(m) \in Seq(Cells) /\ Len(Payload(m)) = n /\ Payload(m) # <<>>
        /\ \A k \in 1..n : Payload(m)[k] = P(k)
    <2>1. Payload(m) = [k \in 1..n |-> P(k)]
      BY DEF Payload
    <2>2. n \in Nat \ {0}
      BY <1>2
    <2> HIDE DEF P, n
    <2> QED
      BY <1>4, <2>1, <2>2
  <1>7. ASSUME NEW k \in 0..(HeaderLen - 1)
        PROVE  Header(m)[k + 1] = Mark(m, k)
    <2>1. k + 1 \in 1..HeaderLen /\ k < HeaderLen
      BY <1>2
    <2> QED
      BY <1>5, <2>1 DEF Mark
  <1>8. ASSUME NEW k \in 0..(n - 1)
        PROVE  Payload(m)[k + 1] = Mark(m, HeaderLen + k)
    <2>1. k + 1 \in 1..n /\ ~(HeaderLen + k < HeaderLen) /\ HeaderLen + k - HeaderLen + 1 = k + 1
      BY <1>2
    <2>2. Payload(m)[k + 1] = P(k + 1)
      BY <1>6, <2>1
    <2>3. Mark(m, HeaderLen + k) = P(k + 1)
      <3> DEFINE h == HeaderLen + k
      <3>1. ~(h < HeaderLen) /\ h - HeaderLen + 1 = k + 1
        BY <1>2, <2>1
      <3> HIDE DEF h
      <3>2. Mark(m, h) = P(k + 1)
        BY <3>1, Zenon DEF Mark
      <3> QED
        BY <3>2 DEF h
    <2> QED
      BY <2>2, <2>3
  <1> QED
    BY <1>5, <1>6, <1>7, <1>8

-----------------------------------------------------------------------------
(* What a step of the ring does to the messages in it.                     *)

\* A put leaves what is there alone.
LEMMA PlacedPut ==
  ASSUME NEW f, Ring(f), NEW data \in Seq(Cells), data # <<>>,
         NEW lo \in Int, NEW hi \in Int, NEW o \in Int, NEW b \in Starts, NEW ms \in Kinds,
         Placed(f, lo, hi, o, b, ms), b[hi] <= o + fifo_len(f)
  PROVE  Placed(fifo_put(f, data), lo, hi, o, b, ms)
  <1> DEFINE g == fifo_put(f, data)
             len == fifo_len(f)
  <1>1. f \in Rings(Cells) /\ fifo_len(f) <= Size
    BY DEF Ring
  <1>2. len \in Nat
    <2>1. fifo_len(f) \in 0..Size
      BY <1>1, EndIs, Zenon
    <2> QED
      BY <2>1, BufferAssumption DEF BufferAssumption
  <1>3. (f.out % Size) = (o % Size) /\ g.out = f.out
    BY <1>1, PutFields, Zenon DEF Placed
  <1>4. \A x \in o..(o + len - 1) : g.buf[x % Size] = f.buf[x % Size]
    <2>1. \A x \in o..(o + fifo_len(f) - 1) : fifo_put(f, data).buf[x % Size] = f.buf[x % Size]
      BY <1>1, <1>3, PutCells
    <2> QED
      BY <2>1
  <1> HIDE DEF g, len
  <1>5. b[hi] <= o + len
    BY DEF len
  <1>6. ASSUME NEW i \in lo..(hi - 1), NEW k \in 0..(FrameLen(ms[i]) - 1), b[i] + k >= o
        PROVE  g.buf[(b[i] + k) % Size] = Mark(ms[i], k)
    <2>1. Fits(ms[i]) /\ b[i + 1] = b[i] + FrameLen(ms[i]) /\ i + 1 \in lo..hi
      BY DEF Placed
    <2>2. b[hi] - b[i + 1] >= 2 * (hi - (i + 1))
      BY <2>1 DEF Placed
    <2>3. b[i] \in Int /\ b[i + 1] \in Int /\ b[hi] \in Int /\ FrameLen(ms[i]) \in Nat
      <3>1. i \in Int /\ i + 1 \in Int
        OBVIOUS
      <3>2. FrameLen(ms[i]) \in Nat
        BY <2>1, Lengths DEF Fits
      <3> QED
        BY <3>1, <3>2 DEF Starts
    <2> DEFINE x == b[i] + k
    <2>4. x \in o..(o + len - 1)
      <3>1. hi - (i + 1) \in Nat
        OBVIOUS
      <3>2. b[i + 1] <= b[hi]
        BY <2>2, <2>3, <3>1
      <3>3. x \in Int /\ x < b[i] + FrameLen(ms[i])
        BY <2>3
      <3> QED
        BY <1>2, <1>5, <1>6, <2>1, <2>3, <3>2, <3>3
    <2>5. f.buf[x % Size] = Mark(ms[i], k)
      BY <1>6 DEF Placed
    <2> HIDE DEF x
    <2>6. g.buf[x % Size] = Mark(ms[i], k)
      BY <1>4, <2>4, <2>5
    <2> QED
      BY <2>6 DEF x
  <1>7. Placed(g, lo, hi, o, b, ms)
    BY <1>3, <1>6 DEF Placed
  <1> QED
    BY <1>7 DEF g

\* A get moves the place where the ring begins.
LEMMA PlacedGet ==
  ASSUME NEW f, Ring(f), NEW l \in Nat \ {0},
         NEW lo \in Int, NEW hi \in Int, NEW o \in Int, NEW b \in Starts, NEW ms \in Kinds,
         Placed(f, lo, hi, o, b, ms)
  PROVE  Placed(fifo_get(f, l), lo, hi, o + GetLen(f, l), b, ms)
  <1> DEFINE g == fifo_get(f, l)
             n == GetLen(f, l)
  <1>1. f \in Rings(Cells) /\ fifo_len(f) <= Size /\ (f.out % Size) = (o % Size)
    BY DEF Ring, Placed
  <1>2. g.buf = f.buf /\ (g.out % Size) = (o + n) % Size
    BY <1>1, GetFields, Zenon
  <1>3. n \in Nat
    <2>1. n \in 0..l
      BY <1>1, GetLenIs
    <2> QED
      BY <2>1
  <1> HIDE DEF g, n
  <1>4. ASSUME NEW i \in lo..(hi - 1), NEW k \in 0..(FrameLen(ms[i]) - 1), b[i] + k >= o + n
        PROVE  g.buf[(b[i] + k) % Size] = Mark(ms[i], k)
    <2>1. Fits(ms[i])
      BY DEF Placed
    <2>2. b[i] \in Int /\ k \in Int
      BY <2>1, Lengths DEF Starts, Fits
    <2>3. b[i] + k >= o
      BY <1>3, <1>4, <2>2
    <2>4. f.buf[(b[i] + k) % Size] = Mark(ms[i], k)
      BY <2>3 DEF Placed
    <2> QED
      BY <1>2, <2>4
  <1>5. Placed(g, lo, hi, o + n, b, ms)
    BY <1>2, <1>4 DEF Placed
  <1> QED
    BY <1>5 DEF g, n

LEMMA CountedPut ==
  ASSUME NEW f, Ring(f), NEW data \in Seq(Cells), data # <<>>,
         NEW n \in Nat, Counted(f, n), n < WrapAt - 1
  PROVE  Counted(fifo_put(f, data), n + 1)
  <1> DEFINE g == fifo_put(f, data)
  <1>1. f \in Rings(Cells) /\ fifo_len(f) <= Size
    BY DEF Ring
  <1>2. /\ g.total_read = f.total_read /\ g.total_write = Tick(f.total_write)
        /\ g.item_num = Items(Tick(f.total_write), f.total_read)
    BY <1>1, PutFields, Zenon
  <1>3. f.total_write \in 0..(WrapAt - 1) /\ f.total_read \in 0..(WrapAt - 1)
    BY <1>1 DEF Rings
  <1>4. Items(Tick(f.total_write), f.total_read) = n + 1
    BY <1>3, TickItems DEF Counted
  <1> QED
    BY <1>2, <1>4 DEF Counted

LEMMA CountedGet ==
  ASSUME NEW f, Ring(f), NEW l \in Nat \ {0},
         NEW n \in Nat, Counted(f, n), n > 0
  PROVE  Counted(fifo_get(f, l), n - 1)
  <1> DEFINE g == fifo_get(f, l)
  <1>1. f \in Rings(Cells) /\ fifo_len(f) <= Size
    BY DEF Ring
  <1>2. f.total_write \in 0..(WrapAt - 1) /\ f.total_read \in 0..(WrapAt - 1) /\ f.out \in Int
    BY <1>1, BufferAssumption DEF Rings, BufferAssumption
  <1>3. /\ g.total_write = f.total_write /\ g.total_read = Tick(f.total_read)
        /\ g.item_num = Items(f.total_write, Tick(f.total_read))
    BY <1>1, <1>2, GetFields, Zenon
  <1>4. Items(f.total_write, Tick(f.total_read)) = n - 1
    BY <1>2, TickItems DEF Counted
  <1> QED
    BY <1>3, <1>4 DEF Counted

\* Each message in the buffer has two cells at least: the count stays below the limit of
\* the totals.
LEMMA Room ==
  ASSUME NEW f, Ring(f),
         NEW lo \in Int, NEW hi \in Int, NEW o \in Int, NEW b \in Starts, NEW ms \in Kinds,
         Placed(f, lo, hi, o, b, ms)
  PROVE  /\ fifo_len(f) \in 0..Size /\ Size \in Nat /\ WrapAt \in Nat /\ Size < WrapAt
         /\ hi - lo \in Nat /\ b[lo] \in Int /\ b[hi] \in Int
         /\ 2 * (hi - lo) <= b[hi] - b[lo]
  <1>1. fifo_len(f) \in 0..Size
    BY EndIs DEF Ring
  <1>2. lo \in lo..hi /\ hi - lo \in Nat
    BY DEF Placed
  <1>3. b[hi] - b[lo] >= 2 * (hi - lo)
    BY <1>2 DEF Placed
  <1>4. b[lo] \in Int /\ b[hi] \in Int
    BY DEF Starts
  <1> QED
    BY <1>1, <1>2, <1>3, <1>4, BufferAssumption DEF BufferAssumption

LEMMA ListedPut ==
  ASSUME NEW q, NEW lo \in Int, NEW hi \in Int, NEW ms \in Kinds, NEW ns \in Kinds,
         Listed(q, lo, hi, ms), NEW m \in Messages,
         ns[hi] = m, \A i \in Int : i # hi => ns[i] = ms[i]
  PROVE  Listed(Append(q, m), lo, hi + 1, ns)
  <1> DEFINE a == Append(q, m)
  <1>1. q \in Seq(Messages) /\ Len(q) = hi - lo /\ Len(q) \in Nat
    BY DEF Listed
  <1>2. /\ a \in Seq(Messages) /\ Len(a) = Len(q) + 1 /\ a[Len(q) + 1] = m
        /\ \A j \in 1..Len(q) : a[j] = q[j]
    BY <1>1
  <1> HIDE DEF a
  <1>3. ASSUME NEW j \in 1..Len(a)
        PROVE  a[j] = ns[lo + j - 1]
    <2>1. CASE j = Len(q) + 1
      <3>1. lo + j - 1 = hi
        BY <1>1, <2>1
      <3> QED
        BY <1>2, <2>1, <3>1
    <2>2. CASE j # Len(q) + 1
      <3>1. j \in 1..Len(q) /\ lo + j - 1 \in Int /\ lo + j - 1 # hi
        BY <1>1, <1>2, <2>2
      <3>2. q[j] = ms[lo + j - 1]
        BY <3>1 DEF Listed
      <3> QED
        BY <1>2, <3>1, <3>2
    <2> QED
      BY <2>1, <2>2
  <1>4. Listed(a, lo, hi + 1, ns)
    BY <1>1, <1>2, <1>3 DEF Listed
  <1> QED
    BY <1>4 DEF a

LEMMA ListedGet ==
  ASSUME NEW q, NEW lo \in Int, NEW hi \in Int, NEW ms \in Kinds,
         Listed(q, lo, hi, ms), lo < hi
  PROVE  /\ q # <<>> /\ Head(q) = ms[lo]
         /\ Listed(SubSeq(q, 2, Len(q)), lo + 1, hi, ms)
  <1> DEFINE t == SubSeq(q, 2, Len(q))
  <1>1. q \in Seq(Messages) /\ Len(q) = hi - lo /\ Len(q) \in Nat /\ Len(q) > 0
    BY DEF Listed
  <1>2. Head(q) = ms[lo]
    <2>1. 1 \in 1..Len(q) /\ lo + 1 - 1 = lo
      BY <1>1
    <2>2. q[1] = ms[lo]
      BY <2>1 DEF Listed
    <2> QED
      BY <1>1, <2>2
  <1>3. /\ t \in Seq(Messages) /\ Len(t) = Len(q) - 1
        /\ \A j \in 1..(Len(q) - 1) : t[j] = q[j + 1]
    BY <1>1
  <1> HIDE DEF t
  <1>4. ASSUME NEW j \in 1..Len(t)
        PROVE  t[j] = ms[lo + 1 + j - 1]
    <2>1. j \in 1..(Len(q) - 1) /\ j + 1 \in 1..Len(q) /\ lo + (j + 1) - 1 = lo + 1 + j - 1
      BY <1>1, <1>3
    <2>2. q[j + 1] = ms[lo + (j + 1) - 1]
      BY <2>1 DEF Listed
    <2> QED
      BY <1>3, <2>1, <2>2
  <1>5. Listed(t, lo + 1, hi, ms)
    BY <1>1, <1>3, <1>4 DEF Listed
  <1> QED
    BY <1>1, <1>2, <1>5 DEF t

-----------------------------------------------------------------------------
(* The four parts of a message's way through the ring.                     *)

LEMMA RestEmpty ==
  ASSUME NEW f, f.in = 0, f.out = 0, f.item_num = 0, f.total_read = 0, f.total_write = 0
  PROVE  Rest(f, <<>>)
  <1> DEFINE b == [x \in Int |-> 0]
             ms == [x \in Int |-> Nobody]
  <1>1. b \in Starts /\ ms \in Kinds /\ b[0] = 0
    BY DEF Starts, Kinds
  <1> HIDE DEF b, ms
  <1>2. fifo_len(f) = 0
    BY DEF fifo_len
  <1>3. Placed(f, 0, 0, 0, b, ms)
    BY <1>1 DEF Placed
  <1>4. Counted(f, 2 * (0 - 0))
    BY DEF Counted, Items
  <1>5. b[0] = 0 + fifo_len(f)
    BY <1>1, <1>2
  <1>6. 0 \in Int
    OBVIOUS
  <1>7. Listed(<<>>, 0, 0, ms)
    BY DEF Listed
  <1> QED
    BY <1>1, <1>3, <1>4, <1>5, <1>6, <1>7, Zenon DEF Rest

LEMMA PutHeaderMid ==
  ASSUME NEW f, NEW q, Ring(f), Rest(f, q),
         NEW m, Fits(m), PutLen(f, HeaderLen) = HeaderLen
  PROVE  PutMid(fifo_put(f, Header(m)), m, q)
  <1> DEFINE g == fifo_put(f, Header(m))
  <1>1. PICK lo \in Int, hi \in Int, o \in Int, b \in Starts, ms \in Kinds :
          /\ Placed(f, lo, hi, o, b, ms) /\ Listed(q, lo, hi, ms)
          /\ b[lo] = o /\ b[hi] = o + fifo_len(f)
          /\ Counted(f, 2 * (hi - lo))
    BY DEF Rest
  <1>2. f \in Rings(Cells) /\ fifo_len(f) <= Size /\ (f.out % Size) = (o % Size)
    BY <1>1 DEF Ring, Placed
  <1>3. /\ Header(m) \in Seq(Cells) /\ Len(Header(m)) = HeaderLen /\ Header(m) # <<>>
        /\ \A k \in 0..(HeaderLen - 1) : Header(m)[k + 1] = Mark(m, k)
    BY Parts
  <1>4. HeaderLen \in Nat \ {0} /\ fifo_len(f) + HeaderLen <= Size
    <2>1. HeaderLen \in Nat \ {0}
      BY QueueAssumption DEF QueueAssumption
    <2> QED
      BY <1>2, <2>1, PutLenIs
  <1>5. /\ fifo_len(f) \in 0..Size /\ Size \in Nat /\ WrapAt \in Nat /\ Size < WrapAt
        /\ hi - lo \in Nat /\ b[lo] \in Int /\ b[hi] \in Int
        /\ 2 * (hi - lo) <= b[hi] - b[lo]
    BY <1>1, Room
  <1>6. Placed(g, lo, hi, o, b, ms)
    <2>1. b[hi] <= o + fifo_len(f)
      BY <1>1, <1>5
    <2> QED
      BY <1>1, <1>3, <2>1, PlacedPut
  <1>7. fifo_len(g) = fifo_len(f) + HeaderLen
    BY <1>2, <1>3, PutFields
  <1>8. \A k \in 0..(HeaderLen - 1) : g.buf[(b[hi] + k) % Size] = Mark(m, k)
    <2>1. \A k \in 0..(PutLen(f, Len(Header(m))) - 1) :
            g.buf[(o + fifo_len(f) + k) % Size] = Header(m)[k + 1]
      BY <1>2, <1>3, PutCells
    <2> QED
      BY <1>1, <1>3, <2>1
  <1>9. Counted(g, 2 * (hi - lo) + 1)
    <2> DEFINE n == 2 * (hi - lo)
    <2>1. n \in Nat /\ n < WrapAt - 1
      BY <1>1, <1>4, <1>5
    <2>2. Counted(f, n)
      BY <1>1
    <2> HIDE DEF n
    <2>3. Counted(g, n + 1)
      BY <1>3, <2>1, <2>2, CountedPut
    <2> QED
      BY <2>3 DEF n
  <1>10. b[hi] + HeaderLen = o + fifo_len(g)
    BY <1>1, <1>4, <1>5, <1>7
  <1> HIDE DEF g
  <1>11. PutMid(g, m, q)
    BY <1>1, <1>6, <1>8, <1>9, <1>10, Zenon DEF PutMid
  <1> QED
    BY <1>11 DEF g

LEMMA PutPayloadRest ==
  ASSUME NEW f, NEW q, Ring(f), NEW m, Fits(m), PutMid(f, m, q),
         PutLen(f, PayloadLen[m]) = PayloadLen[m]
  PROVE  Rest(fifo_put(f, Payload(m)), Append(q, m))
  <1> DEFINE g == fifo_put(f, Payload(m))
             n == PayloadLen[m]
  <1>1. PICK lo \in Int, hi \in Int, o \in Int, b \in Starts, ms \in Kinds :
          /\ Placed(f, lo, hi, o, b, ms) /\ Listed(q, lo, hi, ms)
          /\ b[lo] = o /\ b[hi] + HeaderLen = o + fifo_len(f)
          /\ \A k \in 0..(HeaderLen - 1) : f.buf[(b[hi] + k) % Size] = Mark(m, k)
          /\ Counted(f, 2 * (hi - lo) + 1)
    BY Zenon DEF PutMid
  <1>2. f \in Rings(Cells) /\ fifo_len(f) <= Size /\ (f.out % Size) = (o % Size)
    BY <1>1 DEF Ring, Placed
  <1>3. /\ Payload(m) \in Seq(Cells) /\ Len(Payload(m)) = n /\ Payload(m) # <<>>
        /\ \A k \in 0..(n - 1) : Payload(m)[k + 1] = Mark(m, HeaderLen + k)
    BY Parts
  <1>4. /\ m \in Messages /\ n \in Nat \ {0} /\ HeaderLen \in Nat \ {0}
        /\ FrameLen(m) = HeaderLen + n /\ FrameLen(m) \in Nat
    BY Lengths DEF Fits, FrameLen
  <1> HIDE DEF n
  <1>5. /\ fifo_len(f) \in 0..Size /\ Size \in Nat /\ WrapAt \in Nat /\ Size < WrapAt
        /\ hi - lo \in Nat /\ b[lo] \in Int /\ b[hi] \in Int
        /\ 2 * (hi - lo) <= b[hi] - b[lo]
    BY <1>1, Room
  <1>6. fifo_len(f) + n <= Size
    <2>1. PutLen(f, n) = n
      BY DEF n
    <2>2. n \in Nat
      BY <1>4
    <2> QED
      BY <1>2, <2>1, <2>2, PutLenIs
  <1>7. Placed(g, lo, hi, o, b, ms)
    <2>1. b[hi] <= o + fifo_len(f)
      BY <1>1, <1>4, <1>5
    <2> QED
      BY <1>1, <1>3, <2>1, PlacedPut
  <1>8. fifo_len(g) = fifo_len(f) + n
    <2>1. PutLen(f, Len(Payload(m))) = n
      BY <1>3 DEF n
    <2> QED
      BY <1>2, <1>3, <2>1, PutFields
  \* the header's cells are kept, the payload's follow them
  <1>9. \A k \in 0..(FrameLen(m) - 1) : g.buf[(b[hi] + k) % Size] = Mark(m, k)
    <2>1. \A k \in 0..(n - 1) : g.buf[(o + fifo_len(f) + k) % Size] = Payload(m)[k + 1]
      <3>1. PutLen(f, Len(Payload(m))) = n
        BY <1>3 DEF n
      <3> QED
        BY <1>2, <1>3, <3>1, PutCells
    <2>2. \A x \in o..(o + fifo_len(f) - 1) : g.buf[x % Size] = f.buf[x % Size]
      BY <1>2, <1>3, PutCells
    <2> HIDE DEF g
    <2>3. ASSUME NEW k \in 0..(HeaderLen - 1)
          PROVE  g.buf[(b[hi] + k) % Size] = Mark(m, k)
      <3> DEFINE x == b[hi] + k
      <3>1. x \in o..(o + fifo_len(f) - 1)
        BY <1>1, <1>4, <1>5
      <3>2. f.buf[x % Size] = Mark(m, k)
        BY <1>1
      <3> HIDE DEF x
      <3>3. g.buf[x % Size] = Mark(m, k)
        BY <2>2, <3>1, <3>2
      <3> QED
        BY <3>3 DEF x
    <2>4. ASSUME NEW k \in 0..(FrameLen(m) - 1), k >= HeaderLen
          PROVE  g.buf[(b[hi] + k) % Size] = Mark(m, k)
      <3> DEFINE j == k - HeaderLen
      <3>1. j \in 0..(n - 1) /\ k = HeaderLen + j
        BY <1>4, <2>4
      <3>2. b[hi] + k = o + fifo_len(f) + j
        BY <1>1, <1>4, <1>5, <3>1
      <3> HIDE DEF j
      <3> QED
        BY <1>3, <2>1, <3>1, <3>2
    <2> QED
      BY <1>4, <2>3, <2>4
  <1> DEFINE b2 == [b EXCEPT ![hi + 1] = b[hi] + FrameLen(m)]
             ms2 == [ms EXCEPT ![hi] = m]
  <1>10. /\ b2 \in Starts /\ ms2 \in Kinds /\ ms2[hi] = m
         /\ b2[hi + 1] = b[hi] + FrameLen(m)
         /\ \A i \in Int : i # hi + 1 => b2[i] = b[i]
         /\ \A i \in Int : i # hi => ms2[i] = ms[i]
    BY <1>4, <1>5 DEF Starts, Kinds
  <1> HIDE DEF b2, ms2, g
  <1>11. Placed(g, lo, hi + 1, o, b2, ms2)
    <2>1. lo <= hi + 1 /\ (g.out % Size) = (o % Size)
      BY <1>5, <1>7 DEF Placed
    <2>2. ASSUME NEW i \in lo..(hi + 1 - 1)
          PROVE  /\ Fits(ms2[i])
                 /\ b2[i + 1] = b2[i] + FrameLen(ms2[i])
                 /\ \A k \in 0..(FrameLen(ms2[i]) - 1) :
                      b2[i] + k >= o => g.buf[(b2[i] + k) % Size] = Mark(ms2[i], k)
      <3>1. CASE i = hi
        <4>1. ms2[i] = m /\ b2[i] = b[hi] /\ b2[i + 1] = b[hi] + FrameLen(m)
          BY <1>10, <3>1
        <4> QED
          BY <1>9, <4>1
      <3>2. CASE i # hi
        <4>1. i \in lo..(hi - 1) /\ i # hi + 1 /\ i + 1 # hi + 1 /\ i + 1 \in Int
          BY <3>2
        <4>2. ms2[i] = ms[i] /\ b2[i] = b[i] /\ b2[i + 1] = b[i + 1]
          BY <1>10, <3>2, <4>1
        <4> QED
          BY <1>7, <4>1, <4>2 DEF Placed
      <3> QED
        BY <3>1, <3>2
    <2>3. ASSUME NEW i \in lo..(hi + 1)
          PROVE  b2[hi + 1] - b2[i] >= 2 * (hi + 1 - i)
      <3>1. CASE i = hi + 1
        BY <1>4, <1>5, <1>10, <3>1
      <3>2. CASE i # hi + 1
        <4>1. i \in lo..hi
          BY <3>2
        <4>2. b[hi] - b[i] >= 2 * (hi - i)
          BY <1>7, <4>1 DEF Placed
        <4>3. b[i] \in Int
          BY DEF Starts
        <4> QED
          BY <1>4, <1>5, <1>10, <3>2, <4>2, <4>3
      <3> QED
        BY <3>1, <3>2
    <2> QED
      BY <2>1, <2>2, <2>3 DEF Placed
  <1>12. Counted(g, 2 * ((hi + 1) - lo))
    <2> DEFINE c == 2 * (hi - lo) + 1
    <2>1. c \in Nat /\ c < WrapAt - 1 /\ c + 1 = 2 * ((hi + 1) - lo)
      BY <1>1, <1>4, <1>5, <1>6
    <2>2. Counted(f, c)
      BY <1>1
    <2> HIDE DEF c
    <2>3. Counted(g, c + 1)
      BY <1>3, <2>1, <2>2, CountedPut DEF g
    <2> QED
      BY <2>1, <2>3
  <1>13. b2[lo] = o /\ b2[hi + 1] = o + fifo_len(g) /\ hi + 1 \in Int
    BY <1>1, <1>4, <1>5, <1>8, <1>10
  <1>14. Listed(Append(q, m), lo, hi + 1, ms2)
    BY <1>1, <1>4, <1>5, <1>10, ListedPut
  <1>15. Rest(g, Append(q, m))
    BY <1>10, <1>11, <1>12, <1>13, <1>14, Zenon DEF Rest
  <1> QED
    BY <1>15 DEF g

LEMMA GetHeaderMid ==
  ASSUME NEW f, NEW q, Ring(f), Rest(f, q), GetLen(f, HeaderLen) = HeaderLen
  PROVE  \E m \in Messages : /\ Fits(m)
                             /\ Fetched(f, HeaderLen)[1].of = m
                             /\ GetMid(fifo_get(f, HeaderLen), m, q)
  <1> DEFINE g == fifo_get(f, HeaderLen)
  <1>1. PICK lo \in Int, hi \in Int, o \in Int, b \in Starts, ms \in Kinds :
          /\ Placed(f, lo, hi, o, b, ms) /\ Listed(q, lo, hi, ms)
          /\ b[lo] = o /\ b[hi] = o + fifo_len(f)
          /\ Counted(f, 2 * (hi - lo))
    BY Zenon DEF Rest
  <1>2. f \in Rings(Cells) /\ fifo_len(f) <= Size /\ (f.out % Size) = (o % Size)
    BY <1>1 DEF Ring, Placed
  <1>3. HeaderLen \in Nat \ {0} /\ HeaderLen \in Nat
    BY QueueAssumption DEF QueueAssumption
  <1>4. /\ fifo_len(f) \in 0..Size /\ Size \in Nat
        /\ hi - lo \in Nat /\ b[lo] \in Int /\ b[hi] \in Int
        /\ 2 * (hi - lo) <= b[hi] - b[lo]
    BY <1>1, Room
  <1>5. HeaderLen <= fifo_len(f)
    BY <1>2, <1>3, GetLenIs
  <1>6. lo < hi
    BY <1>1, <1>3, <1>4, <1>5
  <1> DEFINE m == ms[lo]
  <1>7. Fits(m) /\ \A k \in 0..(FrameLen(m) - 1) :
                     b[lo] + k >= o => f.buf[(b[lo] + k) % Size] = Mark(m, k)
    <2>1. lo \in lo..(hi - 1)
      BY <1>6
    <2> QED
      BY <1>1, <2>1 DEF Placed
  <1>8. Fetched(f, HeaderLen)[1].of = m
    <2>1. m \in Messages
      BY <1>7 DEF Fits
    <2>2. 0 \in 0..(FrameLen(m) - 1) /\ 1 \in 1..HeaderLen /\ 0 < HeaderLen
      BY <1>3, <2>1, Lengths
    <2>3. f.buf[(b[lo] + 0) % Size] = Mark(m, 0)
      BY <1>1, <1>4, <1>7, <2>2
    <2>4. Mark(m, 0).of = m
      BY <2>2 DEF Mark
    <2>5. Fetched(f, HeaderLen) = [k \in 1..HeaderLen |-> f.buf[(o + k - 1) % Size]]
      BY <1>2, <1>3, FetchedIs
    <2>6. Fetched(f, HeaderLen)[1] = f.buf[(o + 1 - 1) % Size]
      BY <2>2, <2>5, Zenon
    <2>7. o + 1 - 1 = b[lo] + 0
      BY <1>1, <1>4
    <2> QED
      BY <2>3, <2>4, <2>6, <2>7
  <1> HIDE DEF m
  <1>9. fifo_len(g) = fifo_len(f) - HeaderLen
    BY <1>2, <1>3, GetFields
  <1>10. Placed(g, lo, hi, o + HeaderLen, b, ms)
    BY <1>1, <1>3, PlacedGet
  <1>11. Counted(g, 2 * (hi - lo) - 1)
    <2> DEFINE n == 2 * (hi - lo)
    <2>1. n \in Nat /\ n > 0
      BY <1>4, <1>6
    <2>2. Counted(f, n)
      BY <1>1
    <2> HIDE DEF n
    <2>3. Counted(g, n - 1)
      BY <1>3, <2>1, <2>2, CountedGet
    <2> QED
      BY <2>3 DEF n
  <1> HIDE DEF g
  <1>12. GetMid(g, m, q)
    <2>1. b[lo] + HeaderLen = o + HeaderLen /\ b[hi] = o + HeaderLen + fifo_len(g)
      BY <1>1, <1>3, <1>4, <1>9
    <2>2. o + HeaderLen \in Int
      BY <1>3
    <2> QED
      BY <1>1, <1>6, <1>10, <1>11, <2>1, <2>2, Zenon DEF GetMid, m
  <1> QED
    BY <1>7, <1>8, <1>12 DEF g, Fits

LEMMA GetPayloadRest ==
  ASSUME NEW f, NEW q, Ring(f), NEW m, Fits(m), GetMid(f, m, q)
  PROVE  /\ GetLen(f, PayloadLen[m]) = PayloadLen[m]
         /\ Fetched(f, PayloadLen[m]) = Payload(m)
         /\ q # <<>> /\ Head(q) = m
         /\ Rest(fifo_get(f, PayloadLen[m]), SubSeq(q, 2, Len(q)))
  <1> DEFINE n == PayloadLen[m]
             g == fifo_get(f, n)
  <1>1. PICK lo \in Int, hi \in Int, o \in Int, b \in Starts, ms \in Kinds :
          /\ Placed(f, lo, hi, o, b, ms) /\ Listed(q, lo, hi, ms)
          /\ lo < hi /\ ms[lo] = m
          /\ b[lo] + HeaderLen = o /\ b[hi] = o + fifo_len(f)
          /\ Counted(f, 2 * (hi - lo) - 1)
    BY Zenon DEF GetMid
  <1>2. f \in Rings(Cells) /\ fifo_len(f) <= Size /\ (f.out % Size) = (o % Size)
    BY <1>1 DEF Ring, Placed
  <1>3. /\ m \in Messages /\ n \in Nat \ {0} /\ n \in Nat /\ HeaderLen \in Nat \ {0}
        /\ FrameLen(m) = HeaderLen + n /\ FrameLen(m) \in Nat
    BY Lengths DEF Fits, FrameLen
  <1>4. Payload(m) = [k \in 1..n |-> [of |-> m, part |-> "payload", at |-> k]]
    BY DEF Payload
  <1> HIDE DEF n
  <1>5. fifo_len(f) \in 0..Size /\ Size \in Nat /\ b[lo] \in Int /\ b[hi] \in Int
    BY <1>1, Room
  \* the next message, or the end, is a payload away
  <1>6. /\ b[lo + 1] = b[lo] + FrameLen(m) /\ b[lo + 1] \in Int
        /\ b[hi] - b[lo + 1] >= 2 * (hi - (lo + 1))
        /\ \A k \in 0..(FrameLen(m) - 1) :
             b[lo] + k >= o => f.buf[(b[lo] + k) % Size] = Mark(m, k)
    <2>1. lo \in lo..(hi - 1) /\ lo + 1 \in lo..hi /\ lo + 1 \in Int
      BY <1>1
    <2> QED
      BY <1>1, <2>1 DEF Placed, Starts
  <1>7. b[lo + 1] = o + n /\ n <= fifo_len(f)
    <2>1. hi - (lo + 1) \in Nat
      BY <1>1
    <2>2. b[lo + 1] <= b[hi]
      BY <1>5, <1>6, <2>1
    <2> QED
      BY <1>1, <1>3, <1>5, <1>6, <2>2
  <1>8. GetLen(f, n) = n
    BY <1>2, <1>3, <1>7, GetLenIs
  <1>9. Fetched(f, n) = Payload(m)
    <2>1. Fetched(f, n) = [k \in 1..n |-> f.buf[(o + k - 1) % Size]]
      BY <1>2, <1>3, <1>8, FetchedIs
    <2>2. ASSUME NEW k \in 1..n
          PROVE  f.buf[(o + k - 1) % Size] = [of |-> m, part |-> "payload", at |-> k]
      <3> DEFINE j == HeaderLen + k - 1
      <3>1. /\ j \in 0..(FrameLen(m) - 1) /\ b[lo] + j = o + k - 1 /\ b[lo] + j >= o
            /\ ~(j < HeaderLen) /\ j - HeaderLen + 1 = k
        BY <1>1, <1>3, <1>5
      <3> HIDE DEF j
      <3>2. f.buf[(b[lo] + j) % Size] = Mark(m, j)
        BY <1>6, <3>1
      <3>3. Mark(m, j) = [of |-> m, part |-> "payload", at |-> k]
        BY <3>1, Zenon DEF Mark
      <3> QED
        BY <3>1, <3>2, <3>3
    <2> QED
      BY <1>4, <2>1, <2>2, Zenon
  <1>10. fifo_len(g) = fifo_len(f) - n
    BY <1>2, <1>3, <1>8, GetFields
  <1>11. Placed(g, lo, hi, o + n, b, ms)
    BY <1>1, <1>3, <1>8, PlacedGet
  <1>12. Counted(g, 2 * (hi - (lo + 1)))
    <2> DEFINE c == 2 * (hi - lo) - 1
    <2>1. c \in Nat /\ c > 0 /\ c - 1 = 2 * (hi - (lo + 1))
      BY <1>1
    <2>2. Counted(f, c)
      BY <1>1
    <2> HIDE DEF c
    <2>3. Counted(g, c - 1)
      BY <1>3, <2>1, <2>2, CountedGet
    <2> QED
      BY <2>1, <2>3
  <1> HIDE DEF g
  <1>13. Placed(g, lo + 1, hi, o + n, b, ms)
    <2>1. \A i \in (lo + 1)..(hi - 1) : i \in lo..(hi - 1)
      OBVIOUS
    <2>2. \A i \in (lo + 1)..hi : i \in lo..hi
      OBVIOUS
    <2>3. lo + 1 <= hi
      BY <1>1
    <2> QED
      BY <1>11, <2>1, <2>2, <2>3, Zenon DEF Placed
  <1>14. b[lo + 1] = o + n /\ b[hi] = o + n + fifo_len(g) /\ lo + 1 \in Int /\ o + n \in Int
    BY <1>1, <1>3, <1>5, <1>7, <1>10
  <1>15. q # <<>> /\ Head(q) = m /\ Listed(SubSeq(q, 2, Len(q)), lo + 1, hi, ms)
    BY <1>1, ListedGet
  <1>16. Rest(g, SubSeq(q, 2, Len(q)))
    BY <1>12, <1>13, <1>14, <1>15, Zenon DEF Rest
  <1> QED
    BY <1>8, <1>9, <1>15, <1>16 DEF g, n

\* Between two threads' turns the buffer is empty or begins with a whole message, and
\* the count says so.
LEMMA RestTold ==
  ASSUME NEW f, NEW q, Ring(f), Rest(f, q), fifo_len(f) > 0
  PROVE  /\ fifo_enable_get(f)
         /\ \E m \in Messages : Fetched(f, FrameLen(m)) = Header(m) \o Payload(m)
  <1>1. PICK lo \in Int, hi \in Int, o \in Int, b \in Starts, ms \in Kinds :
          /\ Placed(f, lo, hi, o, b, ms) /\ Listed(q, lo, hi, ms)
          /\ b[lo] = o /\ b[hi] = o + fifo_len(f)
          /\ Counted(f, 2 * (hi - lo))
    BY Zenon DEF Rest
  <1>2. f \in Rings(Cells) /\ fifo_len(f) <= Size /\ (f.out % Size) = (o % Size)
    BY <1>1 DEF Ring, Placed
  <1>3. /\ fifo_len(f) \in 0..Size /\ Size \in Nat
        /\ hi - lo \in Nat /\ b[lo] \in Int /\ b[hi] \in Int
    BY <1>1, Room
  <1>4. lo < hi
    BY <1>1, <1>3
  <1>5. fifo_enable_get(f)
    BY <1>1, <1>3, <1>4 DEF Counted, fifo_enable_get
  <1> DEFINE m == ms[lo]
             n == FrameLen(m)
  <1>6. /\ Fits(m) /\ b[lo + 1] = b[lo] + n /\ b[lo + 1] \in Int
        /\ b[hi] - b[lo + 1] >= 2 * (hi - (lo + 1))
        /\ \A k \in 0..(n - 1) : b[lo] + k >= o => f.buf[(b[lo] + k) % Size] = Mark(m, k)
    <2>1. lo \in lo..(hi - 1) /\ lo + 1 \in lo..hi /\ lo + 1 \in Int
      BY <1>4
    <2> QED
      BY <1>1, <2>1 DEF Placed, Starts
  <1>7. /\ m \in Messages /\ HeaderLen \in Nat \ {0} /\ PayloadLen[m] \in Nat \ {0}
        /\ n = HeaderLen + PayloadLen[m] /\ n \in Nat
    BY <1>6, Lengths DEF Fits, FrameLen
  <1> HIDE DEF m, n
  <1>8. n <= fifo_len(f)
    <2>1. hi - (lo + 1) \in Nat
      BY <1>4
    <2>2. b[lo + 1] <= b[hi]
      BY <1>3, <1>6, <2>1
    <2> QED
      BY <1>1, <1>3, <1>6, <1>7, <2>2
  <1>9. Fetched(f, n) = [k \in 1..n |-> f.buf[(o + k - 1) % Size]]
    <2>1. GetLen(f, n) = n
      BY <1>2, <1>7, <1>8, GetLenIs
    <2>2. Fetched(f, n) = [k \in 1..GetLen(f, n) |-> f.buf[(o + k - 1) % Size]]
      <3>1. n \in Nat
        BY <1>7
      <3> QED
        BY <1>2, <3>1, FetchedIs
    <2> QED
      BY <2>1, <2>2, Zenon
  <1>10. /\ Header(m) \in Seq(Cells) /\ Len(Header(m)) = HeaderLen
         /\ Payload(m) \in Seq(Cells) /\ Len(Payload(m)) = PayloadLen[m]
         /\ \A k \in 0..(HeaderLen - 1) : Header(m)[k + 1] = Mark(m, k)
         /\ \A k \in 0..(PayloadLen[m] - 1) : Payload(m)[k + 1] = Mark(m, HeaderLen + k)
    BY <1>6, Parts
  <1> DEFINE c == Header(m) \o Payload(m)
  <1>11. /\ c \in Seq(Cells) /\ Len(c) = n
         /\ \A k \in 1..HeaderLen : c[k] = Header(m)[k]
         /\ \A k \in 1..PayloadLen[m] : c[HeaderLen + k] = Payload(m)[k]
    <2> DEFINE H == Header(m)
               P == Payload(m)
    <2>1. H \in Seq(Cells) /\ P \in Seq(Cells) /\ Len(H) = HeaderLen /\ Len(P) = PayloadLen[m]
      BY <1>10
    <2>2. Len(H) \in Nat /\ Len(P) \in Nat
      BY <1>7, <2>1
    <2> HIDE DEF H, P
    <2>3. /\ H \o P \in Seq(Cells) /\ Len(H \o P) = Len(H) + Len(P)
          /\ \A k \in 1..Len(H) : (H \o P)[k] = H[k]
      BY <2>1, <2>2
    <2>4. ASSUME NEW k \in 1..Len(P)
          PROVE  (H \o P)[Len(H) + k] = P[k]
      BY <2>1, <2>2
    <2> QED
      BY <1>7, <2>1, <2>3, <2>4 DEF H, P
  <1> HIDE DEF c
  <1>12. ASSUME NEW k \in 1..n
         PROVE  f.buf[(o + k - 1) % Size] = c[k]
    <2> DEFINE j == k - 1
    <2>1. j \in 0..(n - 1) /\ o + k - 1 = b[lo] + j /\ b[lo] + j >= o /\ k = j + 1
      BY <1>1, <1>3, <1>7
    <2> HIDE DEF j
    <2>2. f.buf[(o + k - 1) % Size] = Mark(m, j)
      BY <1>6, <2>1
    <2>3. CASE j < HeaderLen
      <3>1. j \in 0..(HeaderLen - 1) /\ j + 1 \in 1..HeaderLen
        BY <1>7, <2>1, <2>3
      <3> QED
        BY <1>10, <1>11, <2>1, <2>2, <3>1
    <2>4. CASE ~(j < HeaderLen)
      <3> DEFINE i == j - HeaderLen
      <3>1. /\ i \in 0..(PayloadLen[m] - 1) /\ i + 1 \in 1..PayloadLen[m]
            /\ j = HeaderLen + i /\ k = HeaderLen + (i + 1)
        BY <1>7, <2>1, <2>4
      <3> HIDE DEF i
      <3> QED
        BY <1>10, <1>11, <2>2, <3>1
    <2> QED
      BY <2>3, <2>4
  <1>13. Fetched(f, n) = c
    <2>1. c = [k \in 1..n |-> c[k]]
      BY <1>7, <1>11
    <2> QED
      BY <1>9, <1>12, <2>1, Zenon
  <1> QED
    BY <1>5, <1>7, <1>13 DEF n, c

\* A message in the ring is there with its header.
LEMMA RestFull ==
  ASSUME NEW f, NEW q, Ring(f), Rest(f, q), GetLen(f, HeaderLen) # HeaderLen
  PROVE  q = <<>>
  <1>1. PICK lo \in Int, hi \in Int, o \in Int, b \in Starts, ms \in Kinds :
          /\ Placed(f, lo, hi, o, b, ms) /\ Listed(q, lo, hi, ms)
          /\ b[lo] = o /\ b[hi] = o + fifo_len(f)
          /\ Counted(f, 2 * (hi - lo))
    BY Zenon DEF Rest
  <1>2. f \in Rings(Cells) /\ fifo_len(f) <= Size
    BY DEF Ring
  <1>3. fifo_len(f) \in Nat /\ hi - lo \in Nat /\ b[lo] \in Int /\ b[hi] \in Int
    BY <1>1, Room
  <1>4. HeaderLen \in Nat
    BY QueueAssumption DEF QueueAssumption
  <1>5. fifo_len(f) < HeaderLen
    BY <1>2, <1>3, <1>4, GetLenIs
  <1>6. lo >= hi
    <2> SUFFICES ASSUME lo < hi PROVE FALSE
      OBVIOUS
    <2>1. lo \in lo..(hi - 1) /\ lo + 1 \in lo..hi /\ lo + 1 \in Int
      OBVIOUS
    <2>2. /\ Fits(ms[lo]) /\ b[lo + 1] = b[lo] + FrameLen(ms[lo]) /\ b[lo + 1] \in Int
          /\ b[hi] - b[lo + 1] >= 2 * (hi - (lo + 1))
      BY <1>1, <2>1 DEF Placed, Starts
    <2>3. FrameLen(ms[lo]) \in Nat /\ FrameLen(ms[lo]) >= HeaderLen
      BY <1>4, <2>2, Lengths DEF Fits, FrameLen
    <2>4. hi - (lo + 1) \in Nat
      OBVIOUS
    <2>5. b[lo + 1] <= b[hi]
      BY <1>3, <2>2, <2>4
    <2> QED
      BY <1>1, <1>3, <1>4, <1>5, <2>2, <2>3, <2>5
  <1>7. q \in Seq(Messages) /\ Len(q) = 0
    BY <1>1, <1>3, <1>6 DEF Listed
  <1> QED
    BY <1>7

-----------------------------------------------------------------------------
(* The inductive invariant.                                                *)

Inside == {"header", "payload", "unlock", "fail"}

\* Whoever is between taking and releasing the lock holds it.
LockInv ==
  /\ \A p \in Producers : put[p].pc \in Inside <=> lock = p
  /\ get.pc \in Inside <=> lock = "send_thread"

\* Every message under way fits into a frame.
FitsInv == \A p \in Producers : put[p].pc # "idle" => Fits(put[p].msg)

\* What the ring holds, by who is in the middle of what.  A thread at "fail" is about to
\* empty it.
ShapeInv ==
  /\ \A p \in Producers : put[p].pc = "payload" => PutMid(fifo, put[p].msg, queue)
  /\ get.pc = "payload" => Fits(get.msg) /\ GetMid(fifo, get.msg, queue)
  /\ get.pc = "fail" => queue = <<>>
  /\ get.pc \notin {"payload", "fail"}
       /\ (\A p \in Producers : put[p].pc \notin {"payload", "fail"}) => Rest(fifo, queue)

Typed ==
  /\ Ring(fifo)
  /\ lock \in Producers \cup {"send_thread", Nobody}
  /\ put \in [Producers -> [pc : {"idle", "lock", "header", "payload", "unlock", "fail"},
                            msg : Messages \cup {Nobody}]]
  /\ get \in [pc : {"look", "lock", "header", "payload", "unlock", "fail"},
              msg : Messages \cup {Nobody}]
  /\ taken \in Messages \cup {Nobody}
  /\ queue \in Seq(Messages)

QueueInv == Typed /\ LockInv /\ FitsInv /\ ShapeInv

LEMMA InitQueue ==
  ASSUME Init
  PROVE  QueueInv
  <1> USE DEF Init
  <1>1. Ring(fifo)
    <2>1. Size \in Nat \ {0} /\ Width \in Nat /\ WrapAt \in Nat /\ Width > 0 /\ WrapAt > 0
      BY BufferAssumption DEF BufferAssumption
    <2>2. Blank \in Cells
      BY DEF Cells
    <2>3. fifo \in Rings(Cells)
      BY <2>1, <2>2 DEF init_cycle_buffer, Rings
    <2>4. fifo_len(fifo) = 0
      BY DEF fifo_len, init_cycle_buffer
    <2> QED
      BY <2>1, <2>3, <2>4 DEF Ring
  <1>2. Typed
    BY <1>1 DEF Typed
  <1>3. LockInv
    BY QueueAssumption DEF LockInv, QueueAssumption, Inside
  <1>4. FitsInv
    BY DEF FitsInv
  <1>5. ShapeInv
    <2>1. Rest(fifo, queue)
      BY RestEmpty DEF init_cycle_buffer
    <2> QED
      BY <2>1 DEF ShapeInv
  <1> QED
    BY <1>2, <1>3, <1>4, <1>5 DEF QueueInv

LEMMA ResetKeeps ==
  ASSUME NEW f, Ring(f)
  PROVE  Ring(fifo_reset(f)) /\ Rest(fifo_reset(f), <<>>)
  <1> DEFINE g == fifo_reset(f)
  <1>1. f \in Rings(Cells) /\ Size \in Nat \ {0} /\ Width \in Nat /\ WrapAt \in Nat
        /\ Width > 0 /\ WrapAt > 0
    BY BufferAssumption DEF BufferAssumption, Ring
  <1>2. 0 \in 0..(Width - 1) /\ 0 \in 0..(WrapAt - 1)
    BY <1>1
  <1>3. g \in Rings(Cells) /\ g.in = 0 /\ g.out = 0 /\ g.item_num = 0
        /\ g.total_read = 0 /\ g.total_write = 0
    <2> DEFINE I == 0..(Width - 1)
               T == 0..(WrapAt - 1)
               B == [0..(Size - 1) -> Cells]
    <2>1. f \in [in : I, out : I, buf : B, item_num : T, total_read : T, total_write : T]
      BY <1>1 DEF Rings
    <2>2. 0 \in I /\ 0 \in T
      BY <1>2
    <2> HIDE DEF I, T, B
    <2>3. g \in [in : I, out : I, buf : B, item_num : T, total_read : T, total_write : T]
          /\ g.in = 0 /\ g.out = 0 /\ g.item_num = 0 /\ g.total_read = 0 /\ g.total_write = 0
      BY <2>1, <2>2 DEF fifo_reset
    <2> QED
      BY <2>3 DEF Rings, I, T, B
  <1>4. fifo_len(g) = 0
    BY <1>3 DEF fifo_len
  <1>5. Ring(g) /\ Rest(g, <<>>)
    BY <1>1, <1>3, <1>4, RestEmpty DEF Ring
  <1> QED
    BY <1>5 DEF g

LEMMA RingPut ==
  ASSUME NEW f, Ring(f), NEW data \in Seq(Cells), data # <<>>
  PROVE  Ring(fifo_put(f, data))
  BY PutTyped DEF Ring

LEMMA RingGet ==
  ASSUME NEW f, Ring(f), NEW l \in Nat \ {0}
  PROVE  Ring(fifo_get(f, l))
  <1>1. f \in Rings(Cells) /\ fifo_len(f) <= Size /\ f.out \in Int
    BY BufferAssumption DEF Ring, Rings, BufferAssumption
  <1>2. GetLen(f, l) \in 0..l /\ GetLen(f, l) <= fifo_len(f) /\ fifo_len(f) \in 0..Size
    <2>1. l \in Nat
      OBVIOUS
    <2> QED
      BY <1>1, <2>1, GetLenIs
  <1>3. fifo_get(f, l) \in Rings(Cells) /\ fifo_len(fifo_get(f, l)) = fifo_len(f) - GetLen(f, l)
    BY <1>1, GetFields
  <1>4. fifo_len(f) - GetLen(f, l) <= Size
    BY <1>1, <1>2, BufferAssumption DEF BufferAssumption
  <1> QED
    BY <1>3, <1>4 DEF Ring

\* The lock keeps all others out.
LEMMA Alone ==
  ASSUME LockInv
  PROVE  /\ \A p \in Producers : put[p].pc \in Inside =>
              /\ lock = p /\ get.pc \notin Inside
              /\ \A q \in Producers : q # p => put[q].pc \notin Inside
         /\ get.pc \in Inside =>
              lock = "send_thread" /\ \A q \in Producers : put[q].pc \notin Inside
  BY QueueAssumption, Zenon DEF LockInv, QueueAssumption

-----------------------------------------------------------------------------
(* Every step keeps the invariant, part by part.                           *)

LEMMA TypedStep == QueueInv /\ [Next]_vars => Typed'
  <1> SUFFICES ASSUME QueueInv, [Next]_vars PROVE Typed'
    OBVIOUS
  <1> USE DEF QueueInv, Typed
  <1> HeaderLen \in Nat \ {0}
    BY QueueAssumption DEF QueueAssumption
  <1>1. ASSUME NEW p \in Producers, PutBegin(p) PROVE Typed'
    BY <1>1 DEF PutBegin
  <1>2. ASSUME NEW p \in Producers, PutLock(p) PROVE Typed'
    BY <1>2 DEF PutLock
  <1>3. ASSUME NEW p \in Producers, PutHeader(p) PROVE Typed'
    <2>1. Fits(put[p].msg)
      BY <1>3 DEF PutHeader, PutPart, FitsInv
    <2>2. Ring(fifo')
      BY <1>3, <2>1, Parts, RingPut DEF PutHeader, PutPart
    <2> QED
      BY <1>3, <2>2 DEF PutHeader, PutPart
  <1>4. ASSUME NEW p \in Producers, PutPayload(p) PROVE Typed'
    <2>1. Fits(put[p].msg)
      BY <1>4 DEF PutPayload, PutPart, FitsInv
    <2>2. Ring(fifo')
      BY <1>4, <2>1, Parts, RingPut DEF PutPayload, PutPart
    <2>3. queue' \in Seq(Messages)
      BY <1>4, <2>1 DEF PutPayload, Fits
    <2> QED
      BY <1>4, <2>2, <2>3 DEF PutPayload, PutPart
  <1>5. ASSUME NEW p \in Producers, PutUnlock(p) PROVE Typed'
    BY <1>5 DEF PutUnlock
  <1>6. ASSUME NEW p \in Producers, PutFail(p) PROVE Typed'
    <2>1. Ring(fifo')
      BY <1>6, ResetKeeps DEF PutFail
    <2> QED
      BY <1>6, <2>1 DEF PutFail
  <1>7. CASE Look
    BY <1>7 DEF Look
  <1>8. CASE GetLock
    BY <1>8 DEF GetLock
  <1>9. CASE GetHeader
    <2>1. Rest(fifo, queue)
      BY <1>9, Alone DEF GetHeader, ShapeInv, Inside
    <2>2. Ring(fifo')
      BY <1>9, RingGet DEF GetHeader
    <2>3. get' \in [pc : {"look", "lock", "header", "payload", "unlock", "fail"},
                    msg : Messages \cup {Nobody}]
      <3>1. CASE GetLen(fifo, HeaderLen) = HeaderLen
        <4>1. Fetched(fifo, HeaderLen)[1].of \in Messages
          BY <2>1, <3>1, GetHeaderMid
        <4> QED
          BY <1>9, <3>1, <4>1 DEF GetHeader
      <3>2. CASE GetLen(fifo, HeaderLen) # HeaderLen
        BY <1>9, <3>2 DEF GetHeader
      <3> QED
        BY <3>1, <3>2
    <2> QED
      BY <1>9, <2>2, <2>3 DEF GetHeader
  <1>10. CASE GetPayload
    <2>1. Fits(get.msg) /\ GetMid(fifo, get.msg, queue)
      BY <1>10 DEF GetPayload, ShapeInv
    <2>2. get.msg \in Messages /\ PayloadLen[get.msg] \in Nat \ {0}
      BY <2>1, Lengths DEF Fits
    <2>3. Fetched(fifo, PayloadLen[get.msg]) = Payload(get.msg)
      BY <2>1, GetPayloadRest
    <2>4. Ring(fifo')
      BY <1>10, <2>2, RingGet DEF GetPayload
    <2>5. taken' = get.msg
      BY <1>10, <2>3 DEF GetPayload
    <2> QED
      BY <1>10, <2>2, <2>4, <2>5 DEF GetPayload
  <1>11. CASE GetUnlock
    BY <1>11 DEF GetUnlock
  <1>12. CASE GetFail
    <2>1. Ring(fifo')
      BY <1>12, ResetKeeps DEF GetFail
    <2> QED
      BY <1>12, <2>1 DEF GetFail
  <1>13. CASE UNCHANGED vars
    BY <1>13 DEF vars
  <1> QED
    BY <1>1, <1>2, <1>3, <1>4, <1>5, <1>6, <1>7, <1>8, <1>9, <1>10, <1>11, <1>12, <1>13
    DEF Next, NM_net_send_thread, NM_net_send_data

LEMMA LockStep == QueueInv /\ [Next]_vars => LockInv'
  <1> SUFFICES ASSUME QueueInv, [Next]_vars PROVE LockInv'
    OBVIOUS
  <1> USE QueueAssumption DEF QueueAssumption, QueueInv, Typed, LockInv, Inside
  <1>1. ASSUME NEW p \in Producers, PutBegin(p) PROVE LockInv'
    BY <1>1 DEF PutBegin
  <1>2. ASSUME NEW p \in Producers, PutLock(p) PROVE LockInv'
    BY <1>2 DEF PutLock
  <1>3. ASSUME NEW p \in Producers, PutHeader(p) PROVE LockInv'
    BY <1>3 DEF PutHeader, PutPart
  <1>4. ASSUME NEW p \in Producers, PutPayload(p) PROVE LockInv'
    BY <1>4 DEF PutPayload, PutPart
  <1>5. ASSUME NEW p \in Producers, PutUnlock(p) PROVE LockInv'
    BY <1>5 DEF PutUnlock
  <1>6. ASSUME NEW p \in Producers, PutFail(p) PROVE LockInv'
    BY <1>6 DEF PutFail
  <1>7. CASE Look
    BY <1>7 DEF Look
  <1>8. CASE GetLock
    BY <1>8 DEF GetLock
  <1>9. CASE GetHeader
    BY <1>9 DEF GetHeader
  <1>10. CASE GetPayload
    BY <1>10 DEF GetPayload
  <1>11. CASE GetUnlock
    BY <1>11 DEF GetUnlock
  <1>12. CASE GetFail
    BY <1>12 DEF GetFail
  <1>13. CASE UNCHANGED vars
    BY <1>13 DEF vars
  <1> QED
    BY <1>1, <1>2, <1>3, <1>4, <1>5, <1>6, <1>7, <1>8, <1>9, <1>10, <1>11, <1>12, <1>13
    DEF Next, NM_net_send_thread, NM_net_send_data

LEMMA FitsStep == QueueInv /\ [Next]_vars => FitsInv'
  <1> SUFFICES ASSUME QueueInv, [Next]_vars PROVE FitsInv'
    OBVIOUS
  <1> USE DEF QueueInv, Typed, FitsInv
  <1>1. ASSUME NEW p \in Producers, PutBegin(p) PROVE FitsInv'
    <2>1. PICK m \in Messages : /\ PayloadLen[m] + HeaderLen < MaxFrame
                                /\ put' = [put EXCEPT ![p] = [pc |-> "lock", msg |-> m]]
      BY <1>1 DEF PutBegin
    <2>2. Fits(m)
      BY <2>1, Lengths DEF Fits, FrameLen
    <2> QED
      BY <2>1, <2>2
  <1>2. ASSUME NEW p \in Producers, PutLock(p) PROVE FitsInv'
    BY <1>2 DEF PutLock
  <1>3. ASSUME NEW p \in Producers, PutHeader(p) PROVE FitsInv'
    BY <1>3 DEF PutHeader, PutPart
  <1>4. ASSUME NEW p \in Producers, PutPayload(p) PROVE FitsInv'
    BY <1>4 DEF PutPayload, PutPart
  <1>5. ASSUME NEW p \in Producers, PutUnlock(p) PROVE FitsInv'
    BY <1>5 DEF PutUnlock
  <1>6. ASSUME NEW p \in Producers, PutFail(p) PROVE FitsInv'
    BY <1>6 DEF PutFail
  <1>7. CASE NM_net_send_thread \/ UNCHANGED vars
    BY <1>7 DEF NM_net_send_thread, Look, GetLock, GetHeader, GetPayload, GetUnlock, GetFail,
                vars
  <1> QED
    BY <1>1, <1>2, <1>3, <1>4, <1>5, <1>6, <1>7 DEF Next, NM_net_send_data

LEMMA ShapeStep == QueueInv /\ [Next]_vars => ShapeInv'
  <1> SUFFICES ASSUME QueueInv, [Next]_vars PROVE ShapeInv'
    OBVIOUS
  <1> USE DEF QueueInv, Typed, Inside
  <1>1. ASSUME NEW p \in Producers, PutBegin(p) PROVE ShapeInv'
    BY <1>1 DEF PutBegin, ShapeInv
  <1>2. ASSUME NEW p \in Producers, PutLock(p) PROVE ShapeInv'
    BY <1>2 DEF PutLock, ShapeInv
  <1>3. ASSUME NEW p \in Producers, PutHeader(p) PROVE ShapeInv'
    <2>1. /\ Fits(put[p].msg)
          /\ get.pc \notin Inside /\ \A q \in Producers : q # p => put[q].pc \notin Inside
      BY <1>3, Alone DEF PutHeader, PutPart, FitsInv
    <2>2. Rest(fifo, queue)
      BY <1>3, <2>1 DEF PutHeader, PutPart, ShapeInv
    <2>3. Len(Header(put[p].msg)) = HeaderLen
      BY <2>1, Parts
    <2>4. CASE PutLen(fifo, HeaderLen) = HeaderLen
      <3>1. PutMid(fifo_put(fifo, Header(put[p].msg)), put[p].msg, queue)
        BY <2>1, <2>2, <2>4, PutHeaderMid
      <3>2. put' = [put EXCEPT ![p].pc = "payload"] /\ get' = get /\ queue' = queue
            /\ fifo' = fifo_put(fifo, Header(put[p].msg))
        BY <1>3, <2>3, <2>4 DEF PutHeader, PutPart
      <3> QED
        BY <2>1, <3>1, <3>2 DEF ShapeInv
    <2>5. CASE PutLen(fifo, HeaderLen) # HeaderLen
      <3>1. put' = [put EXCEPT ![p].pc = "fail"] /\ get' = get
        BY <1>3, <2>3, <2>5 DEF PutHeader, PutPart
      <3> QED
        BY <2>1, <3>1 DEF ShapeInv
    <2> QED
      BY <2>4, <2>5
  <1>4. ASSUME NEW p \in Producers, PutPayload(p) PROVE ShapeInv'
    <2> DEFINE m == put[p].msg
    <2>1. /\ Fits(m) /\ PutMid(fifo, m, queue)
          /\ get.pc \notin Inside /\ \A q \in Producers : q # p => put[q].pc \notin Inside
      BY <1>4, Alone DEF PutPayload, PutPart, FitsInv, ShapeInv
    <2>2. Len(Payload(m)) = PayloadLen[m]
      BY <2>1, Parts
    <2>3. CASE PutLen(fifo, PayloadLen[m]) = PayloadLen[m]
      <3>1. Rest(fifo_put(fifo, Payload(m)), Append(queue, m))
        BY <2>1, <2>3, PutPayloadRest
      <3>2. put' = [put EXCEPT ![p].pc = "unlock"] /\ get' = get
            /\ fifo' = fifo_put(fifo, Payload(m)) /\ queue' = Append(queue, m)
        BY <1>4, <2>2, <2>3 DEF PutPayload, PutPart
      <3> QED
        BY <2>1, <3>1, <3>2 DEF ShapeInv
    <2>4. CASE PutLen(fifo, PayloadLen[m]) # PayloadLen[m]
      <3>1. put' = [put EXCEPT ![p].pc = "fail"] /\ get' = get
        BY <1>4, <2>2, <2>4 DEF PutPayload, PutPart
      <3> QED
        BY <2>1, <3>1 DEF ShapeInv
    <2> QED
      BY <2>3, <2>4
  <1>5. ASSUME NEW p \in Producers, PutUnlock(p) PROVE ShapeInv'
    BY <1>5 DEF PutUnlock, ShapeInv
  <1>6. ASSUME NEW p \in Producers, PutFail(p) PROVE ShapeInv'
    <2>1. get.pc \notin Inside /\ \A q \in Producers : q # p => put[q].pc \notin Inside
      BY <1>6, Alone DEF PutFail
    <2>2. Rest(fifo', queue')
      BY <1>6, ResetKeeps DEF PutFail
    <2> QED
      BY <1>6, <2>1, <2>2 DEF PutFail, ShapeInv
  <1>7. CASE Look
    BY <1>7 DEF Look, ShapeInv
  <1>8. CASE GetLock
    BY <1>8 DEF GetLock, ShapeInv
  <1>9. CASE GetHeader
    <2>1. \A q \in Producers : put[q].pc \notin Inside
      BY <1>9, Alone DEF GetHeader
    <2>2. Rest(fifo, queue)
      BY <1>9, <2>1 DEF GetHeader, ShapeInv
    <2>3. CASE GetLen(fifo, HeaderLen) = HeaderLen
      <3>1. PICK m \in Messages : /\ Fits(m)
                                  /\ Fetched(fifo, HeaderLen)[1].of = m
                                  /\ GetMid(fifo_get(fifo, HeaderLen), m, queue)
        BY <2>2, <2>3, GetHeaderMid
      <3>2. get' = [pc |-> "payload", msg |-> m] /\ put' = put /\ queue' = queue
            /\ fifo' = fifo_get(fifo, HeaderLen)
        BY <1>9, <2>3, <3>1 DEF GetHeader
      <3> QED
        BY <2>1, <3>1, <3>2 DEF ShapeInv
    <2>4. CASE GetLen(fifo, HeaderLen) # HeaderLen
      <3>1. get' = [pc |-> "fail", msg |-> Nobody] /\ put' = put /\ queue' = <<>>
        <4>1. queue = <<>>
          BY <2>2, <2>4, RestFull
        <4> QED
          BY <1>9, <2>4, <4>1 DEF GetHeader
      <3> QED
        BY <2>1, <3>1 DEF ShapeInv
    <2> QED
      BY <2>3, <2>4
  <1>10. CASE GetPayload
    <2>1. \A q \in Producers : put[q].pc \notin Inside
      BY <1>10, Alone DEF GetPayload
    <2>2. Fits(get.msg) /\ GetMid(fifo, get.msg, queue)
      BY <1>10 DEF GetPayload, ShapeInv
    <2>3. GetLen(fifo, PayloadLen[get.msg]) = PayloadLen[get.msg]
          /\ Rest(fifo_get(fifo, PayloadLen[get.msg]), SubSeq(queue, 2, Len(queue)))
      BY <2>2, GetPayloadRest
    <2>4. get' = [get EXCEPT !.pc = "unlock"] /\ put' = put /\ Rest(fifo', queue')
      BY <1>10, <2>3 DEF GetPayload
    <2> QED
      BY <2>1, <2>4 DEF ShapeInv
  <1>11. CASE GetUnlock
    BY <1>11 DEF GetUnlock, ShapeInv
  <1>12. CASE GetFail
    <2>1. \A q \in Producers : put[q].pc \notin Inside
      BY <1>12, Alone DEF GetFail
    <2>2. Rest(fifo', queue')
      BY <1>12, ResetKeeps DEF GetFail
    <2> QED
      BY <1>12, <2>1, <2>2 DEF GetFail, ShapeInv
  <1>13. CASE UNCHANGED vars
    BY <1>13 DEF vars, ShapeInv
  <1> QED
    BY <1>1, <1>2, <1>3, <1>4, <1>5, <1>6, <1>7, <1>8, <1>9, <1>10, <1>11, <1>12, <1>13
    DEF Next, NM_net_send_thread, NM_net_send_data

\* The invariant holds all along, for every value of the constants.
LEMMA QueueAlways == Spec => []QueueInv
  <1>1. Init => QueueInv
    BY InitQueue
  <1>2. QueueInv /\ [Next]_vars => QueueInv'
    BY TypedStep, LockStep, FitsStep, ShapeStep DEF QueueInv
  <1> QED
    BY <1>1, <1>2, PTL DEF Spec

-----------------------------------------------------------------------------
(* Theorems.                                                               *)

\* The ring's indexes, totals and count stay in their ranges, it never holds more than
\* it has room for, and NM_get_buf takes out a whole message or none: never a mixture.
THEOREM TypeCorrect == Spec => []TypeOK
  <1>1. QueueInv => TypeOK
    BY DEF QueueInv, Typed, Ring, Rings, TypeOK
  <1> QED
    BY <1>1, QueueAlways, PTL

\* Whatever producers and the send thread do, and however often indexes and totals go
\* back to 0, what waits in the buffer while nobody holds the lock is whole messages, and
\* fifo_enable_get says that they are there.
THEOREM NoneStranded == Spec => []NoStrandedMessage
  <1>1. QueueInv => NoStrandedMessage
    <2> SUFFICES ASSUME QueueInv, lock = Nobody, fifo_len(fifo) > 0
                 PROVE  /\ fifo_enable_get(fifo)
                        /\ \E m \in Messages :
                             Fetched(fifo, HeaderLen + PayloadLen[m]) = Header(m) \o Payload(m)
      BY DEF NoStrandedMessage
    <2>1. get.pc \notin Inside /\ \A p \in Producers : put[p].pc \notin Inside
      BY QueueAssumption DEF QueueInv, LockInv, QueueAssumption
    <2>2. Rest(fifo, queue)
      BY <2>1 DEF QueueInv, ShapeInv, Inside
    <2> QED
      BY <2>2, RestTold DEF QueueInv, Typed, FrameLen
  <1> QED
    BY <1>1, QueueAlways, PTL

\* Each step of a thread is one of the abstract buffer, or none.
LEMMA StepKeepsPromise ==
  QueueInv /\ [Next]_vars => [Promise!Next]_<<queue, taken>>
  <1> SUFFICES ASSUME QueueInv, [Next]_vars
               PROVE  Promise!Next \/ UNCHANGED <<queue, taken>>
    OBVIOUS
  <1> USE DEF QueueInv, Typed
  <1>1. ASSUME NEW p \in Producers, NM_net_send_data(p)
        PROVE  Promise!Next \/ UNCHANGED <<queue, taken>>
    <2>1. CASE PutPayload(p)
      <3>1. put[p].msg \in Messages
        BY <2>1 DEF PutPayload, PutPart, FitsInv, Fits
      <3>2. (queue' = Append(queue, put[p].msg) \/ queue' = queue) /\ taken' = taken
        BY <2>1 DEF PutPayload, PutPart
      <3> QED
        BY <3>1, <3>2 DEF Promise!Next, Promise!Accept
    <2>2. CASE PutFail(p)
      BY <2>2 DEF PutFail, Promise!Next, Promise!Forget
    <2> QED
      BY <1>1, <2>1, <2>2 DEF NM_net_send_data, PutBegin, PutLock, PutHeader, PutPart, PutUnlock
  \* what is taken is what was put first
  <1>2. CASE GetPayload
    <2> DEFINE m == get.msg
               len == PayloadLen[m]
    <2>1. Fits(m) /\ GetMid(fifo, m, queue)
      BY <1>2 DEF GetPayload, ShapeInv
    <2>2. /\ GetLen(fifo, len) = len /\ Fetched(fifo, len) = Payload(m)
          /\ queue # <<>> /\ Head(queue) = m
      BY <2>1, GetPayloadRest
    <2>3. taken' = m /\ queue' = SubSeq(queue, 2, Len(queue))
      BY <1>2, <2>2 DEF GetPayload
    <2>4. SubSeq(queue, 2, Len(queue)) = Tail(queue)
      BY <2>2
    <2> QED
      BY <2>2, <2>3, <2>4 DEF Promise!Next, Promise!Take
  \* the send thread gives up only when there is nothing
  <1>3. CASE GetFail
    <2>1. queue = <<>>
      BY <1>3 DEF GetFail, ShapeInv
    <2> QED
      BY <1>3, <2>1 DEF GetFail, Promise!Next, Promise!Miss
  <1>4. CASE Look \/ GetLock \/ GetHeader \/ GetUnlock \/ UNCHANGED vars
    BY <1>4 DEF Look, GetLock, GetHeader, GetUnlock, vars
  <1> QED
    BY <1>1, <1>2, <1>3, <1>4 DEF Next, NM_net_send_thread

\* The ring with its two threads' code implements the abstract buffer: what the send
\* thread takes is the message put first, whole, or nothing because nothing is there; and
\* only a message that does not fit makes messages disappear.
THEOREM PromiseKept == Spec => KeepsPromise
  <1>1. Init => Promise!Init
    BY DEF Init, Promise!Init
  <1>2. QueueInv /\ [Next]_vars => [Promise!Next]_<<queue, taken>>
    BY StepKeepsPromise
  <1> QED
    BY <1>1, <1>2, QueueAlways, PTL DEF Spec, KeepsPromise, Promise!Spec
=============================================================================
