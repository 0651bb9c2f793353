-------------------------- MODULE CycleBufferProofs --------------------------
(* The ring of CycleBuffer as a queue of cells, for every size, width of   *)
(* the indexes and limit of the totals: the cells between out and in have  *)
(* places o, o+1, ... that never wrap, and place x is in cell x % Size.    *)
EXTENDS CycleBuffer, TLAPS

-----------------------------------------------------------------------------
(* Remainders.                                                             *)

LEMMA DivMod ==
  ASSUME NEW S \in Nat \ {0}, NEW a \in Int
  PROVE  \E q \in Int : a = S * q + (a % S)
  <1>1. a = S * (a \div S) + (a % S) /\ a \div S \in Int
    OBVIOUS
  <1> QED
    BY <1>1, Zenon

LEMMA Remainder ==
  ASSUME NEW S \in Nat \ {0}, NEW q \in Int, NEW r \in 0..(S - 1)
  PROVE  (S * q + r) % S = r
  OBVIOUS

LEMMA InRange ==
  ASSUME NEW S \in Nat \ {0}, NEW a \in Int
  PROVE  (a % S) \in 0..(S - 1) /\ (a \in 0..(S - 1) => (a % S) = a)
  OBVIOUS

\* Adding multiples of the size changes nothing.
LEMMA Periodic ==
  ASSUME NEW S \in Nat \ {0}, NEW a \in Int, NEW m \in Int
  PROVE  (a + S * m) % S = (a % S)
  <1>1. PICK q \in Int : a = S * q + (a % S)
    BY DivMod
  <1> DEFINE r == a % S
  <1>2. r \in 0..(S - 1)
    BY InRange
  <1>3. a = S * q + r
    BY <1>1
  <1> HIDE DEF r
  <1>4. a + S * m = S * (q + m) + r /\ q + m \in Int
    BY <1>2, <1>3
  <1>5. (S * (q + m) + r) % S = r
    BY <1>2, <1>4, Remainder
  <1> QED
    BY <1>4, <1>5 DEF r

\* Equal remainders stay equal when the same is added.
LEMMA Shifted ==
  ASSUME NEW S \in Nat \ {0}, NEW a \in Int, NEW b \in Int, NEW n \in Int, (a % S) = (b % S)
  PROVE  (a + n) % S = (b + n) % S
  <1>1. PICK p \in Int : a = S * p + (a % S)
    BY DivMod
  <1>2. PICK q \in Int : b = S * q + (b % S)
    BY DivMod
  <1> DEFINE r == a % S
  <1>3. r \in Int /\ a = S * p + r /\ b = S * q + r
    BY <1>1, <1>2
  <1> HIDE DEF r
  <1>4. a + n = (b + n) + S * (p - q) /\ b + n \in Int /\ p - q \in Int
    BY <1>3
  <1> QED
    BY <1>4, Periodic

\* How far a place is ahead of e: where it is behind e, it is so in the round before.
LEMMA Distance ==
  ASSUME NEW S \in Nat \ {0}, NEW e \in Int, NEW d \in (-S)..(S - 1)
  PROVE  (((e + d) % S) + S - (e % S)) % S = IF d >= 0 THEN d ELSE d + S
  <1>1. PICK p \in Int : e + d = S * p + ((e + d) % S)
    <2>1. e + d \in Int
      OBVIOUS
    <2> QED
      BY <2>1, DivMod
  <1>2. PICK q \in Int : e = S * q + (e % S)
    BY DivMod
  <1> DEFINE i == (e + d) % S
             r == e % S
  <1>3. i \in Int /\ r \in Int /\ e + d = S * p + i /\ e = S * q + r
    BY <1>1, <1>2
  <1> HIDE DEF i, r
  <1>4. i + S - r = d + S * (1 + q - p) /\ 1 + q - p \in Int /\ d \in Int
    BY <1>3
  <1>5. (i + S - r) % S = (d % S)
    <2> DEFINE m == 1 + q - p
    <2>1. m \in Int
      BY <1>4
    <2> HIDE DEF m
    <2>2. (d + S * m) % S = (d % S)
      BY <1>4, <2>1, Periodic
    <2> QED
      BY <1>4, <2>2 DEF m
  <1>6. CASE d >= 0
    <2>1. d % S = d
      BY <1>6, InRange
    <2> QED
      BY <1>5, <1>6, <2>1 DEF i, r
  <1>7. CASE d < 0
    <2>1. (d + S * 1) % S = (d % S)
      BY <1>4, Periodic, 1 \in Int
    <2>2. d + S * 1 = d + S /\ d + S \in 0..(S - 1)
      BY <1>7
    <2>3. (d + S) % S = d + S
      <3>1. d + S \in Int
        BY <1>4
      <3> QED
        BY <2>2, <3>1, InRange
    <2>4. d % S = d + S
      BY <2>1, <2>2, <2>3
    <2> QED
      BY <1>5, <1>7, <2>4 DEF i, r
  <1> QED
    BY <1>6, <1>7
-----------------------------------------------------------------------------
(* Indexes and totals.                                                     *)

Rings(C) ==
  [in : 0..(Width - 1), out : 0..(Width - 1), buf : [0..(Size - 1) -> C],
   item_num : 0..(WrapAt - 1), total_read : 0..(WrapAt - 1), total_write : 0..(WrapAt - 1)]

LEMMA PlusIs ==
  ASSUME NEW i \in 0..(Width - 1), NEW n \in 0..Size
  PROVE  /\ Plus(i, n) \in 0..(Width - 1)
         /\ (Plus(i, n) % Size) = (i + n) % Size
         /\ Cell(i, n) = (i + n) % Size
  <1> USE BufferAssumption DEF BufferAssumption
  <1>1. Plus(i, n) \in 0..(Width - 1)
    BY DEF Plus
  <1>2. CASE i + n < Width
    BY <1>1, <1>2 DEF Plus, Cell
  <1>3. CASE i + n >= Width
    <2> Width \in Int /\ Size \in Nat \ {0}
      OBVIOUS
    <2>1. PICK q \in Int : Width = Size * q + (Width % Size)
      BY DivMod, Zenon
    <2> DEFINE m == -q
    <2>2. m \in Int /\ i + n - Width = (i + n) + Size * m /\ i + n \in Int
      BY <2>1
    <2> HIDE DEF m
    <2>3. (i + n + Size * m) % Size = (i + n) % Size
      BY <2>2, Periodic
    <2>4. (i + n - Width) % Size = (i + n) % Size
      BY <2>2, <2>3
    <2>5. Plus(i, n) = i + n - Width
      BY <1>3 DEF Plus
    <2> QED
      BY <1>1, <2>4, <2>5 DEF Cell
  <1> QED
    BY <1>2, <1>3

\* in is where the cells end.
LEMMA EndIs ==
  ASSUME NEW C, NEW f \in Rings(C), fifo_len(f) <= Size
  PROVE  /\ fifo_len(f) \in 0..Size
         /\ f.in = Plus(f.out, fifo_len(f))
         /\ (f.in % Size) = (f.out + fifo_len(f)) % Size
  <1> USE BufferAssumption DEF BufferAssumption
  <1>1. f.in \in 0..(Width - 1) /\ f.out \in 0..(Width - 1)
    BY DEF Rings
  <1>2. fifo_len(f) \in 0..Size /\ f.in = Plus(f.out, fifo_len(f))
    BY <1>1 DEF fifo_len, Plus
  <1> QED
    BY <1>1, <1>2, PlusIs

\* The length after the one or the other index has moved.
LEMMA LenIs ==
  ASSUME NEW i \in 0..(Width - 1), NEW n \in 0..Size, NEW f,
         f.out = i, f.in = Plus(i, n)
  PROVE  fifo_len(f) = n
  BY BufferAssumption DEF BufferAssumption, Plus, fifo_len

LEMMA PlusPlus ==
  ASSUME NEW i \in 0..(Width - 1), NEW m \in 0..Size, NEW n \in 0..Size, m + n <= Size
  PROVE  Plus(Plus(i, m), n) = Plus(i, m + n)
  BY BufferAssumption DEF BufferAssumption, Plus

\* Unless they are WrapAt apart, the totals tell the calls apart.
LEMMA TickItems ==
  ASSUME NEW w \in 0..(WrapAt - 1), NEW r \in 0..(WrapAt - 1)
  PROVE  /\ Tick(w) \in 0..(WrapAt - 1) /\ Items(w, r) \in 0..(WrapAt - 1)
         /\ Items(w, r) < WrapAt - 1 => Items(Tick(w), r) = Items(w, r) + 1
         /\ Items(w, r) > 0 => Items(w, Tick(r)) = Items(w, r) - 1
  BY BufferAssumption DEF BufferAssumption, Tick, Items
-----------------------------------------------------------------------------
(* fifo_put.                                                               *)

LEMMA PutLenIs ==
  ASSUME NEW C, NEW f \in Rings(C), fifo_len(f) <= Size, NEW n \in Nat
  PROVE  /\ PutLen(f, n) \in 0..n /\ fifo_len(f) + PutLen(f, n) <= Size
         /\ PutLen(f, n) = n <=> fifo_len(f) + n <= Size
         /\ fifo_len(f) \in 0..Size
  BY EndIs, BufferAssumption DEF BufferAssumption, PutLen, Least

LEMMA PutFields ==
  ASSUME NEW C, NEW f \in Rings(C), fifo_len(f) <= Size, NEW data \in Seq(C), data # <<>>
  PROVE  /\ fifo_put(f, data).buf = Stored(f, data, PutLen(f, Len(data)))
         /\ fifo_put(f, data).in = Plus(f.in, PutLen(f, Len(data)))
         /\ fifo_put(f, data).out = f.out
         /\ fifo_put(f, data).total_read = f.total_read
         /\ fifo_put(f, data).total_write = Tick(f.total_write)
         /\ fifo_put(f, data).item_num = Items(Tick(f.total_write), f.total_read)
         /\ fifo_len(fifo_put(f, data)) = fifo_len(f) + PutLen(f, Len(data))
  <1> DEFINE g == fifo_put(f, data)
             n == PutLen(f, Len(data))
  <1>1. /\ g.buf = Stored(f, data, n)
        /\ g.in = Plus(f.in, n)
        /\ g.out = f.out
        /\ g.total_read = f.total_read
        /\ g.total_write = Tick(f.total_write)
        /\ g.item_num = Items(Tick(f.total_write), f.total_read)
    BY DEF fifo_put, Rings
  <1>2. /\ fifo_len(f) \in 0..Size /\ n \in 0..Size /\ fifo_len(f) + n \in 0..Size
    <2> DEFINE l == Len(data)
    <2>1. l \in Nat
      OBVIOUS
    <2> HIDE DEF l
    <2>2. PutLen(f, l) \in 0..l /\ fifo_len(f) + PutLen(f, l) <= Size /\ fifo_len(f) \in 0..Size
      BY <2>1, PutLenIs, Zenon
    <2> QED
      BY <2>1, <2>2, BufferAssumption DEF BufferAssumption, l
  <1>3. f.in = Plus(f.out, fifo_len(f)) /\ f.out \in 0..(Width - 1)
    BY EndIs DEF Rings
  <1> HIDE DEF g, n
  <1>4. g.in = Plus(g.out, fifo_len(f) + n)
    BY <1>1, <1>2, <1>3, PlusPlus
  <1>5. fifo_len(g) = fifo_len(f) + n
    BY <1>1, <1>2, <1>3, <1>4, LenIs
  <1> QED
    BY <1>1, <1>5 DEF g, n

\* The cells that were there stay, the new ones follow them.
LEMMA PutCells ==
  ASSUME NEW C, NEW f \in Rings(C), fifo_len(f) <= Size, NEW data \in Seq(C), data # <<>>,
         NEW o \in Int, (f.out % Size) = (o % Size)
  PROVE  /\ fifo_put(f, data).buf \in [0..(Size - 1) -> C]
         /\ \A x \in o..(o + fifo_len(f) - 1) :
              fifo_put(f, data).buf[x % Size] = f.buf[x % Size]
         /\ \A k \in 0..(PutLen(f, Len(data)) - 1) :
              fifo_put(f, data).buf[(o + fifo_len(f) + k) % Size] = data[k + 1]
  <1> DEFINE len == fifo_len(f)
             n == PutLen(f, Len(data))
             r == f.in % Size
             e == o + len
             From(i) == (i + Size - r) % Size
  <1>1. Size \in Nat \ {0} /\ Len(data) \in Nat /\ f.buf \in [0..(Size - 1) -> C]
    BY BufferAssumption DEF BufferAssumption, Rings
  <1>2. len \in 0..Size /\ n \in 0..Len(data) /\ len + n <= Size
    BY <1>1, PutLenIs, Zenon
  <1>3. f.out \in Int
    BY BufferAssumption DEF BufferAssumption, Rings
  <1>4. e \in Int /\ r = (e % Size)
    <2>1. r = (f.out + len) % Size
      BY EndIs
    <2>2. len \in Int
      BY <1>1, <1>2
    <2>3. (f.out + len) % Size = (o + len) % Size
      BY <1>1, <1>3, <2>2, Shifted, Zenon
    <2> QED
      BY <2>1, <2>2, <2>3
  <1>5. fifo_put(f, data).buf =
          [i \in 0..(Size - 1) |-> IF From(i) < n THEN data[From(i) + 1] ELSE f.buf[i]]
    <2>1. fifo_put(f, data).buf = Stored(f, data, n)
      BY PutFields, Zenon
    <2> HIDE DEF n
    <2> QED
      BY <2>1, Zenon DEF Stored
  <1> HIDE DEF len, n, r, e
  <1> USE <1>1
  <1>6. ASSUME NEW i \in 0..(Size - 1)
        PROVE  From(i) \in Nat
    <2>1. r \in Int
      BY <1>1, <1>4, InRange
    <2> QED
      BY <1>1, <2>1
  <1>7. ASSUME NEW d \in (-Size)..(Size - 1)
        PROVE  /\ (e + d) % Size \in 0..(Size - 1)
               /\ From((e + d) % Size) = IF d >= 0 THEN d ELSE d + Size
    <2>1. e + d \in Int /\ d \in Int
      BY <1>1, <1>4
    <2>2. (e + d) % Size \in 0..(Size - 1)
      BY <1>1, <2>1, InRange, Zenon
    <2>3. (((e + d) % Size) + Size - (e % Size)) % Size = IF d >= 0 THEN d ELSE d + Size
      BY <1>1, <1>4, Distance, Zenon
    <2> QED
      BY <1>4, <2>2, <2>3
  <1>8. fifo_put(f, data).buf \in [0..(Size - 1) -> C]
    BY <1>1, <1>2, <1>5, <1>6
  <1>9. ASSUME NEW x \in o..(o + len - 1)
        PROVE  fifo_put(f, data).buf[x % Size] = f.buf[x % Size]
    <2> DEFINE d == x - e
    <2>1. d \in (-Size)..(Size - 1) /\ d < 0 /\ d + Size >= n /\ x = e + d
      BY <1>2 DEF e
    <2> HIDE DEF d
    <2>2. (x % Size) \in 0..(Size - 1) /\ From(x % Size) = d + Size
      BY <1>7, <2>1
    <2>3. ~(From(x % Size) < n)
      BY <1>2, <2>1, <2>2
    <2> HIDE DEF From
    <2> QED
      BY <1>5, <2>2, <2>3
  <1>10. ASSUME NEW k \in 0..(n - 1)
         PROVE  fifo_put(f, data).buf[(e + k) % Size] = data[k + 1]
    <2>1. k \in (-Size)..(Size - 1) /\ k >= 0
      BY <1>2
    <2>2. (e + k) % Size \in 0..(Size - 1) /\ From((e + k) % Size) = k
      BY <1>7, <2>1
    <2>3. From((e + k) % Size) < n
      BY <1>2, <2>1, <2>2
    <2> HIDE DEF From
    <2> QED
      BY <1>5, <2>2, <2>3
  <1> QED
    BY <1>8, <1>9, <1>10 DEF len, n, e

LEMMA PutTyped ==
  ASSUME NEW C, NEW f \in Rings(C), fifo_len(f) <= Size, NEW data \in Seq(C), data # <<>>
  PROVE  fifo_put(f, data) \in Rings(C) /\ fifo_len(fifo_put(f, data)) <= Size
  <1> DEFINE n == PutLen(f, Len(data))
             g == fifo_put(f, data)
  <1>1. /\ f.in \in 0..(Width - 1) /\ f.out \in 0..(Width - 1)
        /\ f.total_write \in 0..(WrapAt - 1) /\ f.total_read \in 0..(WrapAt - 1)
    BY DEF Rings
  <1>2. n \in 0..Size /\ fifo_len(f) + n <= Size
    <2> DEFINE l == Len(data)
    <2>1. l \in Nat
      OBVIOUS
    <2> HIDE DEF l
    <2>2. PutLen(f, l) \in 0..l /\ fifo_len(f) + PutLen(f, l) <= Size /\ fifo_len(f) \in 0..Size
      BY <2>1, PutLenIs, Zenon
    <2> QED
      BY <2>1, <2>2, BufferAssumption DEF BufferAssumption, l
  <1> DEFINE j == Plus(f.in, n)
             w == Tick(f.total_write)
             a == Items(w, f.total_read)
             B == Stored(f, data, n)
  <1>3. j \in 0..(Width - 1)
    <2> HIDE DEF n
    <2> QED
      BY <1>1, <1>2, PlusIs, Zenon
  <1>4. w \in 0..(WrapAt - 1)
    BY <1>1, TickItems, Zenon
  <1>5. a \in 0..(WrapAt - 1)
    <2> HIDE DEF w
    <2> QED
      BY <1>1, <1>4, TickItems, Zenon
  <1>6. B \in [0..(Size - 1) -> C]
    <2>1. g.buf = B
      BY PutFields, Zenon
    <2>2. f.out \in Int
      BY <1>1, BufferAssumption DEF BufferAssumption
    <2>3. g.buf \in [0..(Size - 1) -> C]
      BY <2>2, PutCells, Zenon
    <2> QED
      BY <2>1, <2>3
  <1>7. g = [f EXCEPT !.buf = B, !.in = j, !.total_write = w, !.item_num = a]
    BY DEF fifo_put
  <1>8. fifo_len(g) = fifo_len(f) + n
    BY PutFields, Zenon
  <1> HIDE DEF n, j, w, a, B, g
  <1>9. g \in Rings(C)
    BY <1>3, <1>4, <1>5, <1>6, <1>7 DEF Rings
  <1> QED
    BY <1>2, <1>8, <1>9 DEF g

-----------------------------------------------------------------------------
(* fifo_get.                                                               *)

LEMMA GetLenIs ==
  ASSUME NEW C, NEW f \in Rings(C), fifo_len(f) <= Size, NEW n \in Nat
  PROVE  /\ GetLen(f, n) \in 0..n /\ GetLen(f, n) <= fifo_len(f)
         /\ GetLen(f, n) = n <=> n <= fifo_len(f)
         /\ fifo_len(f) \in 0..Size
  BY EndIs, BufferAssumption DEF BufferAssumption, GetLen, Least

LEMMA GetFields ==
  ASSUME NEW C, NEW f \in Rings(C), fifo_len(f) <= Size, NEW l \in Nat \ {0},
         NEW o \in Int, (f.out % Size) = (o % Size)
  PROVE  /\ fifo_get(f, l).buf = f.buf
         /\ (fifo_get(f, l).out % Size) = (o + GetLen(f, l)) % Size
         /\ fifo_get(f, l).total_read = Tick(f.total_read)
         /\ fifo_get(f, l).total_write = f.total_write
         /\ fifo_get(f, l).item_num = Items(f.total_write, Tick(f.total_read))
         /\ fifo_len(fifo_get(f, l)) = fifo_len(f) - GetLen(f, l)
         /\ fifo_get(f, l) \in Rings(C)
  <1> DEFINE g == fifo_get(f, l)
             n == GetLen(f, l)
             m == fifo_len(f) - n
             j == Plus(f.out, n)
             r == Tick(f.total_read)
             a == Items(f.total_write, r)
  <1>1. /\ g = [f EXCEPT !.out = j, !.total_read = r, !.item_num = a]
    BY DEF fifo_get
  <1>2. /\ f.in \in 0..(Width - 1) /\ f.out \in 0..(Width - 1)
        /\ f.total_write \in 0..(WrapAt - 1) /\ f.total_read \in 0..(WrapAt - 1)
    BY DEF Rings
  <1>3. n \in 0..Size /\ m \in 0..Size /\ n + m = fifo_len(f) /\ n + m <= Size
    <2> HIDE DEF g
    <2>1. GetLen(f, l) \in 0..l /\ GetLen(f, l) <= fifo_len(f) /\ fifo_len(f) \in 0..Size
      BY GetLenIs
    <2> QED
      BY <2>1, BufferAssumption DEF BufferAssumption
  <1> HIDE DEF n
  <1>4. j \in 0..(Width - 1) /\ (j % Size) = (f.out + n) % Size
    BY <1>2, <1>3, PlusIs, Zenon
  <1>5. (j % Size) = (o + n) % Size
    <2>1. Size \in Nat \ {0} /\ f.out \in Int /\ n \in Int
      BY <1>2, <1>3, BufferAssumption DEF BufferAssumption
    <2>2. (f.out + n) % Size = (o + n) % Size
      BY <2>1, Shifted, Zenon
    <2> QED
      BY <1>4, <2>2
  <1>6. r \in 0..(WrapAt - 1)
    BY <1>2, TickItems, Zenon
  <1> HIDE DEF r
  <1>7. a \in 0..(WrapAt - 1)
    BY <1>2, <1>6, TickItems, Zenon
  <1> HIDE DEF m
  <1>8. f.in = Plus(j, m)
    <2>1. f.in = Plus(f.out, n + m)
      BY <1>3, EndIs
    <2>2. Plus(Plus(f.out, n), m) = Plus(f.out, n + m)
      BY <1>2, <1>3, PlusPlus, Zenon
    <2> QED
      BY <2>1, <2>2
  <1> HIDE DEF j, a
  <1>9. g \in Rings(C)
    BY <1>1, <1>4, <1>6, <1>7 DEF Rings
  <1>10. g.buf = f.buf /\ g.in = f.in /\ g.out = j /\ g.total_read = r
         /\ g.total_write = f.total_write /\ g.item_num = a
    BY <1>1 DEF Rings
  <1> HIDE DEF g
  <1>11. fifo_len(g) = m
    BY <1>3, <1>4, <1>8, <1>10, LenIs, Zenon
  <1> QED
    BY <1>5, <1>9, <1>10, <1>11 DEF g, n, m, r, a

\* What is copied out, by place.
LEMMA FetchedIs ==
  ASSUME NEW C, NEW f \in Rings(C), fifo_len(f) <= Size, NEW l \in Nat,
         NEW o \in Int, (f.out % Size) = (o % Size)
  PROVE  Fetched(f, l) = [k \in 1..GetLen(f, l) |-> f.buf[(o + k - 1) % Size]]
  <1>1. ASSUME NEW k \in 1..GetLen(f, l)
        PROVE  Cell(f.out, k - 1) = (o + k - 1) % Size
    <2> DEFINE n == GetLen(f, l)
               d == k - 1
    <2>1. n \in 0..Size
      <3>1. GetLen(f, l) \in 0..l /\ GetLen(f, l) <= fifo_len(f) /\ fifo_len(f) \in 0..Size
        BY GetLenIs
      <3> QED
        BY <3>1, BufferAssumption DEF BufferAssumption
    <2>2. d \in 0..Size /\ d \in Int /\ o + k - 1 = o + d
      <3> HIDE DEF n
      <3>1. k \in 1..n
        BY DEF n
      <3> QED
        BY <2>1, <3>1, BufferAssumption DEF BufferAssumption
    <2> HIDE DEF d
    <2>3. f.out \in 0..(Width - 1) /\ f.out \in Int /\ Size \in Nat \ {0}
      BY BufferAssumption DEF BufferAssumption, Rings
    <2>4. Cell(f.out, d) = (f.out + d) % Size
      BY <2>2, <2>3, PlusIs, Zenon
    <2>5. (f.out + d) % Size = (o + d) % Size
      BY <2>2, <2>3, Shifted, Zenon
    <2> QED
      BY <2>2, <2>4, <2>5 DEF d
  <1> QED
    BY <1>1, Zenon DEF Fetched
=============================================================================
