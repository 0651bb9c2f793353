---------------------------- MODULE CycleBuffer ----------------------------
(* CYCLE_BUFFER, the ring a link in BUF mode queues its messages in: the   *)
(* operations of src/buf_array.c on a record f of its fields, without the  *)
(* two mutexes, which the callers take.                                    *)
(***************************************************************************)
EXTENDS Integers, Sequences

CONSTANTS
  Size,    \* cells of the buffer
  Width,   \* in and out are unsigned: 2^32, a multiple of Size
  WrapAt,  \* total_read and total_write go back to 0 here: 1000000
  Blank    \* what a cell holds at first

ASSUME BufferAssumption ==
  /\ Size \in Nat \ {0} /\ Width \in Nat /\ WrapAt \in Nat
  /\ Width > Size /\ Width % Size = 0
  /\ WrapAt > Size

init_cycle_buffer ==
  [in |-> 0, out |-> 0, buf |-> [i \in 0..(Size - 1) |-> Blank],
   item_num |-> 0, total_read |-> 0, total_write |-> 0]

\* in - out in unsigned arithmetic.
fifo_len(f) == IF f.in >= f.out THEN f.in - f.out ELSE f.in + Width - f.out

Plus(i, n) == IF i + n >= Width THEN i + n - Width ELSE i + n

\* The cell n places after the one that in or out designates.
Cell(i, n) == Plus(i, n) % Size

\* Slip: a total is put back one too late.
TickLate(total) == IF total >= WrapAt THEN 0 ELSE total + 1

\* A call is counted, whatever it moved.
Tick(total) == IF total + 1 >= WrapAt THEN 0 ELSE total + 1

Items(write, read) == IF write >= read THEN write - read ELSE write + WrapAt - read

Least(m, n) == IF m < n THEN m ELSE n

\* What a call with len cells moves.
PutLen(f, len) == Least(len, Size - fifo_len(f))
GetLen(f, len) == Least(len, fifo_len(f))

\* The two memcpy calls of fifo_put.
Stored(f, data, n) ==
  [i \in 0..(Size - 1) |->
     LET k == (i + Size - (f.in % Size)) % Size
     IN IF k < n THEN data[k + 1] ELSE f.buf[i]]

\* The buffer after fifo_put; PutLen is what it returns.
fifo_put(f, data) ==
  IF data = <<>> THEN f
  ELSE LET n == PutLen(f, Len(data))
           w == Tick(f.total_write)
       IN [f EXCEPT !.buf = Stored(f, data, n), !.in = Plus(f.in, n),
                    !.total_write = w, !.item_num = Items(w, f.total_read)]

\* The buffer after fifo_get, and the cells it has copied: GetLen of them.
fifo_get(f, len) ==
  IF len = 0 THEN f
  ELSE LET r == Tick(f.total_read)
       IN [f EXCEPT !.out = Plus(f.out, GetLen(f, len)),
                    !.total_read = r, !.item_num = Items(f.total_write, r)]

Fetched(f, len) == [k \in 1..GetLen(f, len) |-> f.buf[Cell(f.out, k - 1)]]

fifo_reset(f) ==
  [f EXCEPT !.item_num = 0, !.in = 0, !.out = 0, !.total_read = 0, !.total_write = 0]

\* Slip: more than one message must be there.
EnableGetLate(f) == f.item_num > 2

\* fifo_enable_get with save_num 0, which NM_ini_st and NM_reset set.
fifo_enable_get(f) == f.item_num > 0 /\ f.item_num >= 2
=============================================================================
