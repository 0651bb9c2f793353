----------------------------- MODULE SendQueue -----------------------------
(* A link's send buffer in BUF mode: the threads that call                 *)
(* NM_net_send_data put a header and a payload into the ring, the send     *)
(* thread takes them out with NM_get_buf.  Source: src/NetModule.c.  The   *)
(* link around it (flags, socket, teardown) is NetLink's.                  *)
(***************************************************************************)
EXTENDS CycleBuffer, FiniteSets

CONSTANTS
  Producers,    \* threads that call NM_net_send_data
  Nobody,       \* no thread
  Messages,
  PayloadLen,   \* cells of each message's payload: st_data.data_length
  HeaderLen,    \* cells of a NET_DATA_ST
  MaxFrame      \* MAX_FRAME_BUF_SIZE in cells

\* Callers never send an empty payload.
ASSUME QueueAssumption ==
  /\ PayloadLen \in [Messages -> Nat \ {0}]
  /\ HeaderLen \in Nat \ {0} /\ MaxFrame \in Nat
  /\ Nobody \notin Producers \cup Messages
  /\ "send_thread" \notin Producers \cup {Nobody}

VARIABLES
  fifo,   \* cycle_send_buf
  lock,   \* holder of cycle_send_buf->lock
  put,    \* each producer: pc, message
  get,    \* the send thread: pc, the message whose header it has read
  taken,  \* what its last NM_get_buf copied: a message; Nobody for -1, Blank for garbage
  queue   \* messages put and not yet taken nor thrown away: a history variable that no
          \* guard and no other variable reads

vars == <<fifo, lock, put, get, taken, queue>>

Header(m) == [k \in 1..HeaderLen |-> [of |-> m, part |-> "header", at |-> k]]
Payload(m) == [k \in 1..PayloadLen[m] |-> [of |-> m, part |-> "payload", at |-> k]]

Cells == {Blank} \cup [of : Messages, part : {"header", "payload"}, at : 1..MaxFrame]

TypeOK ==
  /\ fifo \in [in : 0..(Width - 1), out : 0..(Width - 1), buf : [0..(Size - 1) -> Cells],
               item_num : 0..(WrapAt - 1), total_read : 0..(WrapAt - 1),
               total_write : 0..(WrapAt - 1)]
  /\ fifo_len(fifo) <= Size
  /\ lock \in Producers \cup {"send_thread", Nobody}
  /\ put \in [Producers -> [pc : {"idle", "lock", "header", "payload", "unlock", "fail"},
                            msg : Messages \cup {Nobody}]]
  /\ get \in [pc : {"look", "lock", "header", "payload", "unlock", "fail"},
              msg : Messages \cup {Nobody}]
  /\ taken \in Messages \cup {Nobody}
  /\ queue \in Seq(Messages)

Init ==
  /\ fifo = init_cycle_buffer
  /\ lock = Nobody
  /\ put = [p \in Producers |-> [pc |-> "idle", msg |-> Nobody]]
  /\ get = [pc |-> "look", msg |-> Nobody]
  /\ taken = Nobody
  /\ queue = <<>>

-----------------------------------------------------------------------------
(* NM_net_send_data.                                                       *)

\* A message too long for a frame is refused at once.
PutBegin(p) ==
  /\ put[p].pc = "idle"
  /\ \E m \in Messages :
       /\ PayloadLen[m] + HeaderLen < MaxFrame
       /\ put' = [put EXCEPT ![p] = [pc |-> "lock", msg |-> m]]
  /\ UNCHANGED <<fifo, lock, get, taken, queue>>

PutLock(p) ==
  /\ put[p].pc = "lock" /\ lock = Nobody
  /\ lock' = p
  /\ put' = [put EXCEPT ![p].pc = "header"]
  /\ UNCHANGED <<fifo, get, taken, queue>>

\* One fifo_put; the buffer may take less than it was given.
PutPart(p, at, data, next) ==
  /\ put[p].pc = at
  /\ fifo' = fifo_put(fifo, data)
  /\ put' = [put EXCEPT ![p].pc = IF PutLen(fifo, Len(data)) = Len(data) THEN next
                                 ELSE "fail"]
  /\ UNCHANGED <<lock, get, taken>>

PutHeader(p) ==
  /\ PutPart(p, "header", Header(put[p].msg), "payload")
  /\ UNCHANGED queue

PutPayload(p) ==
  /\ PutPart(p, "payload", Payload(put[p].msg), "unlock")
  /\ queue' = IF put'[p].pc = "unlock" THEN Append(queue, put[p].msg) ELSE queue

PutUnlock(p) ==
  /\ put[p].pc = "unlock"
  /\ lock' = Nobody
  /\ put' = [put EXCEPT ![p] = [pc |-> "idle", msg |-> Nobody]]
  /\ UNCHANGED <<fifo, get, taken, queue>>

\* Slip: what was put of the message stays.
PutFailKeep(p) ==
  /\ put[p].pc = "fail"
  /\ lock' = Nobody
  /\ put' = [put EXCEPT ![p] = [pc |-> "idle", msg |-> Nobody]]
  /\ UNCHANGED <<fifo, get, taken, queue>>

\* err: everything queued goes.
PutFail(p) ==
  /\ put[p].pc = "fail"
  /\ fifo' = fifo_reset(fifo)
  /\ lock' = Nobody
  /\ put' = [put EXCEPT ![p] = [pc |-> "idle", msg |-> Nobody]]
  /\ queue' = <<>>
  /\ UNCHANGED <<get, taken>>

NM_net_send_data(p) ==
  PutBegin(p) \/ PutLock(p) \/ PutHeader(p) \/ PutPayload(p) \/ PutUnlock(p) \/ PutFail(p)

-----------------------------------------------------------------------------
(* NM_net_send_thread and NM_get_buf.                                      *)

\* fifo_enable_get is called without the lock.
Look ==
  /\ get.pc = "look" /\ fifo_enable_get(fifo)
  /\ get' = [get EXCEPT !.pc = "lock"]
  /\ UNCHANGED <<fifo, lock, put, taken, queue>>

GetLock ==
  /\ get.pc = "lock" /\ lock = Nobody
  /\ lock' = "send_thread"
  /\ get' = [get EXCEPT !.pc = "header"]
  /\ UNCHANGED <<fifo, put, taken, queue>>

\* The length comes from the header read: these cells are taken for one whatever
\* they are.
GetHeader ==
  /\ get.pc = "header"
  /\ fifo' = fifo_get(fifo, HeaderLen)
  /\ get' = IF GetLen(fifo, HeaderLen) = HeaderLen
            THEN [pc |-> "payload", msg |-> Fetched(fifo, HeaderLen)[1].of]
            ELSE [pc |-> "fail", msg |-> Nobody]
  /\ UNCHANGED <<lock, put, taken, queue>>

GetPayload ==
  /\ get.pc = "payload"
  /\ LET len == PayloadLen[get.msg]
     IN /\ fifo' = fifo_get(fifo, len)
        /\ get' = [get EXCEPT !.pc = IF GetLen(fifo, len) = len THEN "unlock" ELSE "fail"]
        /\ taken' = IF Fetched(fifo, len) = Payload(get.msg) THEN get.msg ELSE Blank
        /\ queue' = IF GetLen(fifo, len) = len THEN SubSeq(queue, 2, Len(queue)) ELSE queue
  /\ UNCHANGED <<lock, put>>

GetUnlock ==
  /\ get.pc = "unlock"
  /\ lock' = Nobody
  /\ get' = [pc |-> "look", msg |-> Nobody]
  /\ UNCHANGED <<fifo, put, taken, queue>>

\* err2: -1, and everything queued goes.
GetFail ==
  /\ get.pc = "fail"
  /\ fifo' = fifo_reset(fifo)
  /\ lock' = Nobody
  /\ get' = [pc |-> "look", msg |-> Nobody]
  /\ taken' = Nobody
  /\ queue' = <<>>
  /\ UNCHANGED put

NM_net_send_thread == Look \/ GetLock \/ GetHeader \/ GetPayload \/ GetUnlock \/ GetFail

-----------------------------------------------------------------------------

Next == NM_net_send_thread \/ \E p \in Producers : NM_net_send_data(p)

Spec == Init /\ [][Next]_vars

-----------------------------------------------------------------------------
(* Properties.                                                             *)

\* No message waits in the buffer unseen: whenever the lock is free and there is
\* anything in the buffer, it begins with a whole message, and fifo_enable_get tells the
\* send thread so (item_num counts two per message, across the totals' return to 0).
NoStrandedMessage ==
  lock = Nobody /\ fifo_len(fifo) > 0 =>
    /\ fifo_enable_get(fifo)
    /\ \E m \in Messages :
         Fetched(fifo, HeaderLen + PayloadLen[m]) = Header(m) \o Payload(m)

\* Accepted messages come out whole and in order, or are all forgotten.
Promise == INSTANCE FrameQueue WITH Nothing <- Nobody

KeepsPromise == Promise!Spec
=============================================================================
