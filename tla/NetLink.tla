------------------------------ MODULE NetLink ------------------------------
(***************************************************************************)
(* One NET_MODULE_ST: the TCP link between this process and the camera     *)
(* process, from NM_connect to exit(0).  Source: src/NetModule.c.          *)
(*                                                                         *)
(* Actors: the caller of NM_connect, the receive, send and check threads   *)
(* it creates, the threads that call NM_net_send_data, and the camera at   *)
(* the other end of the socket (external).  `pst` keeps the source's field *)
(* names; a socket is open or not, client is 1 or 0.  A message is Chunks  *)
(* pieces, a piece being what one recv() or send() call moves.             *)
(***************************************************************************)
EXTENDS Integers, FiniteSets

CONSTANTS
  Senders,    \* threads that call NM_net_send_data
  NoSender,   \* no thread
  Modes,      \* the send_data_mode a link is made with
  Chunks,     \* pieces per message: the header is the first
  IdleLimit,  \* connect_lost_time: 150 ticks of 100 ms (line 818)
  WaitLimit,  \* polls of 10 ms for a thread to end: 30 (lines 972, 1007)
  RecvWrap,   \* recv_data_num goes back to 0 above this: 1000 (line 52)
  QueueCap    \* bound: messages the cycle buffer holds before it is reset

ASSUME LinkAssumption ==
  /\ NoSender \notin Senders
  /\ Modes \subseteq {"NET_SEND_DIRECT_MODE", "NET_SEND_BUF_MODE"}
  /\ Chunks \in Nat /\ Chunks >= 2
  /\ IdleLimit \in Nat /\ WaitLimit \in Nat
  /\ RecvWrap \in Nat \ {0} /\ QueueCap \in Nat \ {0}

VARIABLES
  pst,     \* the fields of NET_MODULE_ST the threads share
  conn,    \* where NM_connect's caller is
  rx,      \* the receive thread: pc, pieces still to read, errno
  chk,     \* the check thread: pc, idle ticks, last recv_data_num, polls
  txd,     \* the send thread of NET_SEND_BUF_MODE: pc, pieces to send
  tx,      \* each sender: pc, pieces to send
  cancel,  \* threads with a pending pthread_cancel
  lock,    \* holder of cycle_send_buf->lock
  wire,    \* DIRECT mode: whose message is incomplete on the stream
  peer,    \* the camera's end of the connection
  sock,    \* the socket behind pst->client
  exited   \* the process is gone

vars == <<pst, conn, rx, chk, txd, tx, cancel, lock, wire, peer, sock, exited>>

Workers == {"recv", "check"}

BufMode == pst.send_data_mode = "NET_SEND_BUF_MODE"

NET_MODULE_ST ==
  [send_data_mode : Modes, client : {0, 1},
   send_th_flag : {-1, 0, 1}, recv_th_flag : {-1, 0, 1},
   is_alread_work : {0, 1}, stop_work_by_user : {0, 1}, have_again_flag : {0, 1},
   recv_data_num : 0..RecvWrap, netrecv_id : Workers \cup {"none"}, queued : 0..QueueCap]

Receiver == [pc : {"none", "test", "select", "read", "out", "done"},
             need : 0..Chunks, errno : {"other", "EAGAIN"}]

Checker == [pc : {"none", "loop", "dsend", "dsendstop", "dsendwait", "dsendzero",
                  "drecv", "drecvstop", "drecvwait", "drecvzero", "drecvforce", "dcancel",
                  "dclose", "dclear", "sleep", "reset", "exit", "dead"},
            idle : 0..IdleLimit, seen : 0..RecvWrap, wait : 0..WaitLimit]

\* Where a sender holds the lock.
Holding == {"put", "head", "call", "stop", "again", "fail"}

Sender == [pc : {"idle", "flags", "lock"} \cup Holding, left : 0..Chunks]

TypeOK ==
  /\ pst \in NET_MODULE_ST
  /\ conn \in {"start", "send", "recv", "check", "up", "undo"}
  /\ rx \in Receiver
  /\ chk \in Checker
  /\ txd \in [pc : {"none", "test", "get", "send", "out", "done"}, left : 0..Chunks]
  /\ tx \in [Senders -> Sender]
  /\ cancel \in SUBSET Workers
  /\ lock \in Senders \cup {NoSender}
  /\ wire \in Senders \cup {NoSender}
  /\ peer \in {"up", "stalled", "closed", "reset"}
  /\ sock \in {"none", "open", "closed"}
  /\ exited \in BOOLEAN

\* NM_ini_st: memset to 0 (bind_enc_num and the buffer's size are not modelled).
NM_ini_st(send_mode) ==
  [send_data_mode |-> send_mode, client |-> 0,
   send_th_flag |-> 0, recv_th_flag |-> 0,
   is_alread_work |-> 0, stop_work_by_user |-> 0, have_again_flag |-> 0, recv_data_num |-> 0,
   netrecv_id |-> "none", queued |-> 0]

Init ==
  /\ \E m \in Modes : pst = NM_ini_st(m)
  /\ conn = "start"
  /\ rx = [pc |-> "none", need |-> 0, errno |-> "other"]
  /\ chk = [pc |-> "none", idle |-> 0, seen |-> 0, wait |-> 0]
  /\ txd = [pc |-> "none", left |-> 0]
  /\ tx = [s \in Senders |-> [pc |-> "idle", left |-> 0]]
  /\ cancel = {}
  /\ lock = NoSender
  /\ wire = NoSender
  /\ peer = "up"
  /\ sock = "none"
  /\ exited = FALSE

-----------------------------------------------------------------------------
(* NM_connect and NM_create_work_thread.  pthread_create may fail.         *)

\* connect() succeeds, or NM_connect returns -1 and main returns.
Connect ==
  /\ conn = "start"
  /\ \/ /\ pst' = [pst EXCEPT !.client = 1]
        /\ sock' = "open"
        /\ conn' = "send"
        /\ UNCHANGED exited
     \/ /\ exited' = TRUE
        /\ UNCHANGED <<pst, sock, conn>>
  /\ UNCHANGED <<rx, chk, txd, tx, cancel, lock, wire, peer>>

CreateSendThread ==
  /\ conn = "send"
  /\ \/ /\ ~BufMode
        /\ conn' = "recv"
        /\ UNCHANGED <<pst, txd>>
     \/ /\ BufMode
        /\ pst' = [pst EXCEPT !.send_th_flag = 1]
        /\ txd' = [txd EXCEPT !.pc = "test"]
        /\ conn' = "recv"
     \/ /\ BufMode
        /\ pst' = [pst EXCEPT !.send_th_flag = 0]
        /\ conn' = "undo"
        /\ UNCHANGED txd
  /\ UNCHANGED <<rx, chk, tx, cancel, lock, wire, peer, sock, exited>>

CreateRecvThread ==
  /\ conn = "recv"
  /\ \/ /\ pst' = [pst EXCEPT !.recv_th_flag = 1, !.netrecv_id = "recv",
                              !.is_alread_work = 1]
        /\ rx' = [rx EXCEPT !.pc = "test"]
        /\ conn' = "check"
     \/ /\ pst' = [pst EXCEPT !.recv_th_flag = 0]
        /\ conn' = "undo"
        /\ UNCHANGED rx
  /\ UNCHANGED <<chk, txd, tx, cancel, lock, wire, peer, sock, exited>>

\* Line 905 stores the check thread's id in netrecv_id, over the receive thread's.
CreateCheckThread ==
  /\ conn = "check"
  /\ \/ /\ pst' = [pst EXCEPT !.netrecv_id = "check"]
        /\ chk' = [chk EXCEPT !.pc = "loop"]
        /\ conn' = "up"
     \/ /\ conn' = "undo"
        /\ UNCHANGED <<pst, chk>>
  /\ UNCHANGED <<rx, txd, tx, cancel, lock, wire, peer, sock, exited>>

-----------------------------------------------------------------------------
(* NM_net_recv_thread and, from "read" on, NM_command_recv_data.           *)

\* At p with n pieces to read.
RxAt(p, n) == [pc |-> p, need |-> n, errno |-> rx.errno]

RecvTest ==
  /\ rx.pc = "test"
  /\ rx' = [rx EXCEPT !.pc = IF pst.recv_th_flag = 1 THEN "select" ELSE "out"]
  /\ UNCHANGED <<pst, conn, chk, txd, tx, cancel, lock, wire, peer, sock, exited>>

\* select() on pst->client: the 1 ms run out; something to read, an end of file or
\* an error; or the descriptor was closed.  With client = 0 it watches
\* descriptor 0, and NM_socket_read_data refuses to read from that.
RecvSelect ==
  /\ rx.pc = "select"
  /\ \/ /\ pst.client = 1 /\ sock = "open" => peer \in {"up", "stalled"}
        /\ rx' = [rx EXCEPT !.pc = "test"]
     \/ /\ pst.client = 1 /\ sock = "open" /\ peer # "stalled"
        /\ rx' = RxAt("read", Chunks)
     \/ /\ pst.client = 0 \/ sock # "open"
        /\ rx' = [rx EXCEPT !.pc = "out"]
  /\ UNCHANGED <<pst, conn, chk, txd, tx, cancel, lock, wire, peer, sock, exited>>

\* Slip: the counter is tested before it is incremented.
CountLate(n) == IF n > RecvWrap THEN 0 ELSE n + 1

\* recv_data_num counts messages.
Count(n) == IF n + 1 > RecvWrap THEN 0 ELSE n + 1

\* The last piece makes the message complete: recv_data_num counts it and
\* net_get_data, which may leave another errno, gets it.
RecvPiece ==
  /\ rx.pc = "read" /\ sock = "open" /\ peer = "up"
  /\ IF rx.need > 1
     THEN /\ rx' = [rx EXCEPT !.need = @ - 1]
          /\ UNCHANGED pst
     ELSE /\ \E e \in {rx.errno, "other"} :
               rx' = [pc |-> "test", need |-> 0, errno |-> e]
          /\ pst' = [pst EXCEPT !.recv_data_num = Count(@)]
  /\ UNCHANGED <<conn, chk, txd, tx, cancel, lock, wire, peer, sock, exited>>

\* SO_RCVTIMEO: recv returns -1 with errno = EAGAIN and the loop continues,
\* whatever recv_th_flag is by then.
RecvTimeout ==
  /\ rx.pc = "read" /\ sock = "open" /\ peer \in {"up", "stalled"}
  /\ rx' = [rx EXCEPT !.errno = "EAGAIN"]
  /\ UNCHANGED <<pst, conn, chk, txd, tx, cancel, lock, wire, peer, sock, exited>>

\* recv returns 0: errno is the one an earlier call left, and with EAGAIN in it
\* the loop never ends (line 251).
RecvEof ==
  /\ rx.pc = "read" /\ sock = "open" /\ peer \in {"closed", "reset"}
  /\ rx' = IF rx.errno = "EAGAIN" THEN rx ELSE RxAt("out", 0)
  /\ UNCHANGED <<pst, conn, chk, txd, tx, cancel, lock, wire, peer, sock, exited>>

\* A reset or closed descriptor; a header whose length is refused (line 38); or
\* pst->client already 0 when the payload's read begins.
RecvFail ==
  /\ rx.pc = "read"
  /\ \/ peer = "reset" \/ sock # "open"
     \/ rx.need = Chunks - 1 /\ peer = "up"
     \/ rx.need >= Chunks - 1 /\ pst.client = 0
  /\ rx' = RxAt("out", 0)
  /\ UNCHANGED <<pst, conn, chk, txd, tx, cancel, lock, wire, peer, sock, exited>>

RecvEnd ==
  /\ rx.pc = "out"
  /\ rx' = [rx EXCEPT !.pc = "done"]
  /\ pst' = [pst EXCEPT !.recv_th_flag = -1]
  /\ UNCHANGED <<conn, chk, txd, tx, cancel, lock, wire, peer, sock, exited>>

\* select and recv are cancellation points.
RecvCancelled ==
  /\ "recv" \in cancel
  /\ rx.pc \in {"select", "read"}
  /\ rx' = RxAt("done", 0)
  /\ UNCHANGED <<pst, conn, chk, txd, tx, cancel, lock, wire, peer, sock, exited>>

-----------------------------------------------------------------------------
(* NM_net_check_thread and NM_destroy_work_thread.  NM_connect's caller    *)
(* runs the latter too (conn = "undo") when it could not create a thread.  *)

\* Slip: the send thread's flag is not looked at.
WatchingReader == pst.recv_th_flag = 1 /\ pst.stop_work_by_user = 0

Watching ==
  /\ pst.recv_th_flag = 1
  /\ pst.send_th_flag = 1 \/ ~BufMode
  /\ pst.stop_work_by_user = 0

\* Slip: silence is not counted.
CheckTickPatient ==
  /\ chk.pc = "loop" /\ Watching
  /\ chk' = [chk EXCEPT !.seen = pst.recv_data_num]
  /\ UNCHANGED <<pst, conn, rx, txd, tx, cancel, lock, wire, peer, sock, exited>>

\* A link made by NM_connect has connect_port 0, so silence ends it (line 836).
CheckTick ==
  /\ chk.pc = "loop" /\ Watching
  /\ \/ /\ chk.seen # pst.recv_data_num
        /\ chk' = [pc |-> "loop", idle |-> 0, seen |-> pst.recv_data_num, wait |-> 0]
     \/ /\ chk.seen = pst.recv_data_num /\ chk.idle + 1 <= IdleLimit
        /\ chk' = [chk EXCEPT !.idle = @ + 1]
     \/ /\ chk.seen = pst.recv_data_num /\ chk.idle + 1 > IdleLimit
        /\ chk' = [chk EXCEPT !.pc = "dsend"]
  /\ UNCHANGED <<pst, conn, rx, txd, tx, cancel, lock, wire, peer, sock, exited>>

\* is_alread_work is 1 before this thread exists.
CheckLeaves ==
  /\ chk.pc = "loop" /\ ~Watching
  /\ chk' = [chk EXCEPT !.pc = IF pst.is_alread_work = 1 THEN "dsend" ELSE "exit"]
  /\ UNCHANGED <<pst, conn, rx, txd, tx, cancel, lock, wire, peer, sock, exited>>

UndoStarts ==
  /\ conn = "undo" /\ chk.pc = "none"
  /\ chk' = [chk EXCEPT !.pc = "dsend"]
  /\ UNCHANGED <<pst, conn, rx, txd, tx, cancel, lock, wire, peer, sock, exited>>

\* At p after n polls.
ChkAt(p, n) == [pc |-> p, idle |-> chk.idle, seen |-> chk.seen, wait |-> n]

\* Each thread is told to stop if its flag was 1, and waited for.  Its flag is set to 0
\* after each test; a thread that ends in between has written its -1 in vain.
DestroySend ==
  /\ chk.pc = "dsend"
  /\ chk' = [chk EXCEPT !.pc = CASE ~BufMode                         -> "drecv"
                                 [] BufMode /\ pst.send_th_flag = 1 -> "dsendstop"
                                 [] OTHER                           -> "dsendzero"]
  /\ UNCHANGED <<pst, conn, rx, txd, tx, cancel, lock, wire, peer, sock, exited>>

DestroySendFlag ==
  /\ chk.pc \in {"dsendstop", "dsendzero"}
  /\ pst' = [pst EXCEPT !.send_th_flag = 0]
  /\ chk' = ChkAt(IF chk.pc = "dsendstop" THEN "dsendwait" ELSE "drecv", 0)
  /\ UNCHANGED <<conn, rx, txd, tx, cancel, lock, wire, peer, sock, exited>>

DestroySendWait ==
  /\ chk.pc = "dsendwait"
  /\ chk' = IF pst.send_th_flag = -1 \/ chk.wait + 1 > WaitLimit THEN ChkAt("dsendzero", 0)
            ELSE [chk EXCEPT !.wait = @ + 1]
  /\ UNCHANGED <<pst, conn, rx, txd, tx, cancel, lock, wire, peer, sock, exited>>

\* Slip: the receive thread is waited for even if it has ended.
DestroyRecvAlways ==
  /\ chk.pc = "drecv"
  /\ chk' = [chk EXCEPT !.pc = "drecvstop"]
  /\ UNCHANGED <<pst, conn, rx, txd, tx, cancel, lock, wire, peer, sock, exited>>

DestroyRecv ==
  /\ chk.pc = "drecv"
  /\ chk' = [chk EXCEPT !.pc = IF pst.recv_th_flag = 1 THEN "drecvstop" ELSE "drecvzero"]
  /\ UNCHANGED <<pst, conn, rx, txd, tx, cancel, lock, wire, peer, sock, exited>>

DestroyRecvFlag ==
  /\ chk.pc \in {"drecvstop", "drecvzero", "drecvforce"}
  /\ pst' = [pst EXCEPT !.recv_th_flag = 0]
  /\ chk' = ChkAt(CASE chk.pc = "drecvstop"  -> "drecvwait"
                    [] chk.pc = "drecvzero"  -> "dclose"
                    [] chk.pc = "drecvforce" -> "dcancel", 0)
  /\ UNCHANGED <<conn, rx, txd, tx, cancel, lock, wire, peer, sock, exited>>

DestroyRecvWait ==
  /\ chk.pc = "drecvwait"
  /\ \/ /\ pst.recv_th_flag = -1
        /\ chk' = ChkAt("drecvzero", 0)
     \/ /\ pst.recv_th_flag # -1 /\ chk.wait + 1 > WaitLimit
        /\ chk' = ChkAt("drecvforce", 0)
     \/ /\ pst.recv_th_flag # -1 /\ chk.wait + 1 <= WaitLimit
        /\ chk' = [chk EXCEPT !.wait = @ + 1]
  /\ UNCHANGED <<pst, conn, rx, txd, tx, cancel, lock, wire, peer, sock, exited>>

\* Slip: stop_work_by_user does not spare the thread.
CancelAlways == {pst.netrecv_id} \ {"none"}

\* The thread to cancel when the receive thread has not ended in time.
CancelTarget ==
  IF pst.stop_work_by_user = 0 /\ pst.netrecv_id # "none" THEN {pst.netrecv_id} ELSE {}

DestroyCancel ==
  /\ chk.pc = "dcancel"
  /\ cancel' = cancel \cup CancelTarget
  /\ chk' = [chk EXCEPT !.pc = "dclose"]
  /\ UNCHANGED <<pst, conn, rx, txd, tx, lock, wire, peer, sock, exited>>

\* A socket whose send timed out is given up without close().  close() is a
\* cancellation point: a check thread with a pending cancel dies before it.
DestroyClose ==
  /\ chk.pc = "dclose"
  /\ \/ pst.client = 0 \/ pst.have_again_flag = 1
     \/ "check" \notin cancel
  /\ sock' = IF pst.client = 0 \/ pst.have_again_flag = 1 THEN sock ELSE "closed"
  /\ chk' = [chk EXCEPT !.pc = "dclear"]
  /\ UNCHANGED <<pst, conn, rx, txd, tx, cancel, lock, wire, peer, exited>>

DestroyClear ==
  /\ chk.pc = "dclear"
  /\ pst' = [pst EXCEPT !.client = 0]
  /\ chk' = [chk EXCEPT !.pc = IF conn = "undo" THEN "exit" ELSE "sleep"]
  /\ UNCHANGED <<conn, rx, txd, tx, cancel, lock, wire, peer, sock, exited>>

\* pthread_cancel on itself: the check thread ends at close() or at sleep(2).
CheckCancelled ==
  /\ "check" \in cancel /\ chk.pc \in {"dclose", "sleep"}
  /\ chk' = [chk EXCEPT !.pc = "dead"]
  /\ UNCHANGED <<pst, conn, rx, txd, tx, cancel, lock, wire, peer, sock, exited>>

CheckSleep ==
  /\ chk.pc = "sleep" /\ "check" \notin cancel
  /\ chk' = [chk EXCEPT !.pc = "reset"]
  /\ UNCHANGED <<pst, conn, rx, txd, tx, cancel, lock, wire, peer, sock, exited>>

\* NM_destroy_st with BUILD_MODE_ONCE: NM_reset.  The flags of the threads, client
\* and netrecv_id stay; the buffer is reset without its lock.
NM_reset ==
  /\ chk.pc = "reset"
  /\ pst' = [pst EXCEPT !.is_alread_work = 0, !.recv_data_num = 0, !.queued = 0,
                        !.stop_work_by_user = 0, !.have_again_flag = 0]
  /\ chk' = [chk EXCEPT !.pc = "exit"]
  /\ UNCHANGED <<conn, rx, txd, tx, cancel, lock, wire, peer, sock, exited>>

\* exit(0) in the check thread; or NM_connect returns -1 and main returns.
Exit ==
  /\ chk.pc = "exit"
  /\ exited' = TRUE
  /\ UNCHANGED <<pst, conn, rx, chk, txd, tx, cancel, lock, wire, peer, sock>>

-----------------------------------------------------------------------------
(* NM_net_send_data and NM_net_send_data_direct, with                      *)
(* NM_pst_socket_send_data from "head" on.                                 *)

\* NM_net_send_data's first test.
SendBegin(s) ==
  /\ tx[s].pc = "idle" /\ pst.client = 1
  /\ tx' = [tx EXCEPT ![s].pc = "flags"]
  /\ UNCHANGED <<pst, conn, rx, chk, txd, cancel, lock, wire, peer, sock, exited>>

SendFlags(s) ==
  /\ tx[s].pc = "flags"
  /\ LET ok == pst.recv_th_flag = 1 /\ (BufMode => pst.send_th_flag = 1)
     IN tx' = [tx EXCEPT ![s].pc = IF ok THEN "lock" ELSE "idle"]
  /\ UNCHANGED <<pst, conn, rx, chk, txd, cancel, lock, wire, peer, sock, exited>>

\* Where the lock is held first.
Locked == IF BufMode THEN "put" ELSE "head"

\* Slip: the lock is taken without waiting for it.
SendNoLock(s) ==
  /\ tx[s].pc = "lock"
  /\ lock' = s
  /\ tx' = [tx EXCEPT ![s] = [pc |-> Locked, left |-> Chunks]]
  /\ UNCHANGED <<pst, conn, rx, chk, txd, cancel, wire, peer, sock, exited>>

SendLock(s) ==
  /\ tx[s].pc = "lock" /\ lock = NoSender
  /\ lock' = s
  /\ tx' = [tx EXCEPT ![s] = [pc |-> Locked, left |-> Chunks]]
  /\ UNCHANGED <<pst, conn, rx, chk, txd, cancel, wire, peer, sock, exited>>

\* BUF mode: two fifo_put calls; a message that does not fit empties the buffer.
SendPut(s) ==
  /\ tx[s].pc = "put"
  /\ pst' = [pst EXCEPT !.queued = IF @ = QueueCap THEN 0 ELSE @ + 1]
  /\ lock' = NoSender
  /\ tx' = [tx EXCEPT ![s] = [pc |-> "idle", left |-> 0]]
  /\ UNCHANGED <<conn, rx, chk, txd, cancel, wire, peer, sock, exited>>

\* pst->client is read again before every send().
SendHead(s) ==
  /\ tx[s].pc = "head"
  /\ tx' = [tx EXCEPT ![s].pc = IF pst.client = 0 THEN "fail" ELSE "call"]
  /\ UNCHANGED <<pst, conn, rx, chk, txd, cancel, lock, wire, peer, sock, exited>>

\* send() takes a piece.  After the last one the lock is released.
SendPiece(s) ==
  /\ tx[s].pc = "call" /\ sock = "open" /\ peer # "reset"
  /\ IF tx[s].left > 1
     THEN /\ tx' = [tx EXCEPT ![s] = [pc |-> "head", left |-> @.left - 1]]
          /\ wire' = s
          /\ UNCHANGED lock
     ELSE /\ tx' = [tx EXCEPT ![s] = [pc |-> "idle", left |-> 0]]
          /\ wire' = NoSender
          /\ lock' = NoSender
  /\ UNCHANGED <<pst, conn, rx, chk, txd, cancel, peer, sock, exited>>

\* SO_SNDTIMEO: the stream takes nothing.  The socket is not to be closed, the check
\* thread is told to stop the link, and the sender retries in 3 seconds, holding the lock.
SendTimeout(s) ==
  /\ tx[s].pc = "call" /\ sock = "open" /\ peer \in {"up", "stalled"}
  /\ pst' = [pst EXCEPT !.have_again_flag = 1]
  /\ tx' = [tx EXCEPT ![s].pc = "stop"]
  /\ UNCHANGED <<conn, rx, chk, txd, cancel, lock, wire, peer, sock, exited>>

SendStop(s) ==
  /\ tx[s].pc = "stop"
  /\ pst' = [pst EXCEPT !.stop_work_by_user = 1]
  /\ tx' = [tx EXCEPT ![s].pc = "again"]
  /\ UNCHANGED <<conn, rx, chk, txd, cancel, lock, wire, peer, sock, exited>>

\* Slip: the retry begins with the first piece.
SendAgainFromStart(s) ==
  /\ tx[s].pc = "again"
  /\ tx' = [tx EXCEPT ![s] = [pc |-> "head", left |-> Chunks]]
  /\ UNCHANGED <<pst, conn, rx, chk, txd, cancel, lock, wire, peer, sock, exited>>

\* It goes on where the stream took nothing.
SendAgain(s) ==
  /\ tx[s].pc = "again"
  /\ tx' = [tx EXCEPT ![s].pc = "head"]
  /\ UNCHANGED <<pst, conn, rx, chk, txd, cancel, lock, wire, peer, sock, exited>>

SendError(s) ==
  /\ tx[s].pc = "call"
  /\ sock # "open" \/ peer = "reset"
  /\ tx' = [tx EXCEPT ![s].pc = "fail"]
  /\ UNCHANGED <<pst, conn, rx, chk, txd, cancel, lock, wire, peer, sock, exited>>

\* Slip: the lock is not given back on the way out of an error.
SendFailLocked(s) ==
  /\ tx[s].pc = "fail"
  /\ pst' = [pst EXCEPT !.queued = 0]
  /\ tx' = [tx EXCEPT ![s] = [pc |-> "idle", left |-> 0]]
  /\ UNCHANGED <<conn, rx, chk, txd, cancel, lock, wire, peer, sock, exited>>

SendFail(s) ==
  /\ tx[s].pc = "fail"
  /\ pst' = [pst EXCEPT !.queued = 0]
  /\ lock' = NoSender
  /\ tx' = [tx EXCEPT ![s] = [pc |-> "idle", left |-> 0]]
  /\ UNCHANGED <<conn, rx, chk, txd, cancel, wire, peer, sock, exited>>

-----------------------------------------------------------------------------
(* NM_net_send_thread, of BUF mode: fifo_enable_get looks without the lock *)
(* and NM_get_buf takes it; a failed send ends the thread.                 *)

ThreadTest ==
  /\ txd.pc = "test"
  /\ \/ /\ pst.send_th_flag # 1
        /\ txd' = [txd EXCEPT !.pc = "out"]
     \/ /\ pst.send_th_flag = 1 /\ pst.queued > 0
        /\ txd' = [txd EXCEPT !.pc = "get"]
  /\ UNCHANGED <<pst, conn, rx, chk, tx, cancel, lock, wire, peer, sock, exited>>

\* The buffer may have been emptied since: NM_get_buf fails, the thread loops.
\* pst->client is read once per message.
ThreadGet ==
  /\ txd.pc = "get" /\ lock = NoSender
  /\ \/ /\ pst.queued = 0
        /\ txd' = [txd EXCEPT !.pc = "test"]
        /\ UNCHANGED pst
     \/ /\ pst.queued > 0
        /\ pst' = [pst EXCEPT !.queued = @ - 1]
        /\ txd' = IF pst.client = 0 THEN [txd EXCEPT !.pc = "out"]
                                    ELSE [pc |-> "send", left |-> Chunks]
  /\ UNCHANGED <<conn, rx, chk, tx, cancel, lock, wire, peer, sock, exited>>

ThreadPiece ==
  /\ txd.pc = "send" /\ sock = "open" /\ peer # "reset"
  /\ txd' = IF txd.left > 1 THEN [txd EXCEPT !.left = @ - 1]
                            ELSE [pc |-> "test", left |-> 0]
  /\ UNCHANGED <<pst, conn, rx, chk, tx, cancel, lock, wire, peer, sock, exited>>

\* A timeout is an error like the others here (line 301).
ThreadError ==
  /\ txd.pc = "send"
  /\ txd' = [pc |-> "out", left |-> 0]
  /\ UNCHANGED <<pst, conn, rx, chk, tx, cancel, lock, wire, peer, sock, exited>>

ThreadOut ==
  /\ txd.pc = "out"
  /\ txd' = [txd EXCEPT !.pc = "done"]
  /\ pst' = [pst EXCEPT !.send_th_flag = -1]
  /\ UNCHANGED <<conn, rx, chk, tx, cancel, lock, wire, peer, sock, exited>>

-----------------------------------------------------------------------------
(* The camera's end (external): it stops reading and writing, resumes,     *)
(* closes in order, or the connection breaks.                              *)

PeerStep ==
  /\ conn # "start" /\ peer # "reset"
  /\ \/ peer = "up" /\ peer' \in {"stalled", "closed", "reset"}
     \/ peer = "stalled" /\ peer' \in {"up", "closed", "reset"}
     \/ peer = "closed" /\ peer' = "reset"
  /\ UNCHANGED <<pst, conn, rx, chk, txd, tx, cancel, lock, wire, sock, exited>>

-----------------------------------------------------------------------------

Connecting == Connect \/ CreateSendThread \/ CreateRecvThread \/ CreateCheckThread

Receiving == RecvTest \/ RecvSelect \/ RecvPiece \/ RecvTimeout \/ RecvEof \/ RecvFail
             \/ RecvEnd \/ RecvCancelled

NM_destroy_work_thread ==
  \/ DestroySend \/ DestroySendFlag \/ DestroySendWait
  \/ DestroyRecv \/ DestroyRecvFlag \/ DestroyRecvWait \/ DestroyCancel
  \/ DestroyClose \/ DestroyClear

Checking == CheckTick \/ CheckLeaves \/ UndoStarts \/ NM_destroy_work_thread
            \/ CheckCancelled \/ CheckSleep \/ NM_reset \/ Exit

NM_net_send_data(s) ==
  \/ SendFlags(s) \/ SendLock(s) \/ SendPut(s) \/ SendHead(s) \/ SendPiece(s)
  \/ SendTimeout(s) \/ SendStop(s) \/ SendAgain(s) \/ SendError(s) \/ SendFail(s)

NM_net_send_thread ==
  ThreadTest \/ ThreadGet \/ ThreadPiece \/ ThreadError \/ ThreadOut

Step ==
  \/ Connecting \/ Receiving \/ Checking \/ NM_net_send_thread \/ PeerStep
  \/ \E s \in Senders : SendBegin(s) \/ NM_net_send_data(s)

\* exit() ends every thread.  A link without a check thread is left as it is.
Next == \/ ~exited /\ Step
        \/ (exited \/ chk.pc = "dead") /\ UNCHANGED vars

\* Every thread runs; nothing is assumed of the camera, nor that anyone sends.
Fairness ==
  /\ WF_vars(~exited /\ Connecting)
  /\ WF_vars(~exited /\ Receiving)
  /\ WF_vars(~exited /\ Checking)
  /\ WF_vars(~exited /\ NM_net_send_thread)
  /\ \A s \in Senders : WF_vars(~exited /\ NM_net_send_data(s))

Spec == Init /\ [][Next]_vars

FairSpec == Spec /\ Fairness

-----------------------------------------------------------------------------
(* Properties.                                                             *)

\* A message of several send() calls goes out in one piece: a thread about to
\* send either continues its own incomplete message or finds none incomplete,
\* even when a sender gave up in the middle because the link was torn down
\* around it (NM_net_send_data_direct, NM_destroy_work_thread).
FramesNeverInterleave ==
  \A s \in Senders :
    tx[s].pc = "call" /\ sock = "open" /\ peer # "reset"
      => wire = IF tx[s].left < Chunks THEN s ELSE NoSender

\* No thread waits for a lock that nobody will give back: its holder is still on its way
\* through NM_net_send_data, whichever of its sends failed or timed out.
LockHasHolder ==
  lock # NoSender => tx[lock].pc \in Holding

\* Nothing goes out any more: the connection is gone, or a message was given up.
Over ==
  \/ sock # "open" \/ peer = "reset"
  \/ wire # NoSender /\ tx[wire].left \notin 1..(Chunks - 1)

StreamIs == IF sock = "none" THEN "unmade" ELSE IF Over THEN "over" ELSE "open"

Sent == IF Over \/ wire = NoSender THEN 0 ELSE Chunks - tx[wire].left

Stream == INSTANCE MessageStream WITH stream <- StreamIs, owner <- wire, sent <- Sent

\* DIRECT mode: what NM_net_send_data_direct and NM_pst_socket_send_data put on the
\* stream are whole messages, and behind one that a sender gave up comes nothing, even
\* from senders that were waiting for the lock.  A retry neither repeats nor skips.
ImplementsStream == Stream!Spec

\* A sender that ran into SO_SNDTIMEO gets the process to end, whatever the receive
\* thread and the other senders do (stop_work_by_user spares pthread_cancel).
StopFlagEndsProcess ==
  pst.stop_work_by_user = 1 /\ chk.pc = "loop" ~> exited

\* The process ends once the receive thread has ended: its flag makes the check
\* thread leave, and nothing is left to wait for or to cancel.
ReaderEndEndsProcess ==
  rx.pc = "done" /\ chk.pc = "loop" ~> exited

\* A camera that stays silent is noticed: from some point on no new message is
\* accepted by NM_net_send_data, or the process has ended.
LostPeerIsNoticed ==
  <>[](conn = "up" /\ peer # "up") => <>[](pst.recv_th_flag # 1 \/ exited)

\* BUF mode: when the send thread ends the receive thread is told to stop too.
SendThreadEndStopsReader ==
  txd.pc = "done" /\ chk.pc = "loop" ~> pst.recv_th_flag # 1 \/ exited

\* What NetModule.c:861 prints, "tcp socket disconnect, app out": the check thread
\* that has begun to take the link down ends the process.
CheckThreadEndsProcess ==
  chk.pc = "drecv" ~> exited
=============================================================================
