--------------------------- MODULE NetLinkProofs ---------------------------
(* What NetLink guarantees for any number of senders and any limits: its   *)
(* types, that two messages are never interleaved on the stream, and that  *)
(* it implements MessageStream.                                            *)
EXTENDS NetLink, TLAPS

(* The types.                                                              *)

LEMMA TypeInit == Init => TypeOK
  <1> SUFFICES ASSUME Init PROVE TypeOK
    OBVIOUS
  <1>1. pst \in NET_MODULE_ST
    BY LinkAssumption DEF LinkAssumption, Init, NM_ini_st, NET_MODULE_ST, Workers
  <1>2. rx \in Receiver /\ chk \in Checker
    BY LinkAssumption DEF LinkAssumption, Init, Receiver, Checker
  <1>3. exited \in BOOLEAN
    BY Zenon DEF Init
  <1> QED
    BY <1>1, <1>2, <1>3, LinkAssumption DEF LinkAssumption, Init, TypeOK, Sender, Workers

LEMMA TypeStep == TypeOK /\ [Next]_vars => TypeOK'
  <1> SUFFICES ASSUME TypeOK, [Next]_vars PROVE TypeOK'
    OBVIOUS
  <1> USE LinkAssumption DEF LinkAssumption, TypeOK, NET_MODULE_ST, Receiver, Checker,
      Sender, Holding
  <1>1. CASE Connect
    <2>1. exited' \in BOOLEAN
      BY <1>1, Zenon DEF Connect, TypeOK
    <2>2. pst' \in NET_MODULE_ST
      BY <1>1 DEF Connect
    <2> QED
      BY <1>1, <2>1, <2>2 DEF Connect
  <1>2. CASE CreateSendThread
    BY <1>2 DEF CreateSendThread
  <1>3. CASE CreateRecvThread
    <2> DEFINE a == [pst EXCEPT !.recv_th_flag = 1]
               b == [a EXCEPT !.netrecv_id = "recv"]
    <2>1. a \in NET_MODULE_ST
      OBVIOUS
    <2>2. pst' \in {b, [b EXCEPT !.is_alread_work = 1], [pst EXCEPT !.recv_th_flag = 0]}
      BY <1>3 DEF CreateRecvThread
    <2> HIDE DEF a
    <2>3. b \in NET_MODULE_ST
      BY <2>1 DEF Workers
    <2> HIDE DEF b
    <2>4. pst' \in NET_MODULE_ST
      BY <2>2, <2>3
    <2> QED
      BY <1>3, <2>4 DEF CreateRecvThread
  <1>4. CASE CreateCheckThread
    BY <1>4 DEF CreateCheckThread, Workers
  <1>5. CASE RecvTest
    BY <1>5 DEF RecvTest
  <1>6. CASE RecvSelect
    BY <1>6 DEF RecvSelect, RxAt
  <1>7. CASE RecvPiece
    BY <1>7 DEF RecvPiece, RxAt, Count
  <1>8. CASE RecvTimeout
    BY <1>8 DEF RecvTimeout
  <1>9. CASE RecvEof
    BY <1>9 DEF RecvEof, RxAt
  <1>10. CASE RecvFail
    BY <1>10 DEF RecvFail, RxAt
  <1>11. CASE RecvEnd
    BY <1>11 DEF RecvEnd
  <1>12. CASE RecvCancelled
    BY <1>12 DEF RecvCancelled, RxAt
  <1>13. CASE CheckTick
    BY <1>13 DEF CheckTick, Watching
  <1>14. CASE CheckLeaves
    BY <1>14 DEF CheckLeaves, Watching
  <1>15. CASE UndoStarts
    BY <1>15 DEF UndoStarts
  <1>16. CASE DestroySend
    BY <1>16 DEF DestroySend
  <1>17. CASE DestroySendWait
    BY <1>17 DEF DestroySendWait, ChkAt
  <1>18. CASE DestroyRecv
    BY <1>18 DEF DestroyRecv
  <1>19. CASE DestroyRecvWait
    BY <1>19 DEF DestroyRecvWait, ChkAt
  <1>20. CASE DestroyClose
    BY <1>20 DEF DestroyClose
  <1>21. CASE DestroyClear
    BY <1>21 DEF DestroyClear
  <1>22. CASE CheckCancelled
    BY <1>22 DEF CheckCancelled
  <1>23. CASE CheckSleep
    BY <1>23 DEF CheckSleep
  <1>24. CASE NM_reset
    <2> DEFINE a == [pst EXCEPT !.is_alread_work = 0]
               b == [a EXCEPT !.recv_data_num = 0]
               c == [b EXCEPT !.queued = 0]
               d == [c EXCEPT !.stop_work_by_user = 0]
    <2>1. a \in NET_MODULE_ST
      OBVIOUS
    <2>2. pst' = [d EXCEPT !.have_again_flag = 0]
      BY <1>24 DEF NM_reset
    <2> HIDE DEF a
    <2>3. b \in NET_MODULE_ST
      BY <2>1
    <2> HIDE DEF b
    <2>4. c \in NET_MODULE_ST
      BY <2>3
    <2> HIDE DEF c
    <2>5. d \in NET_MODULE_ST
      BY <2>4
    <2> HIDE DEF d
    <2>6. pst' \in NET_MODULE_ST
      BY <2>2, <2>5
    <2> QED
      BY <1>24, <2>6 DEF NM_reset
  <1>25. CASE Exit
    BY <1>25 DEF Exit
  <1>26. CASE ThreadTest
    BY <1>26 DEF ThreadTest
  <1>27. CASE ThreadGet
    BY <1>27 DEF ThreadGet
  <1>28. CASE ThreadPiece
    BY <1>28 DEF ThreadPiece
  <1>29. CASE ThreadError
    BY <1>29 DEF ThreadError
  <1>30. CASE ThreadOut
    <2>1. pst' \in NET_MODULE_ST
      BY <1>30 DEF ThreadOut
    <2> QED
      BY <1>30, <2>1 DEF ThreadOut
  <1>31. CASE PeerStep
    BY <1>31 DEF PeerStep
  <1>32. ASSUME NEW s \in Senders, SendBegin(s) PROVE TypeOK'
    BY <1>32 DEF SendBegin
  <1>33. ASSUME NEW s \in Senders, SendFlags(s) PROVE TypeOK'
    BY <1>33 DEF SendFlags
  <1>34. ASSUME NEW s \in Senders, SendLock(s) PROVE TypeOK'
    BY <1>34 DEF SendLock, Locked
  <1>35. ASSUME NEW s \in Senders, SendPut(s) PROVE TypeOK'
    <2>1. pst' \in NET_MODULE_ST
      BY <1>35 DEF SendPut
    <2> QED
      BY <1>35, <2>1 DEF SendPut
  <1>36. ASSUME NEW s \in Senders, SendHead(s) PROVE TypeOK'
    BY <1>36 DEF SendHead
  <1>37. ASSUME NEW s \in Senders, SendPiece(s) PROVE TypeOK'
    BY <1>37 DEF SendPiece
  <1>38. ASSUME NEW s \in Senders, SendTimeout(s) PROVE TypeOK'
    BY <1>38 DEF SendTimeout
  <1>39. ASSUME NEW s \in Senders, SendAgain(s) PROVE TypeOK'
    BY <1>39 DEF SendAgain
  <1>40. ASSUME NEW s \in Senders, SendError(s) PROVE TypeOK'
    BY <1>40 DEF SendError
  <1>41. ASSUME NEW s \in Senders, SendFail(s) PROVE TypeOK'
    BY <1>41 DEF SendFail
  <1>42. CASE UNCHANGED vars
    BY <1>42 DEF vars
  <1>43. CASE DestroySendFlag
    BY <1>43 DEF DestroySendFlag, ChkAt
  <1>44. CASE DestroyRecvFlag
    BY <1>44 DEF DestroyRecvFlag, ChkAt
  <1>45. CASE DestroyCancel
    BY <1>45 DEF DestroyCancel, CancelTarget, Workers
  <1>46. ASSUME NEW s \in Senders, SendStop(s) PROVE TypeOK'
    BY <1>46 DEF SendStop
  <1> QED
    BY <1>1, <1>2, <1>3, <1>4, <1>5, <1>6, <1>7, <1>8, <1>9, <1>10, <1>11,
       <1>12, <1>13, <1>14, <1>15, <1>16, <1>17, <1>18, <1>19, <1>20, <1>21,
       <1>22, <1>23, <1>24, <1>25, <1>26, <1>27, <1>28, <1>29, <1>30, <1>31,
       <1>32, <1>33, <1>34, <1>35, <1>36, <1>37, <1>38, <1>39, <1>40, <1>41,
       <1>42, <1>43, <1>44, <1>45, <1>46
    DEF Next, Step, Connecting, Receiving, Checking, NM_destroy_work_thread,
        NM_net_send_thread, NM_net_send_data

\* Every field of NET_MODULE_ST, the counters that wrap and the queue that is reset
\* when full included, stays in its range.
THEOREM TypeCorrect == Spec => []TypeOK
  BY TypeInit, TypeStep, PTL DEF Spec

-----------------------------------------------------------------------------
(* No interleaving.  Mutual exclusion alone does not give it: a sender may *)
(* leave its message incomplete and release the lock.  It only does so     *)
(* once the socket is of no use to anybody (Broken), which stays so.       *)

Gone == sock # "open" \/ peer = "reset"

Broken == pst.client = 0 \/ Gone

\* s is in the middle of a message.
Midway(s) == tx[s].pc \in Holding \ {"put"} /\ tx[s].left < Chunks

LockInv == \A s \in Senders : tx[s].pc \in Holding => lock = s

MidwayInv == \A s \in Senders : Midway(s) => wire = s

AbandonedInv == wire # NoSender => Midway(wire) \/ Broken

FailInv == \A s \in Senders : tx[s].pc = "fail" => Broken

StartInv == conn = "start" => pst.client = 0 /\ wire = NoSender
                              /\ \A s \in Senders : tx[s].pc = "idle"

FrameInv == LockInv /\ MidwayInv /\ AbandonedInv /\ FailInv /\ StartInv
            /\ FramesNeverInterleave

LEMMA FrameInit == Init => FrameInv
  BY LinkAssumption DEF Init, NM_ini_st, FrameInv, LockInv, MidwayInv, AbandonedInv,
     FailInv, StartInv, FramesNeverInterleave, Holding, Midway

\* A step that leaves the senders, the lock and the stream alone and repairs nothing.
LEMMA Quiet ==
  ASSUME FrameInv, UNCHANGED <<tx, lock, wire>>, conn' = "start" => conn = "start",
         pst'.client = pst.client \/ pst'.client = 0,
         sock' = "open" => sock = "open", peer = "reset" => peer' = "reset"
  PROVE  FrameInv'
  BY DEF FrameInv, LockInv, MidwayInv, AbandonedInv, FailInv, StartInv,
     FramesNeverInterleave, Holding, Midway, Broken, Gone

LEMMA FrameStep == TypeOK /\ FrameInv /\ [Next]_vars => FrameInv'
  <1> SUFFICES ASSUME TypeOK, FrameInv, [Next]_vars PROVE FrameInv'
    OBVIOUS
  <1>1. CASE Connect
    BY <1>1 DEF Connect, FrameInv, LockInv, MidwayInv, AbandonedInv, FailInv,
       StartInv, FramesNeverInterleave, Holding, Midway, Broken, Gone, TypeOK
  <1>2. CASE CreateSendThread
    BY <1>2, Quiet DEF CreateSendThread, TypeOK, NET_MODULE_ST
  <1>3. CASE CreateRecvThread
    BY <1>3, Quiet DEF CreateRecvThread, TypeOK, NET_MODULE_ST
  <1>4. CASE CreateCheckThread
    BY <1>4, Quiet DEF CreateCheckThread, TypeOK, NET_MODULE_ST
  <1>5. CASE RecvTest
    BY <1>5, Quiet DEF RecvTest, TypeOK, NET_MODULE_ST
  <1>6. CASE RecvSelect
    BY <1>6, Quiet DEF RecvSelect, TypeOK, NET_MODULE_ST
  <1>7. CASE RecvPiece
    BY <1>7, Quiet DEF RecvPiece, TypeOK, NET_MODULE_ST
  <1>8. CASE RecvTimeout
    BY <1>8, Quiet DEF RecvTimeout, TypeOK, NET_MODULE_ST
  <1>9. CASE RecvEof
    BY <1>9, Quiet DEF RecvEof, TypeOK, NET_MODULE_ST
  <1>10. CASE RecvFail
    BY <1>10, Quiet DEF RecvFail, TypeOK, NET_MODULE_ST
  <1>11. CASE RecvEnd
    BY <1>11, Quiet DEF RecvEnd, TypeOK, NET_MODULE_ST
  <1>12. CASE RecvCancelled
    BY <1>12, Quiet DEF RecvCancelled, TypeOK, NET_MODULE_ST
  <1>13. CASE CheckTick
    BY <1>13, Quiet DEF CheckTick, TypeOK, NET_MODULE_ST
  <1>14. CASE CheckLeaves
    BY <1>14, Quiet DEF CheckLeaves, TypeOK, NET_MODULE_ST
  <1>15. CASE UndoStarts
    BY <1>15, Quiet DEF UndoStarts, TypeOK, NET_MODULE_ST
  <1>16. CASE DestroySend
    BY <1>16, Quiet DEF DestroySend, TypeOK, NET_MODULE_ST
  <1>17. CASE DestroySendWait
    BY <1>17, Quiet DEF DestroySendWait, TypeOK, NET_MODULE_ST
  <1>18. CASE DestroyRecv
    BY <1>18, Quiet DEF DestroyRecv, TypeOK, NET_MODULE_ST
  <1>19. CASE DestroyRecvWait
    BY <1>19, Quiet DEF DestroyRecvWait, TypeOK, NET_MODULE_ST
  <1>20. CASE DestroyClose
    BY <1>20, Quiet DEF DestroyClose, TypeOK, NET_MODULE_ST
  <1>21. CASE DestroyClear
    BY <1>21, Quiet DEF DestroyClear, TypeOK, NET_MODULE_ST
  <1>22. CASE CheckCancelled
    BY <1>22, Quiet DEF CheckCancelled, TypeOK, NET_MODULE_ST
  <1>23. CASE CheckSleep
    BY <1>23, Quiet DEF CheckSleep, TypeOK, NET_MODULE_ST
  <1>24. CASE NM_reset
    BY <1>24, Quiet DEF NM_reset, TypeOK, NET_MODULE_ST
  <1>25. CASE Exit
    BY <1>25, Quiet DEF Exit, TypeOK, NET_MODULE_ST
  <1>26. CASE ThreadTest
    BY <1>26, Quiet DEF ThreadTest, TypeOK, NET_MODULE_ST
  <1>27. CASE ThreadGet
    BY <1>27, Quiet DEF ThreadGet, TypeOK, NET_MODULE_ST
  <1>28. CASE ThreadPiece
    BY <1>28, Quiet DEF ThreadPiece, TypeOK, NET_MODULE_ST
  <1>29. CASE ThreadError
    BY <1>29, Quiet DEF ThreadError, TypeOK, NET_MODULE_ST
  <1>30. CASE ThreadOut
    BY <1>30, Quiet DEF ThreadOut, TypeOK, NET_MODULE_ST
  <1>31. CASE PeerStep
    BY <1>31, Quiet DEF PeerStep, TypeOK, NET_MODULE_ST
  <1>32. ASSUME NEW s \in Senders, SendBegin(s) PROVE FrameInv'
    BY <1>32, LinkAssumption
    DEF SendBegin, TypeOK, Sender, FrameInv, LockInv, MidwayInv, AbandonedInv,
        FailInv, StartInv, FramesNeverInterleave, Holding, Midway, Broken, Gone
  <1>33. ASSUME NEW s \in Senders, SendFlags(s) PROVE FrameInv'
    BY <1>33, LinkAssumption
    DEF SendFlags, TypeOK, Sender, FrameInv, LockInv, MidwayInv, AbandonedInv,
        FailInv, StartInv, FramesNeverInterleave, Holding, Midway, Broken, Gone
  <1>34. ASSUME NEW s \in Senders, SendLock(s) PROVE FrameInv'
    BY <1>34, LinkAssumption
    DEF SendLock, Locked, TypeOK, Sender, FrameInv, LockInv, MidwayInv, AbandonedInv,
        FailInv, StartInv, FramesNeverInterleave, Holding, Midway, Broken, Gone
  <1>35. ASSUME NEW s \in Senders, SendPut(s) PROVE FrameInv'
    BY <1>35, LinkAssumption
    DEF SendPut, TypeOK, Sender, FrameInv, LockInv, MidwayInv, AbandonedInv,
        FailInv, StartInv, FramesNeverInterleave, Holding, Midway, Broken, Gone
  <1>36. ASSUME NEW s \in Senders, SendHead(s) PROVE FrameInv'
    BY <1>36, LinkAssumption
    DEF SendHead, TypeOK, Sender, FrameInv, LockInv, MidwayInv, AbandonedInv,
        FailInv, StartInv, FramesNeverInterleave, Holding, Midway, Broken, Gone
  <1>37. ASSUME NEW s \in Senders, SendPiece(s) PROVE FrameInv'
    BY <1>37, LinkAssumption
    DEF SendPiece, TypeOK, Sender, FrameInv, LockInv, MidwayInv, AbandonedInv,
        FailInv, StartInv, FramesNeverInterleave, Holding, Midway, Broken, Gone
  <1>38. ASSUME NEW s \in Senders, SendTimeout(s) PROVE FrameInv'
    BY <1>38, LinkAssumption
    DEF SendTimeout, TypeOK, Sender, FrameInv, LockInv, MidwayInv, AbandonedInv,
        FailInv, StartInv, FramesNeverInterleave, Holding, Midway, Broken, Gone
  <1>39. ASSUME NEW s \in Senders, SendAgain(s) PROVE FrameInv'
    BY <1>39, LinkAssumption
    DEF SendAgain, TypeOK, Sender, FrameInv, LockInv, MidwayInv, AbandonedInv,
        FailInv, StartInv, FramesNeverInterleave, Holding, Midway, Broken, Gone
  <1>40. ASSUME NEW s \in Senders, SendError(s) PROVE FrameInv'
    BY <1>40, LinkAssumption
    DEF SendError, TypeOK, Sender, FrameInv, LockInv, MidwayInv, AbandonedInv,
        FailInv, StartInv, FramesNeverInterleave, Holding, Midway, Broken, Gone
  <1>41. ASSUME NEW s \in Senders, SendFail(s) PROVE FrameInv'
    BY <1>41, LinkAssumption
    DEF SendFail, TypeOK, Sender, FrameInv, LockInv, MidwayInv, AbandonedInv,
        FailInv, StartInv, FramesNeverInterleave, Holding, Midway, Broken, Gone
  <1>42. CASE UNCHANGED vars
    BY <1>42, Quiet DEF vars
  <1>43. CASE DestroySendFlag
    BY <1>43, Quiet DEF DestroySendFlag, TypeOK, NET_MODULE_ST
  <1>44. CASE DestroyRecvFlag
    BY <1>44, Quiet DEF DestroyRecvFlag, TypeOK, NET_MODULE_ST
  <1>45. CASE DestroyCancel
    BY <1>45, Quiet DEF DestroyCancel, TypeOK, NET_MODULE_ST
  <1>46. ASSUME NEW s \in Senders, SendStop(s) PROVE FrameInv'
    BY <1>46, LinkAssumption
    DEF SendStop, TypeOK, Sender, FrameInv, LockInv, MidwayInv, AbandonedInv,
        FailInv, StartInv, FramesNeverInterleave, Holding, Midway, Broken, Gone
  <1> QED
    BY <1>1, <1>2, <1>3, <1>4, <1>5, <1>6, <1>7, <1>8, <1>9, <1>10, <1>11,
       <1>12, <1>13, <1>14, <1>15, <1>16, <1>17, <1>18, <1>19, <1>20, <1>21,
       <1>22, <1>23, <1>24, <1>25, <1>26, <1>27, <1>28, <1>29, <1>30, <1>31,
       <1>32, <1>33, <1>34, <1>35, <1>36, <1>37, <1>38, <1>39, <1>40, <1>41,
       <1>42, <1>43, <1>44, <1>45, <1>46
    DEF Next, Step, Connecting, Receiving, Checking, NM_destroy_work_thread,
        NM_net_send_thread, NM_net_send_data

\* For any number of senders, messages of any length and any timeouts, a thread about
\* to send continues its own incomplete message or finds none incomplete.
THEOREM NoInterleaving == Spec => []FramesNeverInterleave
  <1>1. Init => TypeOK /\ FrameInv
    BY TypeInit, FrameInit
  <1>2. TypeOK /\ FrameInv /\ [Next]_vars => TypeOK' /\ FrameInv'
    BY TypeStep, FrameStep
  <1>3. FrameInv => FramesNeverInterleave
    BY DEF FrameInv
  <1> QED
    BY <1>1, <1>2, <1>3, PTL DEF Spec

-----------------------------------------------------------------------------
(* The refinement of MessageStream.  The pieces left to send tell how far  *)
(* a message is (LeftInv), a link that has no socket yet is as NM_ini_st   *)
(* left it (UnmadeInv), and FrameInv says whose the message is.            *)

LeftInv ==
  \A s \in Senders : /\ tx[s].pc \in {"idle", "flags", "lock"} => tx[s].left = 0
                     /\ tx[s].pc = "put" => tx[s].left = Chunks
                     /\ tx[s].pc \in Holding \ {"put"} => tx[s].left \in 1..Chunks

UnmadeInv ==
  /\ sock = "none" <=> conn = "start"
  /\ conn = "start" => peer = "up" /\ chk.pc = "none"

StreamInv == LeftInv /\ UnmadeInv

LEMMA StreamInit == Init => StreamInv /\ Stream!Init
  BY LinkAssumption
  DEF LinkAssumption, Init, StreamInv, LeftInv, UnmadeInv, Holding, Stream!Init, StreamIs,
      Over, Sent

\* The steps that concern neither the senders nor the connection.
Elsewhere ==
  \/ CreateSendThread \/ CreateRecvThread \/ CreateCheckThread \/ Receiving
  \/ CheckTick \/ CheckLeaves \/ UndoStarts
  \/ DestroySend \/ DestroySendFlag \/ DestroySendWait
  \/ DestroyRecv \/ DestroyRecvFlag \/ DestroyRecvWait \/ DestroyCancel \/ DestroyClear
  \/ CheckCancelled \/ CheckSleep \/ NM_reset \/ Exit \/ NM_net_send_thread

LEMMA ElsewhereFrame ==
  ASSUME Elsewhere
  PROVE  /\ UNCHANGED <<tx, lock, wire, peer, sock>>
         /\ conn' = conn \/ (conn # "start" /\ conn' # "start")
         /\ chk' = chk \/ conn # "start" \/ chk.pc # "none"
  <1>1. CASE CreateSendThread \/ CreateRecvThread \/ CreateCheckThread
    BY <1>1 DEF CreateSendThread, CreateRecvThread, CreateCheckThread
  <1>2. CASE Receiving
    BY <1>2 DEF Receiving, RecvTest, RecvSelect, RecvPiece, RecvTimeout, RecvEof, RecvFail,
       RecvEnd, RecvCancelled
  <1>3. CASE CheckTick \/ CheckLeaves \/ UndoStarts
    BY <1>3 DEF CheckTick, CheckLeaves, UndoStarts
  <1>4. CASE \/ DestroySend \/ DestroySendFlag \/ DestroySendWait \/ DestroyRecv
             \/ DestroyRecvFlag \/ DestroyRecvWait \/ DestroyCancel \/ DestroyClear
    BY <1>4 DEF DestroySend, DestroySendFlag, DestroySendWait, DestroyRecv, DestroyRecvFlag,
       DestroyRecvWait, DestroyCancel, DestroyClear
  <1>5. CASE CheckCancelled \/ CheckSleep \/ NM_reset \/ Exit
    BY <1>5 DEF CheckCancelled, CheckSleep, NM_reset, Exit
  <1>6. CASE NM_net_send_thread
    BY <1>6 DEF NM_net_send_thread, ThreadTest, ThreadGet, ThreadPiece, ThreadError,
       ThreadOut
  <1> QED
    BY <1>1, <1>2, <1>3, <1>4, <1>5, <1>6 DEF Elsewhere

LEMMA StreamStep ==
  TypeOK /\ FrameInv /\ StreamInv /\ [Next]_vars
    => StreamInv' /\ [Stream!Next]_Stream!vars
  <1> SUFFICES ASSUME TypeOK, FrameInv, StreamInv, [Next]_vars
               PROVE  StreamInv' /\ (Stream!Next \/ UNCHANGED Stream!vars)
    OBVIOUS
  <1>1. CASE Elsewhere \/ UNCHANGED vars
    <2>1. /\ UNCHANGED <<tx, wire, peer, sock>>
          /\ conn' = conn \/ (conn # "start" /\ conn' # "start")
          /\ chk' = chk \/ conn # "start" \/ chk.pc # "none"
      BY <1>1, ElsewhereFrame DEF vars
    <2> QED
      BY <2>1 DEF StreamInv, LeftInv, UnmadeInv, Stream!vars, StreamIs, Over, Sent
  <1>2. CASE Connect
    <2>1. /\ UNCHANGED <<tx, wire, peer, chk>> /\ wire = NoSender /\ sock = "none"
          /\ peer = "up"
      BY <1>2 DEF Connect, FrameInv, StartInv, StreamInv, UnmadeInv
    <2>2. \/ UNCHANGED <<sock, conn>>
          \/ sock' = "open" /\ conn' = "send"
      BY <1>2 DEF Connect
    <2>3. StreamInv'
      BY <2>1, <2>2 DEF StreamInv, LeftInv, UnmadeInv
    <2>4. CASE UNCHANGED <<sock, conn>>
      BY <2>1, <2>3, <2>4 DEF Stream!vars, StreamIs, Over, Sent
    <2>5. CASE sock' = "open"
      BY <2>1, <2>3, <2>5 DEF Stream!Next, Stream!Make, StreamIs, Over, Sent
    <2> QED
      BY <2>2, <2>4, <2>5
  <1>3. CASE DestroyClose \/ PeerStep
    <2>1. /\ UNCHANGED <<tx, wire, conn>> /\ conn # "start" /\ sock # "none"
          /\ sock' # "none"
          /\ sock' = "open" => sock = "open"
          /\ peer' # "reset" => peer # "reset"
      BY <1>3 DEF DestroyClose, PeerStep, StreamInv, UnmadeInv
    <2>2. StreamInv'
      BY <2>1 DEF StreamInv, LeftInv, UnmadeInv
    <2>3. Over => Over'
      BY <2>1 DEF Over
    <2>4. CASE Over' <=> Over
      BY <2>1, <2>2, <2>4 DEF Stream!vars, StreamIs, Sent
    <2>5. CASE ~Over /\ Over'
      BY <2>1, <2>2, <2>5 DEF Stream!Next, Stream!End, StreamIs, Sent
    <2> QED
      BY <2>3, <2>4, <2>5
  <1>4. ASSUME NEW s \in Senders,
               SendBegin(s) \/ SendFlags(s) \/ SendLock(s) \/ SendPut(s) \/ SendHead(s)
               \/ SendTimeout(s) \/ SendStop(s) \/ SendAgain(s) \/ SendError(s)
               \/ SendFail(s)
        PROVE  StreamInv' /\ (Stream!Next \/ UNCHANGED Stream!vars)
    <2>1. /\ UNCHANGED <<conn, chk, wire, peer, sock>>
          /\ \A d \in Senders \ {s} : tx'[d] = tx[d]
      BY <1>4 DEF SendBegin, SendFlags, SendLock, SendPut, SendHead, SendTimeout,
         SendStop, SendAgain, SendError, SendFail, TypeOK, Sender
    <2>2. /\ tx'[s].pc \in {"idle", "flags", "lock"} => tx'[s].left = 0
          /\ tx'[s].pc = "put" => tx'[s].left = Chunks
          /\ tx'[s].pc \in Holding \ {"put"} => tx'[s].left \in 1..Chunks
          /\ tx'[s].left \in {tx[s].left, 0, Chunks}
      BY <1>4, LinkAssumption
      DEF SendBegin, SendFlags, SendLock, Locked, SendPut, SendHead, SendTimeout, SendStop,
          SendAgain, SendError, SendFail, TypeOK, Sender, StreamInv, LeftInv, Holding,
          LinkAssumption
    <2>3. StreamInv'
      BY <2>1, <2>2 DEF StreamInv, LeftInv, UnmadeInv
    <2>4. wire # NoSender => tx'[wire].left \in {tx[wire].left, 0, Chunks}
      BY <2>1, <2>2 DEF TypeOK, Sender
    <2>5. tx[s].left \in {0, Chunks} => tx'[s].left \in {0, Chunks}
      BY <2>2
    <2>6. Over => Over'
      BY <2>1, <2>4, LinkAssumption DEF Over, LinkAssumption
    <2>7. CASE Over \/ ~Over'
      <3>1. Over' <=> Over
        BY <2>6, <2>7
      <3>2. ~Over' /\ wire # NoSender => tx'[wire].left = tx[wire].left
        BY <2>1, <2>4, LinkAssumption DEF Over, LinkAssumption
      <3> QED
        BY <2>1, <2>3, <3>1, <3>2 DEF Stream!vars, StreamIs, Sent
    <2>8. CASE ~Over /\ Over'
      <3>1. sock = "open"
        BY <2>8 DEF Over
      <3> QED
        BY <2>1, <2>3, <2>8, <3>1 DEF Stream!Next, Stream!End, StreamIs, Sent
    <2> QED
      BY <2>7, <2>8
  <1>5. ASSUME NEW s \in Senders, SendPiece(s)
        PROVE  StreamInv' /\ (Stream!Next \/ UNCHANGED Stream!vars)
    <2> DEFINE n == tx[s].left
    <2>1. /\ n \in 1..Chunks /\ Chunks \in Nat /\ Chunks >= 2
          /\ sock = "open" /\ peer # "reset" /\ UNCHANGED <<conn, chk, peer, sock>>
          /\ \A d \in Senders \ {s} : tx'[d] = tx[d]
          /\ wire = IF n < Chunks THEN s ELSE NoSender
          /\ s # NoSender
      BY <1>5, LinkAssumption
      DEF LinkAssumption, SendPiece, TypeOK, Sender, FrameInv, FramesNeverInterleave,
          StreamInv, LeftInv, Holding
    <2>2. StreamIs = "open" /\ Sent = Chunks - n
      BY <2>1 DEF StreamIs, Over, Sent
    <2>3. CASE n > 1
      <3>1. tx'[s] = [pc |-> "head", left |-> n - 1] /\ wire' = s
        BY <1>5, <2>3 DEF SendPiece, TypeOK, Sender
      <3>2. StreamInv'
        BY <2>1, <2>3, <3>1 DEF StreamInv, LeftInv, UnmadeInv, Holding
      <3>3. StreamIs' = "open" /\ Sent' = Chunks - (n - 1)
        BY <2>1, <2>3, <3>1 DEF StreamIs, Over, Sent
      <3>4. Stream!Piece(s)
        BY <2>1, <2>2, <2>3, <3>1, <3>3 DEF Stream!Piece
      <3> QED
        BY <3>2, <3>4 DEF Stream!Next
    <2>4. CASE n = 1
      <3>1. tx'[s] = [pc |-> "idle", left |-> 0] /\ wire' = NoSender
        BY <1>5, <2>4 DEF SendPiece, TypeOK, Sender
      <3>2. StreamInv'
        BY <2>1, <3>1 DEF StreamInv, LeftInv, UnmadeInv, Holding
      <3>3. StreamIs' = "open" /\ Sent' = 0
        BY <2>1, <3>1 DEF StreamIs, Over, Sent
      <3>4. Stream!LastPiece(s)
        BY <2>1, <2>2, <2>4, <3>1, <3>3 DEF Stream!LastPiece
      <3> QED
        BY <3>2, <3>4 DEF Stream!Next
    <2> QED
      BY <2>1, <2>3, <2>4
  <1> QED
    BY <1>1, <1>2, <1>3, <1>4, <1>5
    DEF Next, Step, Elsewhere, Connecting, Checking, NM_destroy_work_thread,
        NM_net_send_data

\* Any number of senders put whole messages of any length on the stream, and the last
\* incomplete one stays the last: the link implements MessageStream.
THEOREM StreamKept == Spec => ImplementsStream
  <1>1. Init => TypeOK /\ FrameInv /\ StreamInv /\ Stream!Init
    BY TypeInit, FrameInit, StreamInit
  <1>2. TypeOK /\ FrameInv /\ StreamInv /\ [Next]_vars
          => TypeOK' /\ FrameInv' /\ StreamInv' /\ [Stream!Next]_Stream!vars
    BY TypeStep, FrameStep, StreamStep
  <1> QED
    BY <1>1, <1>2, PTL DEF Spec, ImplementsStream, Stream!Spec

-----------------------------------------------------------------------------
(* The lock and its holder.                                                *)

LEMMA HolderInit == Init => LockHasHolder
  BY DEF Init, LockHasHolder

LEMMA HolderStep == TypeOK /\ LockHasHolder /\ [Next]_vars => LockHasHolder'
  <1> SUFFICES ASSUME TypeOK, LockHasHolder, [Next]_vars PROVE LockHasHolder'
    OBVIOUS
  <1>1. CASE Elsewhere \/ DestroyClose \/ PeerStep \/ UNCHANGED vars
    <2>1. UNCHANGED <<tx, lock>>
      BY <1>1, ElsewhereFrame DEF DestroyClose, PeerStep, vars
    <2> QED
      BY <2>1 DEF LockHasHolder
  <1>2. CASE Connect
    BY <1>2 DEF Connect, LockHasHolder
  <1>3. ASSUME NEW s \in Senders, SendBegin(s) \/ NM_net_send_data(s) PROVE LockHasHolder'
    BY <1>3, LinkAssumption
    DEF LinkAssumption, SendBegin, NM_net_send_data, SendFlags, SendLock, Locked, SendPut,
        SendHead, SendPiece, SendTimeout, SendStop, SendAgain, SendError, SendFail, TypeOK,
        Sender, Holding, LockHasHolder
  <1> QED
    BY <1>1, <1>2, <1>3
    DEF Next, Step, Elsewhere, Connecting, Checking, NM_destroy_work_thread

\* For any number of senders and in both modes, the lock is never left behind.
THEOREM LockIsHeld == Spec => []LockHasHolder
  <1>1. Init => TypeOK /\ LockHasHolder
    BY TypeInit, HolderInit
  <1>2. TypeOK /\ LockHasHolder /\ [Next]_vars => TypeOK' /\ LockHasHolder'
    BY TypeStep, HolderStep
  <1> QED
    BY <1>1, <1>2, PTL DEF Spec
=============================================================================
