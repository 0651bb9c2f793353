------------------------- MODULE OnvifServerProofs -------------------------
(* What OnvifServer guarantees for any limits and any message size: its    *)
(* types, that the server over its link implements ServerLife, and that    *)
(* the link under it keeps to MessageStream.                               *)
EXTENDS OnvifServer, NetLinkProofs

-----------------------------------------------------------------------------
(* What the groups of the link's steps leave alone.                        *)

LEMMA ReceivingFrame == Receiving => UNCHANGED <<conn, tx, exited>>
  BY DEF Receiving, RecvTest, RecvSelect, RecvPiece, RecvTimeout, RecvEof, RecvFail,
     RecvEnd, RecvCancelled

LEMMA CheckingFrame == Checking => UNCHANGED <<conn, tx>> /\ (exited' = exited \/ exited')
  <1> SUFFICES ASSUME Checking PROVE UNCHANGED <<conn, tx>> /\ (exited' = exited \/ exited')
    OBVIOUS
  <1>1. CASE CheckTick \/ CheckLeaves \/ UndoStarts
    BY <1>1 DEF CheckTick, CheckLeaves, UndoStarts
  <1>2. CASE NM_destroy_work_thread
    BY <1>2 DEF NM_destroy_work_thread, DestroySend, DestroySendFlag, DestroySendWait,
       DestroyRecv, DestroyRecvFlag, DestroyRecvWait, DestroyCancel, DestroyClose,
       DestroyClear
  <1>3. CASE CheckCancelled \/ CheckSleep \/ NM_reset
    BY <1>3 DEF CheckCancelled, CheckSleep, NM_reset
  <1>4. CASE Exit
    BY <1>4, Zenon DEF Exit
  <1> QED
    BY <1>1, <1>2, <1>3, <1>4 DEF Checking

LEMMA ConnectingFrame ==
  Connecting => /\ conn # "up" /\ UNCHANGED tx
                /\ \/ exited' = exited
                   \/ exited' /\ conn' # "up"
  <1> SUFFICES ASSUME Connecting
               PROVE  /\ conn # "up" /\ UNCHANGED tx
                      /\ \/ exited' = exited
                         \/ exited' /\ conn' # "up"
    OBVIOUS
  <1>1. CASE Connect
    BY <1>1, Zenon DEF Connect
  <1>2. CASE CreateSendThread \/ CreateRecvThread \/ CreateCheckThread
    BY <1>2 DEF CreateSendThread, CreateRecvThread, CreateCheckThread
  <1> QED
    BY <1>1, <1>2 DEF Connecting

LEMMA SendingFrame ==
  ASSUME NEW s \in Senders, TypeOK, NM_net_send_data(s)
  PROVE  UNCHANGED <<conn, exited>> /\ tx[s].pc # "idle"
  BY DEF TypeOK, NM_net_send_data, SendFlags, SendLock, SendPut, SendHead, SendPiece,
     SendTimeout, SendStop, SendAgain, SendError, SendFail

LEMMA PeerFrame == PeerStep => UNCHANGED <<conn, tx, exited>>
  BY DEF PeerStep

-----------------------------------------------------------------------------
(* The types.                                                              *)

Pcs == {"none", "idle", "begin", "send", "sending", "poll", "nap", "back"}

Gets == [Senders -> [pc : Pcs, count : 0..MaxPoll]]

LEMMA AskingType ==
  ASSUME get \in Gets, NEW s \in Senders, NEW p \in Pcs, NEW n \in 0..MaxPoll, Asking(s, p, n)
  PROVE  get' \in Gets /\ asked' = asked /\ serving' = serving
  BY DEF Gets, Asking, At

LEMMA STypeInit == SInit => STypeOK
  <1> SUFFICES ASSUME SInit PROVE STypeOK
    OBVIOUS
  <1>1. get \in Gets
    BY ServerAssumption DEF ServerAssumption, SInit, Gets, At, Pcs
  <1> QED
    BY <1>1, TypeInit, ServerAssumption
    DEF ServerAssumption, SInit, STypeOK, Gets, Pcs

\* An end that no step of the link is.
LEMMA ExitType ==
  ASSUME TypeOK,
         UNCHANGED <<pst, conn, rx, chk, txd, tx, cancel, lock, wire, peer, sock>>,
         exited' = TRUE
  PROVE  TypeOK'
  <1>1. exited' \in BOOLEAN
    BY Zenon
  <1> QED
    BY <1>1 DEF TypeOK

LEMMA GetType ==
  ASSUME STypeOK, NEW s \in Senders, get_ipcam_all_info(s)
  PROVE  STypeOK'
  <1> USE ServerAssumption DEF ServerAssumption
  <1>1. get \in Gets /\ get[s].count \in 0..MaxPoll /\ TypeOK /\ 0 \in 0..MaxPoll
    BY DEF STypeOK, Gets, Pcs
  <1>2. TypeOK'
    <2>1. CASE UNCHANGED vars
      BY <2>1, <1>1, TypeStep
    <2>2. CASE SendBegin(s)
      BY <2>2, <1>1 DEF SendBegin, TypeOK, Sender
    <2>3. CASE exited' = TRUE
               /\ UNCHANGED <<pst, conn, rx, chk, txd, tx, cancel, lock, wire, peer, sock>>
      BY <2>3, <1>1, ExitType
    <2> QED
      BY <2>1, <2>2, <2>3
      DEF get_ipcam_all_info, GetBegin, GetSend, GetSent, GetPoll, GetNap
  <1>3. get' \in Gets /\ asked' = asked /\ serving' = serving /\ once' \in {once, 0}
    <2>1. CASE GetBegin(s)
      <3>1. Asking(s, "send", 0) /\ once' = 0
        BY <2>1 DEF GetBegin
      <3> QED
        BY <3>1, <1>1, AskingType DEF Pcs
    <2>2. CASE GetSend(s)
      <3>1. once' = once
        BY <2>2 DEF GetSend
      <3>2. Asking(s, "sending", 0) \/ Asking(s, "poll", 0)
        BY <2>2 DEF GetSend
      <3> QED
        BY <3>1, <3>2, <1>1, AskingType DEF Pcs
    <2>3. CASE GetSent(s)
      BY <2>3, <1>1, AskingType DEF GetSent, Pcs
    <2>4. CASE GetPoll(s)
      BY <2>4, <1>1, AskingType DEF GetPoll, Pcs
    <2>5. CASE GetNap(s)
      <3>1. CASE get[s].count + 1 > MaxPoll
        BY <2>5, <3>1, <1>1 DEF GetNap
      <3>2. CASE ~(get[s].count + 1 > MaxPoll)
        <4>1. get[s].count + 1 \in 0..MaxPoll
          BY <3>2, <1>1
        <4>2. Asking(s, "poll", get[s].count + 1) /\ UNCHANGED once
          BY <2>5, <3>2 DEF GetNap
        <4> QED
          BY <4>1, <4>2, <1>1, AskingType DEF Pcs
      <3> QED
        BY <3>1, <3>2
    <2> QED
      BY <2>1, <2>2, <2>3, <2>4, <2>5 DEF get_ipcam_all_info
  <1> QED
    BY <1>2, <1>3 DEF STypeOK, Gets, Pcs

LEMMA STypeStep == STypeOK /\ [SNext]_svars => STypeOK'
  <1> SUFFICES ASSUME STypeOK, [SNext]_svars PROVE STypeOK'
    OBVIOUS
  <1> USE ServerAssumption DEF ServerAssumption
  <1>1. TypeOK
    BY DEF STypeOK
  <1>2. ASSUME ~exited, Connecting \/ Checking \/ PeerStep, Unasked PROVE STypeOK'
    <2>1. TypeOK'
      BY <1>1, <1>2, TypeStep DEF Next, Step
    <2> QED
      BY <1>2, <2>1 DEF Unasked, STypeOK
  <1>3. ASSUME ~exited, Receive PROVE STypeOK'
    <2>1. TypeOK'
      BY <1>1, <1>3, TypeStep DEF Next, Step, Receive
    <2> QED
      BY <1>3, <2>1 DEF Receive, Unasked, STypeOK
  <1>4. ASSUME ~exited, NEW s \in Senders, Send(s) PROVE STypeOK'
    <2>1. TypeOK'
      BY <1>1, <1>4, TypeStep DEF Next, Step, Send
    <2>2. asked' \in 0..MaxAsked
      BY <1>4 DEF Send, STypeOK
    <2> QED
      BY <1>4, <2>1, <2>2 DEF Send, STypeOK
  <1>5. ASSUME NEW s \in Senders, get_ipcam_all_info(s) PROVE STypeOK'
    BY <1>5, GetType
  <1>6. CASE StartServing
    <2>1. TypeOK'
      BY <1>1, <1>6, TypeStep DEF StartServing
    <2>2. get' \in Gets
      BY <1>6 DEF StartServing, Gets, Pcs, At
    <2> QED
      BY <1>6, <2>1, <2>2 DEF StartServing, STypeOK, Gets, Pcs
  <1>7. CASE ServingEnds
    <2>1. TypeOK'
      BY <1>1, <1>7, ExitType DEF ServingEnds
    <2> QED
      BY <1>7, <2>1 DEF ServingEnds, Unasked, STypeOK
  <1>8. CASE OnvifRecvMotionFunc
    <2>1. TypeOK'
      BY <1>1, <1>8, TypeStep DEF OnvifRecvMotionFunc
    <2>2. get \in Gets /\ refresh \in Senders /\ 0 \in 0..MaxPoll /\ once' = once
      BY <1>8 DEF OnvifRecvMotionFunc, STypeOK, Gets, Pcs
    <2>3. Asking(refresh, "begin", 0) \/ Asking(refresh, "idle", 0)
      BY <1>8 DEF OnvifRecvMotionFunc
    <2>4. get' \in Gets /\ asked' = asked /\ serving' = serving
      BY <2>2, <2>3, AskingType DEF Pcs
    <2> QED
      BY <2>1, <2>2, <2>4 DEF STypeOK, Gets, Pcs
  <1>9. CASE UNCHANGED svars
    BY <1>1, <1>9, TypeStep DEF svars, STypeOK
  <1> QED
    BY <1>2, <1>3, <1>4, <1>5, <1>6, <1>7, <1>8, <1>9 DEF SNext, SStep, Main

\* Every counter of the server and of its link stays in its range, whichever of the two
\* watchdogs strikes first.
THEOREM STypeCorrect == SSpec => []STypeOK
  BY STypeInit, STypeStep, PTL DEF SSpec

-----------------------------------------------------------------------------
(* The invariant: while main is about to ask its first question no message *)
(* and no answer is under way, main leaves that question with its answer,  *)
(* and the refresh thread does not exist before.                           *)

Before == serving = 0 /\ get[main].pc = "begin"

Unbegun == once = 0 /\ asked = 0 /\ \A s \in Senders : tx[s].pc = "idle"

ServerInv ==
  /\ conn # "up" => Before
  /\ serving = 0 => get[refresh].pc = "none"
  /\ Before => Unbegun
  /\ serving = 0 /\ get[main].pc = "back" => once = 1

LEMMA ServerInit == SInit => ServerInv
  BY ServerAssumption
  DEF ServerAssumption, SInit, Init, At, ServerInv, Before, Unbegun

\* A step of the link that no message comes of.
LEMMA LinkOnly ==
  ASSUME ServerInv, UNCHANGED tx, conn = "up" => conn' = "up", Unasked
  PROVE  ServerInv'
  BY DEF ServerInv, Before, Unbegun, Unasked

LEMMA ServerStep == STypeOK /\ ServerInv /\ [SNext]_svars => ServerInv'
  <1> SUFFICES ASSUME STypeOK, ServerInv, [SNext]_svars PROVE ServerInv'
    OBVIOUS
  <1> USE ServerAssumption DEF ServerAssumption
  <1>1. get \in Gets /\ TypeOK /\ main \in Senders /\ refresh \in Senders
    BY DEF STypeOK, Gets, Pcs
  <1>2. ASSUME Connecting \/ Checking \/ PeerStep, Unasked PROVE ServerInv'
    BY <1>2, ConnectingFrame, CheckingFrame, PeerFrame, LinkOnly
  <1>3. CASE Receive
    <2>1. UNCHANGED <<conn, tx>> /\ get' = get /\ serving' = serving
      BY <1>3, ReceivingFrame DEF Receive, Unasked
    <2>2. asked \in Nat
      BY DEF STypeOK
    <2>3. \/ once' = once /\ asked' = asked
          \/ once' = 1 /\ asked # 0
      BY <1>3, <2>2 DEF Receive, Unasked
    <2> QED
      BY <2>1, <2>3 DEF ServerInv, Before, Unbegun
  <1>4. ASSUME NEW s \in Senders, Send(s) PROVE ServerInv'
    <2>1. UNCHANGED <<conn, get, once, serving>> /\ tx[s].pc # "idle"
      BY <1>1, <1>4, SendingFrame DEF Send
    <2> QED
      BY <2>1 DEF ServerInv, Before, Unbegun
  <1>5. ASSUME NEW s \in Senders, GetBegin(s) PROVE ServerInv'
    BY <1>1, <1>5 DEF GetBegin, Asking, At, vars, Gets, ServerInv, Before, Unbegun
  <1>6. ASSUME NEW s \in Senders, GetSend(s) PROVE ServerInv'
    BY <1>1, <1>6 DEF GetSend, SendBegin, Asking, At, vars, Gets, ServerInv, Before, Unbegun
  <1>7. ASSUME NEW s \in Senders, GetSent(s) PROVE ServerInv'
    BY <1>1, <1>7 DEF GetSent, Asking, At, vars, Gets, ServerInv, Before, Unbegun
  <1>8. ASSUME NEW s \in Senders, GetPoll(s) PROVE ServerInv'
    BY <1>1, <1>8 DEF GetPoll, Asking, At, vars, Gets, ServerInv, Before, Unbegun, STypeOK
  <1>9. ASSUME NEW s \in Senders, GetNap(s) PROVE ServerInv'
    BY <1>1, <1>9 DEF GetNap, Asking, At, vars, Gets, ServerInv, Before, Unbegun
  <1>10. CASE StartServing
    BY <1>1, <1>10 DEF StartServing, At, vars, ServerInv, Before, Unbegun
  <1>11. CASE ServingEnds
    BY <1>11, LinkOnly DEF ServingEnds
  <1>12. CASE OnvifRecvMotionFunc
    BY <1>1, <1>12
    DEF OnvifRecvMotionFunc, Asking, At, vars, Gets, ServerInv, Before, Unbegun
  <1>13. CASE UNCHANGED svars
    BY <1>13 DEF svars, vars, ServerInv, Before, Unbegun
  <1> QED
    BY <1>2, <1>3, <1>4, <1>5, <1>6, <1>7, <1>8, <1>9, <1>10, <1>11, <1>12, <1>13
    DEF SNext, SStep, Main, get_ipcam_all_info

-----------------------------------------------------------------------------
(* The refinement of ServerLife.                                           *)

LEMMA LifeInit == SInit => Life!Init
  BY DEF SInit, Init, Life!Init

\* A step that leaves the process and the phase of its life as they are.
LEMMA LifeStutters ==
  ASSUME UNCHANGED <<exited, serving>>, conn' = "up" <=> conn = "up",
         serving = 1 \/ once' = once
  PROVE  UNCHANGED Life!vars
  BY DEF Life!vars

\* A step that ends the process.
LEMMA LifeEnds ==
  ASSUME ~exited, exited', UNCHANGED <<once, serving>>
  PROVE  Life!End
  BY DEF Life!End

LEMMA LifeStep ==
  STypeOK /\ ServerInv /\ [SNext]_svars => [Life!Next]_Life!vars
  <1> SUFFICES ASSUME STypeOK, ServerInv, [SNext]_svars
               PROVE  Life!Next \/ UNCHANGED Life!vars
    BY DEF Life!Next
  <1> USE ServerAssumption DEF ServerAssumption
  <1>1. get \in Gets /\ TypeOK /\ serving \in {0, 1} /\ once \in {0, 1} /\ asked \in Nat
    BY DEF STypeOK, Gets, Pcs
  <1>2. ASSUME ~exited, Connecting, Unasked PROVE Life!Next \/ UNCHANGED Life!vars
    <2>1. conn # "up" /\ serving = 0 /\ UNCHANGED <<once, serving>>
      BY <1>2, ConnectingFrame DEF Unasked, ServerInv, Before
    <2>2. CASE exited'
      BY <1>2, <2>1, <2>2, LifeEnds DEF Life!Next
    <2>3. CASE ~exited' /\ conn' = "up"
      BY <1>2, <2>1, <2>3 DEF Life!Next, Life!Connected
    <2>4. CASE ~exited' /\ conn' # "up"
      BY <1>2, <2>1, <2>4 DEF Life!vars
    <2> QED
      BY <2>2, <2>3, <2>4
  <1>3. ASSUME ~exited, Checking, Unasked PROVE Life!Next \/ UNCHANGED Life!vars
    BY <1>3, CheckingFrame, LifeEnds, LifeStutters DEF Unasked, Life!Next
  <1>4. ASSUME PeerStep, Unasked PROVE UNCHANGED Life!vars
    BY <1>4, PeerFrame, LifeStutters DEF Unasked
  <1>5. ASSUME ~exited, Receive PROVE Life!Next \/ UNCHANGED Life!vars
    <2>1. UNCHANGED <<conn, exited, serving>>
      BY <1>5, ReceivingFrame DEF Receive, Unasked
    <2>2. CASE once' = once \/ serving = 1
      BY <2>1, <2>2, LifeStutters
    <2>3. CASE once' # once /\ serving = 0
      <3>1. once' = 1 /\ asked # 0
        BY <1>1, <1>5, <2>3 DEF Receive, Unasked
      <3>2. conn = "up"
        BY <3>1 DEF ServerInv, Before, Unbegun
      <3> QED
        BY <1>5, <2>1, <2>3, <3>1, <3>2 DEF Life!Next, Life!Hear
    <2> QED
      BY <1>1, <2>2, <2>3
  <1>6. ASSUME NEW s \in Senders, Send(s) PROVE UNCHANGED Life!vars
    BY <1>1, <1>6, SendingFrame, LifeStutters DEF Send
  <1>7. ASSUME NEW s \in Senders, GetBegin(s) PROVE UNCHANGED Life!vars
    <2>1. UNCHANGED <<conn, exited, serving>> /\ once' = 0 /\ get[s].pc = "begin"
      BY <1>7 DEF GetBegin, Asking, vars
    <2>2. serving = 0 => once = 0
      BY <1>1, <2>1 DEF ServerInv, Before, Unbegun
    <2> QED
      BY <1>1, <2>1, <2>2, LifeStutters
  <1>8. ASSUME NEW s \in Senders, GetSend(s) \/ GetSent(s) \/ GetPoll(s)
        PROVE  UNCHANGED Life!vars
    <2>1. UNCHANGED <<conn, exited, once, serving>>
      BY <1>8 DEF GetSend, GetSent, GetPoll, SendBegin, Asking, vars
    <2> QED
      BY <2>1, LifeStutters
  <1>9. ASSUME ~exited, NEW s \in Senders, GetNap(s)
        PROVE  Life!Next \/ UNCHANGED Life!vars
    <2>1. UNCHANGED <<conn, once, serving>> /\ (exited' = exited \/ exited')
      BY <1>9 DEF GetNap, Asking, vars
    <2> QED
      BY <1>9, <2>1, LifeEnds, LifeStutters DEF Life!Next
  <1>10. ASSUME ~exited, StartServing PROVE Life!Next
    <2>1. UNCHANGED <<conn, exited, once>> /\ serving = 0 /\ serving' = 1
          /\ get[main].pc = "back"
      BY <1>10 DEF StartServing, vars
    <2>2. once = 1 /\ conn = "up"
      BY <2>1 DEF ServerInv, Before
    <2> QED
      BY <1>10, <2>1, <2>2 DEF Life!Next, Life!Serve
  <1>11. ASSUME ~exited, ServingEnds PROVE Life!Next
    BY <1>11, LifeEnds DEF ServingEnds, Unasked, Life!Next
  <1>12. CASE OnvifRecvMotionFunc
    BY <1>12, LifeStutters DEF OnvifRecvMotionFunc, Asking, vars
  <1>13. CASE UNCHANGED svars
    BY <1>13, LifeStutters DEF svars, vars
  <1> QED
    BY <1>2, <1>3, <1>4, <1>5, <1>6, <1>7, <1>8, <1>9, <1>10, <1>11, <1>12, <1>13
    DEF SNext, SStep, Main, get_ipcam_all_info

\* The server over its link implements ServerLife, for any message size and any limits:
\* it serves only after an answer has come, and it never comes back from its end.
THEOREM ServerRefines == SSpec => ImplementsServerLife
  <1>1. SInit => STypeOK /\ ServerInv /\ Life!Init
    BY STypeInit, ServerInit, LifeInit
  <1>2. STypeOK /\ ServerInv /\ [SNext]_svars
          => STypeOK' /\ ServerInv' /\ [Life!Next]_Life!vars
    BY STypeStep, ServerStep, LifeStep
  <1> QED
    BY <1>1, <1>2, PTL DEF SSpec, ImplementsServerLife, Life!Spec

-----------------------------------------------------------------------------
(* The link under the server: main and the refresh thread are its senders, *)
(* and an end that is none of the link's leaves it as it is.               *)

LinkAsItIs == UNCHANGED <<pst, conn, rx, chk, txd, tx, cancel, lock, wire, peer, sock>>

LEMMA LinkStep == [SNext]_svars => [Next]_vars \/ LinkAsItIs
  <1> SUFFICES ASSUME [SNext]_svars PROVE [Next]_vars \/ LinkAsItIs
    OBVIOUS
  <1>1. ASSUME ~exited, Connecting \/ Checking \/ PeerStep \/ Receive PROVE Next
    BY <1>1 DEF Receive, Next, Step
  <1>2. ASSUME ~exited, NEW s \in Senders, Send(s) PROVE Next
    BY <1>2 DEF Send, Next, Step
  <1>3. ASSUME ~exited, NEW s \in Senders, get_ipcam_all_info(s)
        PROVE  [Next]_vars \/ LinkAsItIs
    <2>1. UNCHANGED vars \/ SendBegin(s) \/ LinkAsItIs
      BY <1>3 DEF get_ipcam_all_info, GetBegin, GetSend, GetSent, GetPoll, GetNap, LinkAsItIs
    <2> QED
      BY <1>3, <2>1 DEF Next, Step
  <1>4. CASE Main \/ OnvifRecvMotionFunc \/ UNCHANGED svars
    BY <1>4 DEF Main, StartServing, ServingEnds, OnvifRecvMotionFunc, svars, vars, LinkAsItIs
  <1> QED
    BY <1>1, <1>2, <1>3, <1>4 DEF SNext, SStep

LEMMA LinkKeeps ==
  STypeOK /\ FrameInv /\ StreamInv /\ [SNext]_svars
    => FrameInv' /\ StreamInv' /\ [Stream!Next]_Stream!vars
  <1> SUFFICES ASSUME STypeOK, FrameInv, StreamInv, [SNext]_svars
               PROVE  FrameInv' /\ StreamInv' /\ [Stream!Next]_Stream!vars
    OBVIOUS
  <1>1. CASE [Next]_vars
    BY <1>1, FrameStep, StreamStep DEF STypeOK
  <1>2. CASE LinkAsItIs
    <2>1. FrameInv'
      BY <1>2, Quiet DEF LinkAsItIs
    <2> QED
      BY <1>2, <2>1
      DEF LinkAsItIs, StreamInv, LeftInv, UnmadeInv, Stream!vars, StreamIs, Over, Sent
  <1> QED
    BY <1>1, <1>2, LinkStep

\* main and the refresh thread ask over one link whenever they like, and either may end
\* the process at any moment: their questions do not mix on the stream.
THEOREM ServerNoInterleaving == SSpec => []FramesNeverInterleave
  <1>1. SInit => STypeOK /\ FrameInv /\ StreamInv
    BY STypeInit, FrameInit, StreamInit DEF SInit
  <1>2. STypeOK /\ FrameInv /\ StreamInv /\ [SNext]_svars
          => STypeOK' /\ FrameInv' /\ StreamInv'
    BY STypeStep, LinkKeeps
  <1>3. FrameInv => FramesNeverInterleave
    BY DEF FrameInv
  <1> QED
    BY <1>1, <1>2, <1>3, PTL DEF SSpec

\* What the server sends the camera is a stream of whole questions.
THEOREM ServerStream == SSpec => ImplementsStream
  <1>1. SInit => STypeOK /\ FrameInv /\ StreamInv /\ Stream!Init
    BY STypeInit, FrameInit, StreamInit DEF SInit
  <1>2. STypeOK /\ FrameInv /\ StreamInv /\ [SNext]_svars
          => STypeOK' /\ FrameInv' /\ StreamInv' /\ [Stream!Next]_Stream!vars
    BY STypeStep, LinkKeeps
  <1> QED
    BY <1>1, <1>2, PTL DEF SSpec, ImplementsStream, Stream!Spec
=============================================================================
