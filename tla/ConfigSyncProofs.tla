-------------------------- MODULE ConfigSyncProofs --------------------------
(* What ConfigSync guarantees for any encoders, limits and values asked    *)
(* for: its types, that no client is served from an unfilled copy, and     *)
(* what the flag all callers share is still good for.                      *)
EXTENDS ConfigSync, TLAPS

(* The types.                                                              *)

LEMMA PartsFacts == "vcode0" \in Parts /\ "ipv4" \in Parts /\ "size" \in Parts
  BY SyncAssumption DEF SyncAssumption, Parts

LEMMA ZeroedType == Zeroed \in Info
  BY DEF Zeroed, Info, Values

LEMMA EmptyMessage == [cmd |-> "GET_ALL_INFO", info |-> Zeroed] \in Command
  BY ZeroedType DEF Command

LEMMA MessageType ==
  ASSUME NEW cmd \in {"CODE_SET", "NET_SET", "SAVE_ALLINFO"}, TypeOK
  PROVE  [cmd |-> cmd, info |-> g_pIpcamAll] \in Command
  BY DEF Command, TypeOK

\* The link takes a message only while it has room.
LEMMA SendType ==
  ASSUME NEW m \in Command, TypeOK, Net_dvr_send_cam_data(m)
  PROVE  toCamera' \in Seq(Command) /\ Len(toCamera') <= MaxInFlight
  BY SyncAssumption DEF SyncAssumption, Net_dvr_send_cam_data, TypeOK

LEMMA TypeInit == Init => TypeOK
  <1> SUFFICES ASSUME Init PROVE TypeOK
    OBVIOUS
  <1> USE SyncAssumption DEF SyncAssumption
  <1>1. g_pIpcamAll \in Info /\ camera \in Info
    BY DEF Init, Zeroed, Factory, Info, Values
  <1>2. req \in [Callers -> Waiting]
    BY DEF Init, Waiting
  <1>3. job \in Job /\ rx \in Receiver
    BY ZeroedType, PartsFacts DEF Init, Job, Receiver, Values
  <1>4. answered \in [Callers -> BOOLEAN] /\ linkUp \in BOOLEAN
    BY Zenon DEF Init
  <1> QED
    BY <1>1, <1>2, <1>3, <1>4 DEF Init, TypeOK

LEMMA TypeStep == TypeOK /\ [Next]_vars => TypeOK'
  <1> SUFFICES ASSUME TypeOK, [Next]_vars PROVE TypeOK'
    OBVIOUS
  <1> USE SyncAssumption, PartsFacts DEF SyncAssumption
  <1>1. ASSUME NEW c \in Callers, GetBegin(c) PROVE TypeOK'
    <2>1. req' \in [Callers -> Waiting]
      BY <1>1 DEF GetBegin, Waiting, TypeOK
    <2> QED
      BY <1>1, <2>1 DEF GetBegin, TypeOK
  <1>2. ASSUME NEW c \in Callers, GetSend(c) PROVE TypeOK'
    <2>1. req' \in [Callers -> Waiting]
      BY <1>2 DEF GetSend, Waiting, TypeOK
    <2>2. toCamera' \in Seq(Command) /\ Len(toCamera') <= MaxInFlight
      BY <1>2, EmptyMessage, SendType DEF GetSend
    <2> QED
      BY <1>2, <2>1, <2>2 DEF GetSend, TypeOK
  <1>3. ASSUME NEW c \in Callers, GetPoll(c) PROVE TypeOK'
    <2>1. req' \in [Callers -> Waiting]
      <3>1. req' \in {[req EXCEPT ![c].pc = "nap"],
                      [req EXCEPT ![c] = [pc |-> "back", count |-> 0]]}
        BY <1>3 DEF GetPoll
      <3>2. req \in [Callers -> Waiting]
        BY DEF TypeOK
      <3> QED
        BY <3>1, <3>2 DEF Waiting
    <2>2. answered' \in [Callers -> BOOLEAN]
      BY <1>3, Zenon DEF GetPoll, TypeOK
    <2> QED
      BY <1>3, <2>1, <2>2 DEF GetPoll, TypeOK
  <1>4. ASSUME NEW c \in Callers, GetNap(c) PROVE TypeOK'
    <2>1. req' \in [Callers -> Waiting]
      <3>1. req \in [Callers -> Waiting]
        BY DEF TypeOK
      <3>2. CASE req[c].count + 1 > MaxPoll
        BY <1>4, <3>1, <3>2 DEF GetNap
      <3>3. CASE ~(req[c].count + 1 > MaxPoll)
        <4>1. [pc |-> "poll", count |-> req[c].count + 1] \in Waiting
          BY <3>1, <3>3 DEF Waiting
        <4>2. req' = [req EXCEPT ![c] = [pc |-> "poll", count |-> req[c].count + 1]]
          BY <1>4, <3>1, <3>3 DEF GetNap
        <4> QED
          BY <3>1, <4>1, <4>2
      <3> QED
        BY <3>2, <3>3
    <2> QED
      BY <1>4, <2>1 DEF GetNap, TypeOK
  <1>5. CASE Refresh
    <2>1. req' \in [Callers -> Waiting]
      BY <1>5 DEF Refresh, Waiting, Callers, TypeOK
    <2> QED
      BY <1>5, <2>1 DEF Refresh, TypeOK
  <1>6. CASE BeginHandler
    <2>1. req' \in [Callers -> Waiting]
      <3>1. req' = [req EXCEPT !["main"].pc = "begin"]
        BY <1>6 DEF BeginHandler, Request
      <3>2. req \in [Callers -> Waiting]
        BY DEF TypeOK
      <3> QED
        BY <3>1, <3>2 DEF Waiting, Callers
    <2>2. job' \in Job
      BY <1>6 DEF BeginHandler, Request, Job, Parts, Values
    <2>3. requests' \in 0..MaxRequests
      BY <1>6 DEF BeginHandler, Request, TypeOK
    <2> QED
      BY <1>6, <2>1, <2>2, <2>3 DEF BeginHandler, Request, TypeOK
  <1>7. CASE GetProfiles
    <2>1. g_pIpcamAll' \in Info
      BY <1>7 DEF GetProfiles, Info, Values, TypeOK
    <2>2. requests' \in 0..MaxRequests
      BY <1>7 DEF GetProfiles, TypeOK
    <2> QED
      BY <1>7, <2>1, <2>2 DEF GetProfiles, TypeOK
  <1>8. CASE StartServing
    <2>1. req' \in [Callers -> Waiting]
      BY <1>8 DEF StartServing, Waiting
    <2>2. job' \in Job
      BY <1>8 DEF StartServing, Job, TypeOK
    <2> QED
      BY <1>8, <2>1, <2>2 DEF StartServing, TypeOK
  <1>9. CASE GetHandler
    <2>1. g_pIpcamAll' \in Info
      BY <1>9 DEF GetHandler, Info, Values, TypeOK
    <2>2. req' \in [Callers -> Waiting]
      BY <1>9 DEF GetHandler, Finish, Waiting, Callers, TypeOK
    <2>3. job' \in Job
      BY <1>9 DEF GetHandler, Finish, Done, Job, Values
    <2> QED
      BY <1>9, <2>1, <2>2, <2>3 DEF GetHandler, TypeOK
  <1>10. CASE SetWrite
    <2>1. g_pIpcamAll' \in Info
      BY <1>10 DEF SetWrite, Info, Job, TypeOK
    <2>2. req' \in [Callers -> Waiting]
      BY <1>10 DEF SetWrite, Waiting, Callers, TypeOK
    <2> QED
      BY <1>10, <2>1, <2>2 DEF SetWrite, TypeOK
  <1>11. CASE SendCode
    <2>1. toCamera' \in Seq(Command) /\ Len(toCamera') <= MaxInFlight
      BY <1>11, MessageType, SendType DEF SendCode, IpcamSetValue
    <2>2. job' \in Job
      BY <1>11 DEF SendCode, Job, TypeOK
    <2> QED
      BY <1>11, <2>1, <2>2 DEF SendCode, IpcamSetValue, TypeOK
  <1>12. CASE SendSave
    <2>1. toCamera' \in Seq(Command) /\ Len(toCamera') <= MaxInFlight
      BY <1>12, MessageType, SendType DEF SendSave, IpcamSetValue
    <2>2. req' \in [Callers -> Waiting]
      BY <1>12 DEF SendSave, Finish, Waiting, Callers, TypeOK
    <2>3. job' \in Job
      BY <1>12 DEF SendSave, Finish, Done, Job, Values
    <2> QED
      BY <1>12, <2>1, <2>2, <2>3 DEF SendSave, IpcamSetValue, TypeOK
  <1>13. CASE SendNet
    <2>1. toCamera' \in Seq(Command) /\ Len(toCamera') <= MaxInFlight
      BY <1>13, MessageType, SendType DEF SendNet, IpcamSetValue
    <2>2. req' \in [Callers -> Waiting]
      BY <1>13 DEF SendNet, Finish, Waiting, Callers, TypeOK
    <2>3. job' \in Job
      BY <1>13 DEF SendNet, Finish, Done, Job, Values
    <2> QED
      BY <1>13, <2>1, <2>2, <2>3 DEF SendNet, IpcamSetValue, TypeOK
  <1>14. CASE RecvBegin
    <2>1. rx' \in Receiver
      BY <1>14 DEF RecvBegin, Receiver, TypeOK
    <2>2. fromCamera' \in Seq(Info) /\ Len(fromCamera') <= MaxInFlight
      BY <1>14 DEF RecvBegin, TypeOK
    <2> QED
      BY <1>14, <2>1, <2>2 DEF RecvBegin, TypeOK
  <1>15. CASE RecvCopy
    <2>1. g_pIpcamAll' \in Info
      BY <1>15 DEF RecvCopy, Info, Receiver, TypeOK
    <2>2. rx' \in Receiver
      BY <1>15 DEF RecvCopy, Receiver, TypeOK
    <2> QED
      BY <1>15, <2>1, <2>2 DEF RecvCopy, TypeOK
  <1>16. CASE RecvFlag
    <2>1. rx' \in Receiver
      BY <1>16 DEF RecvFlag, Receiver, TypeOK
    <2>2. answered' \in [Callers -> BOOLEAN]
      BY <1>16, Zenon DEF RecvFlag
    <2> QED
      BY <1>16, <2>1, <2>2 DEF RecvFlag, TypeOK
  <1>17. CASE RecvSize
    <2>1. g_pIpcamAll' \in Info
      BY <1>17 DEF RecvSize, Info, Values, TypeOK
    <2>2. rx' \in Receiver
      BY <1>17, ZeroedType DEF RecvSize, Receiver
    <2> QED
      BY <1>17, <2>1, <2>2 DEF RecvSize, TypeOK
  <1>18. CASE Camera
    <2>1. /\ toCamera' \in Seq(Command) /\ Len(toCamera') <= MaxInFlight
          /\ Head(toCamera) \in Command
      BY <1>18 DEF Camera, TypeOK
    <2>2. camera' \in Info
      BY <1>18, <2>1 DEF Camera, Command, Info, TypeOK
    <2>3. fromCamera' \in Seq(Info) /\ Len(fromCamera') <= MaxInFlight
      <3>1. camera \in Info /\ fromCamera \in Seq(Info) /\ Len(fromCamera) <= MaxInFlight
        BY DEF TypeOK
      <3>2. \/ fromCamera' = fromCamera
            \/ Len(fromCamera) < MaxInFlight /\ fromCamera' = Append(fromCamera, camera)
        BY <1>18 DEF Camera
      <3> QED
        BY <3>1, <3>2
    <2> QED
      BY <1>18, <2>1, <2>2, <2>3 DEF Camera, TypeOK
  <1>19. CASE CameraEdit
    <2>1. camera' \in Info
      BY <1>19 DEF CameraEdit, Info, Values, TypeOK
    <2>2. edits' \in 0..MaxEdits
      BY <1>19 DEF CameraEdit, TypeOK
    <2> QED
      BY <1>19, <2>1, <2>2 DEF CameraEdit, TypeOK
  <1>20. CASE LinkLost
    <2>1. /\ toCamera' \in Seq(Command) /\ Len(toCamera') = 0
          /\ fromCamera' \in Seq(Info) /\ Len(fromCamera') = 0
      BY <1>20 DEF LinkLost
    <2>2. linkUp' \in BOOLEAN
      BY <1>20, Zenon DEF LinkLost
    <2> QED
      BY <1>20, <2>1, <2>2 DEF LinkLost, TypeOK
  <1>21. CASE UNCHANGED vars
    BY <1>21 DEF vars, TypeOK
  <1> QED
    BY <1>1, <1>2, <1>3, <1>4, <1>5, <1>6, <1>7, <1>8, <1>9, <1>10, <1>11, <1>12,
       <1>13, <1>14, <1>15, <1>16, <1>17, <1>18, <1>19, <1>20, <1>21
    DEF Next, Step, get_ipcam_all_info, Handling, net_recv_enc_data

\* Every value stays in its range: no more messages are in flight than the link holds,
\* no caller polls more often than its limit, and the copy holds known values.
THEOREM TypeCorrect == Spec => []TypeOK
  BY TypeInit, TypeStep, PTL DEF Spec

-----------------------------------------------------------------------------
(* The invariant.  Filled settings have no part that was never written;    *)
(* what is filled stays so, because only filled settings and values that   *)
(* clients may ask for ever move between camera, link and copy.            *)

Filled(info) == \A p \in Parts : info[p] # "zero"

LinkFilled ==
  /\ \A i \in 1..Len(fromCamera) : Filled(fromCamera[i])
  /\ \A i \in 1..Len(toCamera) :
       toCamera[i].cmd # "GET_ALL_INFO" => Filled(toCamera[i].info)

AnswerFilled == rx.pc # "idle" => Filled(rx.info)

CopyFilled ==
  /\ rx.pc = "copy" => \A p \in Parts \ rx.todo : g_pIpcamAll[p] # "zero"
  /\ rx.pc = "size" \/ get_ipcam_info_once = 1 => Filled(g_pIpcamAll)
  /\ req["main"].pc = "back" \/ job.for # "start" => Filled(g_pIpcamAll)

JobFilled == job.for \in {"code", "net"} => job.value # "zero"

SyncInv == Filled(camera) /\ LinkFilled /\ AnswerFilled /\ CopyFilled /\ JobFilled

LEMMA SyncInit == Init => SyncInv
  <1> SUFFICES ASSUME Init PROVE SyncInv
    OBVIOUS
  <1>1. Filled(camera)
    BY DEF Init, Factory, Filled
  <1>2. LinkFilled /\ AnswerFilled
    BY DEF Init, LinkFilled, AnswerFilled
  <1>3. CopyFilled /\ JobFilled
    BY DEF Init, CopyFilled, JobFilled, Callers
  <1> QED
    BY <1>1, <1>2, <1>3 DEF SyncInv

\* A message that holds filled settings, or none, keeps the link as it was.
LEMMA SendFilled ==
  ASSUME TypeOK, LinkFilled, NEW m \in Command, m.cmd = "GET_ALL_INFO" \/ Filled(m.info),
         Net_dvr_send_cam_data(m), UNCHANGED fromCamera
  PROVE  LinkFilled'
  BY DEF TypeOK, LinkFilled, Filled, Net_dvr_send_cam_data

LEMMA SyncStep == TypeOK /\ SyncInv /\ [Next]_vars => SyncInv'
  <1> SUFFICES ASSUME TypeOK, SyncInv, [Next]_vars PROVE SyncInv'
    OBVIOUS
  <1> USE SyncAssumption, PartsFacts
      DEF SyncAssumption, TypeOK, Info, SyncInv, Filled, LinkFilled, AnswerFilled,
          CopyFilled, JobFilled
  <1>1. ASSUME NEW c \in Callers, GetBegin(c) PROVE SyncInv'
    BY <1>1 DEF GetBegin
  <1>2. ASSUME NEW c \in Callers, GetSend(c) PROVE SyncInv'
    <2>1. LinkFilled'
      BY <1>2, EmptyMessage, SendFilled DEF GetSend
    <2>2. CopyFilled'
      BY <1>2 DEF GetSend, Callers
    <2> QED
      BY <1>2, <2>1, <2>2 DEF GetSend
  <1>3. ASSUME NEW c \in Callers, GetPoll(c) PROVE SyncInv'
    <2>1. UNCHANGED <<g_pIpcamAll, get_ipcam_info_once, rx, job>>
      BY <1>3 DEF GetPoll
    <2>2. CASE get_ipcam_info_once = 1
      BY <1>3, <2>1, <2>2 DEF GetPoll
    <2>3. CASE get_ipcam_info_once = 0
      <3>1. req' = [req EXCEPT ![c].pc = "nap"]
        BY <1>3, <2>3 DEF GetPoll
      <3>2. req'["main"].pc = "back" => req["main"].pc = "back"
        BY <3>1
      <3>3. CopyFilled'
        BY <2>1, <3>2
      <3> QED
        BY <1>3, <3>3 DEF GetPoll
    <2> QED
      BY <2>2, <2>3
  <1>4. ASSUME NEW c \in Callers, GetNap(c) PROVE SyncInv'
    <2>1. req' = req \/ req' = [req EXCEPT ![c] = [pc |-> "poll", count |-> @.count + 1]]
      BY <1>4 DEF GetNap
    <2>2. CopyFilled'
      BY <1>4, <2>1 DEF GetNap, Callers
    <2> QED
      BY <1>4, <2>2 DEF GetNap
  <1>5. CASE Refresh
    BY <1>5 DEF Refresh
  <1>6. CASE BeginHandler
    BY <1>6 DEF BeginHandler, Request
  <1>7. CASE GetProfiles
    BY <1>7 DEF GetProfiles
  <1>8. CASE StartServing
    BY <1>8 DEF StartServing
  <1>9. CASE GetHandler
    BY <1>9 DEF GetHandler, Finish, Done
  <1>10. CASE SetWrite
    BY <1>10 DEF SetWrite
  <1>11. CASE SendCode
    BY <1>11 DEF SendCode, IpcamSetValue, Net_dvr_send_cam_data, Command
  <1>12. CASE SendSave
    BY <1>12 DEF SendSave, IpcamSetValue, Net_dvr_send_cam_data, Command, Finish, Done
  <1>13. CASE SendNet
    BY <1>13 DEF SendNet, IpcamSetValue, Net_dvr_send_cam_data, Command, Finish, Done
  <1>14. CASE RecvBegin
    BY <1>14 DEF RecvBegin
  <1>15. CASE RecvCopy
    BY <1>15 DEF RecvCopy
  <1>16. CASE RecvFlag
    BY <1>16 DEF RecvFlag
  <1>17. CASE RecvSize
    BY <1>17 DEF RecvSize, Zeroed
  <1>18. CASE Camera
    <2> DEFINE m == Head(toCamera)
    <2>1. m.cmd # "GET_ALL_INFO" => Filled(m.info)
      BY <1>18 DEF Camera
    <2>2. Filled(camera')
      BY <1>18, <2>1 DEF Camera, Concerns
    <2>3. \A i \in 1..Len(toCamera') :
            toCamera'[i].cmd # "GET_ALL_INFO" => Filled(toCamera'[i].info)
      BY <1>18 DEF Camera
    <2>4. \/ fromCamera' = fromCamera
          \/ fromCamera' = Append(fromCamera, camera)
      BY <1>18 DEF Camera
    <2>5. \A i \in 1..Len(fromCamera') : Filled(fromCamera'[i])
      BY <2>4
    <2> QED
      BY <1>18, <2>2, <2>3, <2>5 DEF Camera
  <1>19. CASE CameraEdit
    BY <1>19 DEF CameraEdit
  <1>20. CASE LinkLost
    BY <1>20 DEF LinkLost
  <1>21. CASE UNCHANGED vars
    BY <1>21 DEF vars
  <1> QED
    BY <1>1, <1>2, <1>3, <1>4, <1>5, <1>6, <1>7, <1>8, <1>9, <1>10, <1>11,
       <1>12, <1>13, <1>14, <1>15, <1>16, <1>17, <1>18, <1>19, <1>20, <1>21
    DEF Next, Step, get_ipcam_all_info, Handling, net_recv_enc_data

\* A client is never answered from a copy any part of which has not been filled in, for
\* any number of encoders, requests, messages in flight and edits at the camera.
THEOREM ServedFilled == Spec => []ServeOnlyInitialised
  <1>1. Init => TypeOK /\ SyncInv
    BY TypeInit, SyncInit
  <1>2. TypeOK /\ SyncInv /\ [Next]_vars => TypeOK' /\ SyncInv'
    BY TypeStep, SyncStep
  <1>3. SyncInv => ServeOnlyInitialised
    BY DEF SyncInv, CopyFilled, Filled, ServeOnlyInitialised
  <1> QED
    BY <1>1, <1>2, <1>3, PTL DEF Spec

-----------------------------------------------------------------------------
(* The shared flag.  Who has an answer is still waiting; the flag falls    *)
(* only where a caller begins, and that caller does not stop waiting while *)
(* it is down.  main is asleep unless a request is about to be answered,   *)
(* so that no request begins while it waits for another.                   *)

AnsweredWait == \A c \in Callers : answered[c] => req[c].pc \in {"poll", "nap"}

RefreshLater == job.for = "start" => req["refresh"].pc = "none"

MainAsks == req["main"].pc # "asleep" => job.for \in {"start", "get", "code", "net"}

FlagInv ==
  /\ AnsweredWait /\ RefreshLater /\ MainAsks
  /\ AnswerLostOnlyToTheOther

LEMMA FlagInit == Init => FlagInv
  BY DEF Init, FlagInv, AnsweredWait, RefreshLater, MainAsks, AnswerLostOnlyToTheOther,
     Callers

\* A step of which the callers see nothing.
LEMMA FlagQuiet ==
  ASSUME FlagInv, UNCHANGED <<req, answered, get_ipcam_info_once>>,
         job' = job \/ (req["main"].pc = "asleep" /\ job.for # "start"
                       /\ job'.for # "start")
  PROVE  FlagInv'
  BY DEF FlagInv, AnsweredWait, RefreshLater, MainAsks, AnswerLostOnlyToTheOther

LEMMA FlagStep == TypeOK /\ FlagInv /\ [Next]_vars => FlagInv'
  <1> SUFFICES ASSUME TypeOK, FlagInv, [Next]_vars PROVE FlagInv'
    OBVIOUS
  <1> USE DEF Callers, FlagInv, AnsweredWait, RefreshLater, MainAsks,
              AnswerLostOnlyToTheOther
  <1>0. /\ req \in [Callers -> Waiting] /\ answered \in [Callers -> BOOLEAN]
        /\ get_ipcam_info_once \in {0, 1}
    BY DEF TypeOK
  <1>1. ASSUME NEW c \in Callers, GetBegin(c) PROVE FlagInv'
    BY <1>0, <1>1 DEF GetBegin
  <1>2. ASSUME NEW c \in Callers, GetSend(c) PROVE FlagInv'
    BY <1>0, <1>2 DEF GetSend
  <1>3. ASSUME NEW c \in Callers, GetPoll(c) PROVE FlagInv'
    <2>1. UNCHANGED <<get_ipcam_info_once, job>>
      BY <1>3 DEF GetPoll
    <2>2. CASE get_ipcam_info_once = 0
      <3>1. req' = [req EXCEPT ![c].pc = "nap"] /\ answered' = answered /\ req[c].pc = "poll"
        BY <1>3, <2>2 DEF GetPoll
      <3> QED
        BY <1>0, <2>1, <3>1
    <2>3. CASE get_ipcam_info_once = 1
      <3>1. req' = [req EXCEPT ![c] = [pc |-> "back", count |-> 0]] /\ req[c].pc = "poll"
        BY <1>3, <2>3 DEF GetPoll
      <3>2. answered' = [answered EXCEPT ![c] = FALSE]
        BY <1>3, <2>3 DEF GetPoll
      <3>3. \A d \in Callers : answered'[d] => answered[d] /\ d # c
        BY <1>0, <3>2, Zenon
      <3>4. AnsweredWait' /\ RefreshLater' /\ MainAsks'
        BY <1>0, <2>1, <3>1, <3>3
      <3> QED
        BY <2>1, <2>3, <3>4
    <2> QED
      BY <1>0, <2>2, <2>3
  <1>4. ASSUME NEW c \in Callers, GetNap(c) PROVE FlagInv'
    BY <1>0, <1>4 DEF GetNap
  <1>5. CASE Refresh
    BY <1>0, <1>5 DEF Refresh
  <1>6. CASE BeginHandler
    BY <1>0, <1>6 DEF BeginHandler, Request
  <1>7. CASE GetProfiles
    BY <1>7, FlagQuiet DEF GetProfiles
  <1>8. CASE StartServing
    BY <1>0, <1>8 DEF StartServing
  <1>9. CASE GetHandler
    BY <1>0, <1>9 DEF GetHandler, Finish, Done
  <1>10. CASE SetWrite
    BY <1>0, <1>10 DEF SetWrite
  <1>11. CASE SendCode
    BY <1>0, <1>11 DEF SendCode, IpcamSetValue
  <1>12. CASE SendSave
    BY <1>0, <1>12 DEF SendSave, IpcamSetValue, Finish, Done
  <1>13. CASE SendNet
    BY <1>0, <1>13 DEF SendNet, IpcamSetValue, Finish, Done
  <1>14. CASE RecvBegin \/ RecvCopy \/ RecvSize
    BY <1>14, FlagQuiet DEF RecvBegin, RecvCopy, RecvSize
  <1>15. CASE RecvFlag
    BY <1>0, <1>15 DEF RecvFlag
  <1>16. CASE Camera \/ CameraEdit \/ LinkLost
    BY <1>16, FlagQuiet DEF Camera, CameraEdit, LinkLost
  <1>17. CASE UNCHANGED vars
    BY <1>17, FlagQuiet DEF vars
  <1> QED
    BY <1>1, <1>2, <1>3, <1>4, <1>5, <1>6, <1>7, <1>8, <1>9, <1>10, <1>11,
       <1>12, <1>13, <1>14, <1>15, <1>16, <1>17
    DEF Next, Step, get_ipcam_all_info, Handling, net_recv_enc_data

\* However many requests, answers and refreshes cross, an answer that has come is lost to
\* its caller only to the other one, which is still waiting.
THEOREM AnswerKept == Spec => []AnswerLostOnlyToTheOther
  <1>1. Init => TypeOK /\ FlagInv
    BY TypeInit, FlagInit
  <1>2. TypeOK /\ FlagInv /\ [Next]_vars => TypeOK' /\ FlagInv'
    BY TypeStep, FlagStep
  <1>3. FlagInv => AnswerLostOnlyToTheOther
    BY DEF FlagInv
  <1> QED
    BY <1>1, <1>2, <1>3, PTL DEF Spec
=============================================================================
