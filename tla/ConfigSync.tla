----------------------------- MODULE ConfigSync -----------------------------
(* g_pIpcamAll, this process's copy of the camera's settings, and those    *)
(* who read, refresh and write it.  Source: src/onvif.c.                   *)
(*                                                                         *)
(* Actors: the main thread (get_ipcam_all_info once, then one SOAP request *)
(* after the other), the refresh thread (OnvifRecvMotionFunc), the link's  *)
(* receive thread (net_recv_enc_data), and the camera (external).  The     *)
(* copy is plain memory written word by word without a lock; it is split   *)
(* into the parts the handlers touch.  Messages in flight are FIFO, as the *)
(* link (NetLink) delivers them.                                           *)
(***************************************************************************)
EXTENDS Integers, Sequences

CONSTANTS
  Encoders,     \* onvif_st.vcode, "vcode0" among them
  Asked,        \* values a client may ask for
  MaxPoll,      \* polls of 100 ms for the answer: 20 (line 5818)
  MaxInFlight,  \* bound: messages in flight in one direction
  MaxRequests,  \* bound: SOAP requests served
  MaxEdits      \* bound: changes the camera makes on its own

ASSUME SyncAssumption ==
  /\ "vcode0" \in Encoders /\ Encoders \cap {"ipv4", "size"} = {}
  /\ MaxPoll \in Nat /\ MaxRequests \in Nat /\ MaxEdits \in Nat
  /\ MaxInFlight \in Nat \ {0}
  /\ Asked \cap {"zero", "factory", "4096", "two", "three"} = {}

VARIABLES
  g_pIpcamAll,          \* the copy
  get_ipcam_info_once,  \* an answer has arrived: shared by all who wait
  req,                  \* get_ipcam_all_info of each caller: pc, count
  job,                  \* the main thread's request: what for, part, value
  rx,                   \* net_recv_enc_data: pc, answer, parts still to copy
  toCamera, fromCamera, \* the link
  linkUp,
  camera,               \* the camera's settings
  requests, edits,      \* so far
  exitBy,               \* who called exit(0)
  answered              \* history: an answer came before the caller's last sleep

vars == <<g_pIpcamAll, get_ipcam_info_once, req, job, rx, toCamera, fromCamera,
          linkUp, camera, requests, edits, exitBy, answered>>

Callers == {"main", "refresh"}

\* ipv4 stands for net_st.ipv4, size for onvif_st.__sizeProfiles.
Parts == Encoders \cup {"ipv4", "size"}

Values == Asked \cup {"zero", "factory", "4096", "two", "three"}

Info == [Parts -> Values]

Command == [cmd : {"GET_ALL_INFO", "CODE_SET", "NET_SET", "SAVE_ALLINFO"}, info : Info]

Waiting == [pc : {"none", "asleep", "begin", "send", "poll", "nap", "back"},
            count : 0..MaxPoll]

Job == [for : {"start", "nothing", "get", "code", "save", "net"},
        part : Parts, value : Values]

Receiver == [pc : {"idle", "copy", "size"}, info : Info, todo : SUBSET Parts]

TypeOK ==
  /\ g_pIpcamAll \in Info /\ camera \in Info
  /\ get_ipcam_info_once \in {0, 1}
  /\ req \in [Callers -> Waiting]
  /\ job \in Job
  /\ rx \in Receiver
  /\ toCamera \in Seq(Command) /\ Len(toCamera) <= MaxInFlight
  /\ fromCamera \in Seq(Info) /\ Len(fromCamera) <= MaxInFlight
  /\ linkUp \in BOOLEAN
  /\ requests \in 0..MaxRequests /\ edits \in 0..MaxEdits
  /\ exitBy \in Callers \cup {"nobody"}
  /\ answered \in [Callers -> BOOLEAN]

Zeroed == [p \in Parts |-> "zero"]

\* ipcam_config.c ends set_config_st_default with three profiles.
Factory == [p \in Parts |-> IF p = "size" THEN "three" ELSE "factory"]

\* main has connected; the other threads do not exist yet (req.refresh.pc = "none").
Init ==
  /\ g_pIpcamAll = Zeroed
  /\ get_ipcam_info_once = 0
  /\ req = [c \in Callers |-> [pc |-> IF c = "main" THEN "begin" ELSE "none", count |-> 0]]
  /\ job = [for |-> "start", part |-> "size", value |-> "zero"]
  /\ rx = [pc |-> "idle", info |-> Zeroed, todo |-> {}]
  /\ toCamera = <<>> /\ fromCamera = <<>>
  /\ linkUp = TRUE
  /\ camera = Factory
  /\ requests = 0 /\ edits = 0
  /\ exitBy = "nobody"
  /\ answered = [c \in Callers |-> FALSE]

-----------------------------------------------------------------------------
(* get_ipcam_all_info, by either caller.                                   *)

\* A link that is down refuses the message, which no caller looks at; a full one
\* makes the sender wait.
Net_dvr_send_cam_data(m) ==
  \/ linkUp /\ Len(toCamera) < MaxInFlight /\ toCamera' = Append(toCamera, m)
  \/ ~linkUp /\ UNCHANGED toCamera

GetBegin(c) ==
  /\ req[c].pc = "begin"
  /\ get_ipcam_info_once' = 0
  /\ req' = [req EXCEPT ![c].pc = "send"]
  /\ UNCHANGED <<g_pIpcamAll, job, rx, toCamera, fromCamera, linkUp, camera, requests,
                 edits, exitBy, answered>>

GetSend(c) ==
  /\ req[c].pc = "send"
  /\ Net_dvr_send_cam_data([cmd |-> "GET_ALL_INFO", info |-> Zeroed])
  /\ req' = [req EXCEPT ![c] = [pc |-> "poll", count |-> 0]]
  /\ UNCHANGED <<g_pIpcamAll, get_ipcam_info_once, job, rx, fromCamera, linkUp, camera,
                 requests, edits, exitBy, answered>>

\* Slip: who has seen the answer takes it from the other.
GetPollTakes(c) ==
  /\ req[c].pc = "poll"
  /\ get_ipcam_info_once' = 0
  /\ IF get_ipcam_info_once = 0
     THEN /\ req' = [req EXCEPT ![c].pc = "nap"]
          /\ UNCHANGED answered
     ELSE /\ req' = [req EXCEPT ![c] = [pc |-> "back", count |-> 0]]
          /\ answered' = [answered EXCEPT ![c] = FALSE]
  /\ UNCHANGED <<g_pIpcamAll, job, rx, toCamera, fromCamera, linkUp, camera, requests,
                 edits, exitBy>>

GetPoll(c) ==
  /\ req[c].pc = "poll"
  /\ IF get_ipcam_info_once = 0
     THEN /\ req' = [req EXCEPT ![c].pc = "nap"]
          /\ UNCHANGED answered
     ELSE /\ req' = [req EXCEPT ![c] = [pc |-> "back", count |-> 0]]
          /\ answered' = [answered EXCEPT ![c] = FALSE]
  /\ UNCHANGED <<g_pIpcamAll, get_ipcam_info_once, job, rx, toCamera, fromCamera, linkUp,
                 camera, requests, edits, exitBy>>

\* Slip: the polls are not counted.
GetNapUncounted(c) ==
  /\ req[c].pc = "nap"
  /\ req' = [req EXCEPT ![c].pc = "poll"]
  /\ UNCHANGED <<g_pIpcamAll, get_ipcam_info_once, job, rx, toCamera, fromCamera, linkUp,
                 camera, requests, edits, exitBy, answered>>

\* Slip: the limit is not tested.
GetNapUnlimited(c) ==
  /\ req[c].pc = "nap"
  /\ req' = [req EXCEPT ![c] = [pc |-> "poll", count |-> @.count + 1]]
  /\ UNCHANGED <<g_pIpcamAll, get_ipcam_info_once, job, rx, toCamera, fromCamera, linkUp,
                 camera, requests, edits, exitBy, answered>>

\* The count is tested after the sleep, the flag only before it.
GetNap(c) ==
  /\ req[c].pc = "nap"
  /\ IF req[c].count + 1 > MaxPoll
     THEN exitBy' = c /\ UNCHANGED req
     ELSE /\ req' = [req EXCEPT ![c] = [pc |-> "poll", count |-> @.count + 1]]
          /\ UNCHANGED exitBy
  /\ UNCHANGED <<g_pIpcamAll, get_ipcam_info_once, job, rx, toCamera, fromCamera, linkUp,
                 camera, requests, edits, answered>>

get_ipcam_all_info(c) == GetBegin(c) \/ GetSend(c) \/ GetPoll(c) \/ GetNap(c)

-----------------------------------------------------------------------------
(* OnvifRecvMotionFunc.                                                    *)

Refresh ==
  /\ req["refresh"].pc \in {"asleep", "back"}
  /\ req' = [req EXCEPT !["refresh"].pc = IF @ = "asleep" THEN "begin" ELSE "asleep"]
  /\ UNCHANGED <<g_pIpcamAll, get_ipcam_info_once, job, rx, toCamera, fromCamera, linkUp,
                 camera, requests, edits, exitBy, answered>>

-----------------------------------------------------------------------------
(* main, then the SOAP handlers it runs.                                   *)

\* The other threads are created after the first answer.
StartServing ==
  /\ job.for = "start" /\ req["main"].pc = "back"
  /\ req' = [c \in Callers |-> [pc |-> "asleep", count |-> 0]]
  /\ job' = [job EXCEPT !.for = "nothing"]
  /\ UNCHANGED <<g_pIpcamAll, get_ipcam_info_once, rx, toCamera, fromCamera, linkUp,
                 camera, requests, edits, exitBy, answered>>

\* A request whose handler refreshes first.  The profile is looked up before that.
Request(for, part, value) ==
  /\ job.for = "nothing" /\ requests < MaxRequests
  /\ requests' = requests + 1
  /\ job' = [for |-> for, part |-> part, value |-> value]
  /\ req' = [req EXCEPT !["main"].pc = "begin"]
  /\ UNCHANGED <<g_pIpcamAll, get_ipcam_info_once, rx, toCamera, fromCamera, linkUp,
                 camera, edits, exitBy, answered>>

BeginHandler ==
  \/ Request("get", "size", "zero")
  \/ \E p \in Encoders, v \in Asked : Request("code", p, v)
  \/ \E v \in Asked : Request("net", "ipv4", v)

Done == [for |-> "nothing", part |-> "size", value |-> "zero"]

Finish ==
  /\ job' = Done
  /\ req' = [req EXCEPT !["main"].pc = "asleep"]

\* GetVideoEncoderConfiguration, GetVideoEncoderConfigurationOptions, GetStreamUri.
GetHandler ==
  /\ job.for = "get" /\ req["main"].pc = "back"
  /\ g_pIpcamAll' = [g_pIpcamAll EXCEPT !["size"] = "two"]
  /\ Finish
  /\ UNCHANGED <<get_ipcam_info_once, rx, toCamera, fromCamera, linkUp, camera, requests,
                 edits, exitBy, answered>>

\* GetProfiles answers from the copy and leaves a bit rate in it.
GetProfiles ==
  /\ job.for = "nothing" /\ requests < MaxRequests
  /\ requests' = requests + 1
  /\ g_pIpcamAll' = [g_pIpcamAll EXCEPT !["vcode0"] = "4096"]
  /\ UNCHANGED <<get_ipcam_info_once, req, job, rx, toCamera, fromCamera, linkUp, camera,
                 edits, exitBy, answered>>

\* The setters write the copy after the refresh, then send all of it.
SetWrite ==
  /\ job.for \in {"code", "net"} /\ req["main"].pc = "back"
  /\ g_pIpcamAll' = [g_pIpcamAll EXCEPT ![job.part] = job.value]
  /\ req' = [req EXCEPT !["main"].pc = "asleep"]
  /\ UNCHANGED <<get_ipcam_info_once, job, rx, toCamera, fromCamera, linkUp, camera,
                 requests, edits, exitBy, answered>>

\* IpcamSetValue: the copy as it is now.
IpcamSetValue(cmd) ==
  /\ req["main"].pc = "asleep"
  /\ Net_dvr_send_cam_data([cmd |-> cmd, info |-> g_pIpcamAll])
  /\ UNCHANGED <<g_pIpcamAll, get_ipcam_info_once, rx, fromCamera, linkUp, camera,
                 requests, edits, exitBy, answered>>

\* SetVideoEncoderConfiguration: to the encoder, then to be saved.
SendCode ==
  /\ job.for = "code"
  /\ IpcamSetValue("CODE_SET")
  /\ job' = [job EXCEPT !.for = "save"]
  /\ UNCHANGED req

SendSave ==
  /\ job.for = "save"
  /\ IpcamSetValue("SAVE_ALLINFO")
  /\ Finish

\* SetNetworkInterfaces.
SendNet ==
  /\ job.for = "net"
  /\ IpcamSetValue("NET_SET")
  /\ Finish

Handling == StartServing \/ GetHandler \/ SetWrite \/ SendCode \/ SendSave \/ SendNet

-----------------------------------------------------------------------------
(* net_recv_enc_data on IPCAM_CMD_GET_ALL_INFO: memcpy, the flag, then     *)
(* __sizeProfiles.                                                         *)

\* Slip: the flag is set first.
RecvBeginFlagged ==
  /\ rx.pc = "idle" /\ fromCamera # <<>>
  /\ rx' = [pc |-> "copy", info |-> Head(fromCamera), todo |-> Parts]
  /\ fromCamera' = Tail(fromCamera)
  /\ get_ipcam_info_once' = 1
  /\ UNCHANGED <<g_pIpcamAll, req, job, toCamera, linkUp, camera, requests, edits, exitBy,
                 answered>>

\* Slip: less than all of it is copied.
RecvBeginShort ==
  /\ rx.pc = "idle" /\ fromCamera # <<>>
  /\ rx' = [pc |-> "copy", info |-> Head(fromCamera), todo |-> Parts \ {"ipv4"}]
  /\ fromCamera' = Tail(fromCamera)
  /\ UNCHANGED <<g_pIpcamAll, get_ipcam_info_once, req, job, toCamera, linkUp, camera,
                 requests, edits, exitBy, answered>>

RecvBegin ==
  /\ rx.pc = "idle" /\ fromCamera # <<>>
  /\ rx' = [pc |-> "copy", info |-> Head(fromCamera), todo |-> Parts]
  /\ fromCamera' = Tail(fromCamera)
  /\ UNCHANGED <<g_pIpcamAll, get_ipcam_info_once, req, job, toCamera, linkUp, camera,
                 requests, edits, exitBy, answered>>

\* memcpy promises no order.
RecvCopy ==
  /\ rx.pc = "copy"
  /\ \E p \in rx.todo :
       /\ g_pIpcamAll' = [g_pIpcamAll EXCEPT ![p] = rx.info[p]]
       /\ rx' = [rx EXCEPT !.todo = @ \ {p}]
  /\ UNCHANGED <<get_ipcam_info_once, req, job, toCamera, fromCamera, linkUp, camera,
                 requests, edits, exitBy, answered>>

RecvFlag ==
  /\ rx.pc = "copy" /\ rx.todo = {}
  /\ get_ipcam_info_once' = 1
  /\ answered' = [c \in Callers |->
                    answered[c] \/ (req[c].pc \in {"poll", "nap"} /\ req[c].count < MaxPoll)]
  /\ rx' = [rx EXCEPT !.pc = "size"]
  /\ UNCHANGED <<g_pIpcamAll, req, job, toCamera, fromCamera, linkUp, camera, requests,
                 edits, exitBy>>

RecvSize ==
  /\ rx.pc = "size"
  /\ g_pIpcamAll' = [g_pIpcamAll EXCEPT !["size"] = "two"]
  /\ rx' = [pc |-> "idle", info |-> Zeroed, todo |-> {}]
  /\ UNCHANGED <<get_ipcam_info_once, req, job, toCamera, fromCamera, linkUp, camera,
                 requests, edits, exitBy, answered>>

net_recv_enc_data == RecvBegin \/ RecvCopy \/ RecvFlag \/ RecvSize

-----------------------------------------------------------------------------
(* The camera (external) and the connection to it.                         *)

\* What a command changes of its settings.
Concerns(cmd) == CASE cmd = "CODE_SET" -> Encoders
                   [] cmd = "NET_SET"  -> {"ipv4"}
                   [] OTHER            -> {}

Camera ==
  /\ toCamera # <<>>
  /\ toCamera' = Tail(toCamera)
  /\ LET m == Head(toCamera)
     IN /\ camera' = [p \in Parts |-> IF p \in Concerns(m.cmd) THEN m.info[p]
                                      ELSE camera[p]]
        /\ IF m.cmd = "GET_ALL_INFO"
           THEN Len(fromCamera) < MaxInFlight /\ fromCamera' = Append(fromCamera, camera)
           ELSE UNCHANGED fromCamera
  /\ UNCHANGED <<g_pIpcamAll, get_ipcam_info_once, req, job, rx, linkUp, requests, edits,
                 exitBy, answered>>

\* The camera's settings also change without this process.
CameraEdit ==
  /\ edits < MaxEdits
  /\ edits' = edits + 1
  /\ \E p \in Parts \ {"size"}, v \in Asked : camera' = [camera EXCEPT ![p] = v]
  /\ UNCHANGED <<g_pIpcamAll, get_ipcam_info_once, req, job, rx, toCamera, fromCamera,
                 linkUp, requests, exitBy, answered>>

\* What is in flight is lost.  There is no reconnection.
LinkLost ==
  /\ linkUp
  /\ linkUp' = FALSE
  /\ toCamera' = <<>> /\ fromCamera' = <<>>
  /\ UNCHANGED <<g_pIpcamAll, get_ipcam_info_once, req, job, rx, camera, requests, edits,
                 exitBy, answered>>

-----------------------------------------------------------------------------

exited == exitBy # "nobody"

Step ==
  \/ \E c \in Callers : get_ipcam_all_info(c)
  \/ Refresh \/ BeginHandler \/ GetProfiles \/ Handling
  \/ net_recv_enc_data \/ Camera \/ CameraEdit \/ LinkLost

Next == \/ ~exited /\ Step
        \/ exited /\ UNCHANGED vars

\* The threads run and the link delivers; clients, the camera's own changes and its
\* answering in time are not assumed.
Fairness ==
  /\ \A c \in Callers : WF_vars(~exited /\ get_ipcam_all_info(c))
  /\ WF_vars(~exited /\ Refresh)
  /\ WF_vars(~exited /\ Handling)
  /\ WF_vars(~exited /\ net_recv_enc_data)
  /\ WF_vars(~exited /\ Camera)

Spec == Init /\ [][Next]_vars

FairSpec == Spec /\ Fairness

-----------------------------------------------------------------------------
(* Properties.                                                             *)

\* No client is answered from a copy any part of which has never been filled in:
\* main creates the threads and serves after the first complete answer.
ServeOnlyInitialised ==
  job.for # "start" => \A p \in Parts : g_pIpcamAll[p] # "zero"

\* What of the shared flag can be relied upon: a caller whose answer has come finds the
\* flag raised, unless the other has begun to ask since, and is itself still waiting.  No
\* answer is lost to a caller that waits alone (get_ipcam_all_info, line 5809).
AnswerLostOnlyToTheOther ==
  \A c \in Callers :
    answered[c] => \/ get_ipcam_info_once = 1
                   \/ \E d \in Callers \ {c} : req[d].pc \in {"send", "poll", "nap"}

\* get_ipcam_all_info comes back or ends the process, though its flag is shared: the
\* other caller may erase the answer, but not for ever.
EveryGetEnds ==
  \A c \in Callers :
    req[c].pc \in {"poll", "nap"} ~> exited \/ req[c].pc \notin {"poll", "nap"}

\* The refresh thread is a second watchdog of the link: when it is lost the process
\* ends, whatever the link's own check thread does.
DeadLinkEndsProcess == ~linkUp ~> exited

\* Once clients and camera leave the settings alone, the copy and the camera agree
\* again, whatever was overwritten, answered late or left by GetProfiles before.
CopyConverges ==
  <>exited \/ <>[](\A p \in Parts \ {"size"} : g_pIpcamAll[p] = camera[p])

\* onvif.c:5820 prints "not get ipcam all info! exit": the process is only ended by a
\* caller to whom no answer came before its last sleep.
ExitOnlyWithoutInfo == exited => ~answered[exitBy]

\* onvif.c:2181 prints the settings SetVideoEncoderConfiguration has "set": they are
\* the ones in the copy it then sends.
SetSendsWhatItLogged ==
  job.for \in {"code", "save"} /\ req["main"].pc = "asleep" =>
    g_pIpcamAll[job.part] = job.value
=============================================================================
