---------------------------- MODULE SoapHandlers ----------------------------
(* The SOAP handlers that use g_pIpcamAll step by step while the receive   *)
(* thread copies an answer of the camera over it: the searches for a       *)
(* profile or an encoder by its token, SetNetworkInterfaces with the check *)
(* of its address, GetSystemDateAndTime.  Source: src/onvif.c.             *)
(*                                                                         *)
(* Actors: the SOAP thread, which serves one request after the other, the  *)
(* refresh thread, the receive thread and the camera (external).  Of the   *)
(* copy only __sizeProfiles, net_st.ipv4 and sys_st.time_zone are kept:    *)
(* the tokens are the same in every answer.  Waiting that ends the process *)
(* and what SetVideoEncoderConfiguration sends are ConfigSync's.           *)
(***************************************************************************)
EXTENDS Ip4

CONSTANTS
  profiletoken, inputtoken, vcodetoken,  \* of profile_st, input and vcode, by index
  Tokens,       \* what a client may name
  NoToken,      \* the empty string
  CameraSize,   \* __sizeProfiles in the camera's answers
  Addresses,    \* what a client may write as an address
  factory,      \* the camera's address at first
  Zones,        \* what the camera's time_zone may be
  MaxInFlight,  \* bound: commands, and answers, under way
  MaxRequests,  \* bound: SOAP requests
  MaxEdits      \* bound: changes of the time zone at the camera

MAX_RTSP_NUM == 3

\* No address.
Absent == <<>>

\* What the stack holds where ipaddr is never written.
Garbage == -1

Ipv4 == [Bytes -> 0..255 \cup {Garbage}]

ASSUME HandlersAssumption ==
  /\ profiletoken \in [0..(MAX_RTSP_NUM - 1) -> Tokens]
  /\ inputtoken \in [0..(MAX_RTSP_NUM - 1) -> Tokens]
  /\ vcodetoken \in [0..(MAX_RTSP_NUM - 1) -> Tokens]
  /\ NoToken \in Tokens
  \* set_config_st_default gives the listed ones names, and the third encoder the second's
  /\ NoToken \notin {profiletoken[0], profiletoken[1]}
  /\ vcodetoken[2] \in {vcodetoken[0], vcodetoken[1]}
  /\ CameraSize \in 2..MAX_RTSP_NUM
  /\ Addresses \subseteq Seq(Characters) /\ factory \in [Bytes -> 0..255]
  /\ Zones \subseteq -12..12 /\ 0 \in Zones
  /\ MaxInFlight \in Nat \ {0} /\ MaxRequests \in Nat /\ MaxEdits \in Nat

VARIABLES
  size, ipv4, time_zone,  \* of g_pIpcamAll
  once,                   \* get_ipcam_info_once
  rx,                     \* net_recv_enc_data: before the copy, the flag, or line 3373
  toCamera, fromCamera,   \* the link, both ways
  camera,                 \* its address, the interface's too, and its time zone
  h,                      \* the handler: its locals and where it is
  reply,                  \* the last reply
  requests, edits

copy == <<size, ipv4, time_zone>>
link == <<toCamera, fromCamera>>
vars == <<copy, once, rx, link, camera, h, reply, requests, edits>>

Searches == {"GetStreamUri", "GetVideoEncoderConfiguration", "GetProfile",
             "GetVideoEncoderConfigurationOptions", "SetVideoEncoderConfiguration"}

\* The tokens a request holds, of a profile and of a configuration: two where the options
\* are asked for, one otherwise.
Names == [profile : Tokens, config : Tokens]

Nobody == [profile |-> NoToken, config |-> NoToken]

Ops == Searches \cup {"GetProfiles", "SetNetworkInterfaces", "GetSystemDateAndTime"}

NoOp == "none"

Indexes == 0..(MAX_RTSP_NUM + 1)

Handler ==
  [pc : {"idle", "ask", "wait", "size", "count", "search", "decide", "write", "address",
         "byte", "send", "zone", "tz", "utc"},
   op : Ops \cup {NoOp}, token : Names, stream : {0, 1}, i : Indexes,
   num : Indexes, found : {0, 1},
   str : Addresses \cup {Absent}, interface : {"NULL", "eth0"}, ipaddr : Ipv4,
   ntp_timezone : 0..24, tz : 0..24]

\* A reply carries the index served and num_tokens, or the zone's name and the offset.
Reply == [is : {"nothing", "ok", "fault", "ter:NoProfile", "ter:InvalidIPv4Address"},
          op : Ops \cup {NoOp}, token : Names, str : Addresses \cup {Absent},
          at : Indexes, num : Indexes, tz : 0..24, utc : -12..12]

TypeOK ==
  /\ size \in {2, CameraSize} /\ ipv4 \in Ipv4 /\ time_zone \in Zones
  /\ once \in {0, 1}
  /\ rx \in {"idle", "flag", "size"}
  /\ toCamera \in Seq([cmd : {"GET", "NET_SET"}, ipv4 : Ipv4])
  /\ fromCamera \in Seq([ipv4 : Ipv4, zone : Zones])
  /\ Len(toCamera) <= MaxInFlight /\ Len(fromCamera) <= MaxInFlight
  /\ camera \in [ipv4 : Ipv4, zone : Zones]
  /\ h \in Handler
  /\ reply \in Reply
  /\ requests \in 0..MaxRequests /\ edits \in 0..MaxEdits

Unset == [b \in Bytes |-> Garbage]

Idle == [pc |-> "idle", op |-> NoOp, token |-> Nobody, stream |-> 0, i |-> 0,
         num |-> 0, found |-> 0, str |-> Absent, interface |-> "NULL", ipaddr |-> Unset,
         ntp_timezone |-> 12, tz |-> 0]

\* main has seen the flag of the first answer; the receive thread is still in it.
Init ==
  /\ size = CameraSize /\ ipv4 = factory /\ time_zone = 0
  /\ once = 1
  /\ rx = "size"
  /\ toCamera = <<>> /\ fromCamera = <<>>
  /\ camera = [ipv4 |-> factory, zone |-> 0]
  /\ h = Idle
  /\ reply = [is |-> "nothing", op |-> NoOp, token |-> Nobody, str |-> Absent,
              at |-> 0, num |-> 0, tz |-> 0, utc |-> 0]
  /\ requests = 0 /\ edits = 0

-----------------------------------------------------------------------------
(* The camera, the receive thread, and those who ask.                      *)

CameraObeys ==
  /\ toCamera # <<>> /\ toCamera' = Tail(toCamera)
  /\ IF Head(toCamera).cmd = "GET"
     THEN /\ Len(fromCamera) < MaxInFlight
          /\ fromCamera' = Append(fromCamera, camera)
          /\ UNCHANGED camera
     ELSE /\ camera' = [camera EXCEPT !.ipv4 = Head(toCamera).ipv4]
          /\ UNCHANGED fromCamera
  /\ UNCHANGED <<copy, once, rx, h, reply, requests, edits>>

CameraEdit ==
  /\ edits < MaxEdits
  /\ edits' = edits + 1
  /\ \E z \in Zones : camera' = [camera EXCEPT !.zone = z]
  /\ UNCHANGED <<copy, once, rx, link, h, reply, requests>>

\* Slip: the copy is cleared before it is filled.
RecvCopyCleared ==
  /\ rx = "idle" /\ fromCamera # <<>>
  /\ size' \in {0, CameraSize}
  /\ ipv4' = Head(fromCamera).ipv4 /\ time_zone' = Head(fromCamera).zone
  /\ rx' = IF size' = 0 THEN "idle" ELSE "flag"
  /\ fromCamera' = IF size' = 0 THEN fromCamera ELSE Tail(fromCamera)
  /\ UNCHANGED <<once, toCamera, camera, h, reply, requests, edits>>

RecvCopy ==
  /\ rx = "idle" /\ fromCamera # <<>>
  /\ size' = CameraSize
  /\ ipv4' = Head(fromCamera).ipv4 /\ time_zone' = Head(fromCamera).zone
  /\ rx' = "flag"
  /\ fromCamera' = Tail(fromCamera)
  /\ UNCHANGED <<once, toCamera, camera, h, reply, requests, edits>>

RecvFlag ==
  /\ rx = "flag"
  /\ once' = 1
  /\ rx' = "size"
  /\ UNCHANGED <<copy, link, camera, h, reply, requests, edits>>

RecvSize ==
  /\ rx = "size"
  /\ size' = 2
  /\ rx' = "idle"
  /\ UNCHANGED <<ipv4, time_zone, once, link, camera, h, reply, requests, edits>>

net_recv_enc_data == RecvCopy \/ RecvFlag \/ RecvSize

\* get_ipcam_all_info up to its wait: it clears the flag and sends its request.
Ask ==
  /\ Len(toCamera) < MaxInFlight
  /\ toCamera' = Append(toCamera, [cmd |-> "GET", ipv4 |-> Unset])
  /\ once' = 0

\* By the refresh thread.
OnvifRecvMotionFunc ==
  /\ Ask
  /\ UNCHANGED <<copy, rx, fromCamera, camera, h, reply, requests, edits>>

\* By a handler, which waits: any answer will do.
GetAsk ==
  /\ h.pc = "ask"
  /\ Ask
  /\ h' = [h EXCEPT !.pc = "wait"]
  /\ UNCHANGED <<copy, rx, fromCamera, camera, reply, requests, edits>>

GetWait ==
  /\ h.pc = "wait" /\ once = 1
  /\ h' = [h EXCEPT !.pc = CASE h.op = "SetVideoEncoderConfiguration" -> "write"
                             [] h.op = "SetNetworkInterfaces"         -> "byte"
                             [] h.op = "GetSystemDateAndTime"         -> "zone"
                             [] OTHER                                 -> "size"]
  /\ UNCHANGED <<copy, once, rx, link, camera, reply, requests, edits>>

-----------------------------------------------------------------------------
(* A request comes in, and is answered.                                    *)

others == <<once, rx, link, camera, edits>>

Request(f) ==
  /\ h.pc = "idle" /\ requests < MaxRequests
  /\ requests' = requests + 1
  /\ h' = f
  /\ UNCHANGED <<copy, once, rx, link, camera, reply, edits>>

\* GetProfile and SetVideoEncoderConfiguration search before anything else.  The buffer of
\* a token that is absent is not initialised: it may hold any.
BeginSearch ==
  \E op \in Searches, t \in Names, s \in {0, 1} :
    /\ op # "GetVideoEncoderConfigurationOptions" => t.profile = t.config
    /\ s = 1 => op = "GetStreamUri"
    /\ Request([Idle EXCEPT
                  !.pc = IF op \in {"GetProfile", "SetVideoEncoderConfiguration"}
                         THEN "search" ELSE "ask",
                  !.op = op, !.token = t, !.stream = s])

BeginProfiles == Request([Idle EXCEPT !.pc = "decide", !.op = "GetProfiles"])

\* With a Manual entry: without one a DHCP client may be started, which is not modelled.
BeginNetwork ==
  \E s \in Addresses \cup {Absent}, i \in {"NULL", "eth0"} :
    Request([Idle EXCEPT !.pc = "address", !.op = "SetNetworkInterfaces",
                         !.str = s, !.interface = i])

BeginDate == Request([Idle EXCEPT !.pc = "ask", !.op = "GetSystemDateAndTime"])

Answer(is, at, tz, utc) ==
  /\ reply' = [is |-> is, op |-> h.op, token |-> h.token, str |-> h.str,
               at |-> at, num |-> h.num, tz |-> tz, utc |-> utc]
  /\ h' = Idle

Served(at) == Answer("ok", at, 0, 0)
Fault(why) == Answer(why, 0, 0, 0)

-----------------------------------------------------------------------------
(* The searches.                                                           *)

\* The token at an index.  Behind profile_st lies input, an array of the same layout;
\* 50 bytes behind vcode lies the upper half of isp_st.u16ExpTimeMin: an empty string.
ProfileAt(i) ==
  IF i < MAX_RTSP_NUM THEN profiletoken[i] ELSE inputtoken[i - MAX_RTSP_NUM]

EncoderAt(i) == IF i < MAX_RTSP_NUM THEN vcodetoken[i] ELSE NoToken

\* What the search of each handler compares.
Matches(op, token, i) ==
  \/ op # "GetVideoEncoderConfiguration" /\ token.profile = ProfileAt(i)
  \/ op \notin {"GetStreamUri", "GetProfile"} /\ token.config = EncoderAt(i)

InLoop(op, i) ==
  CASE op = "GetProfile"                   -> i < MAX_RTSP_NUM
    [] op = "SetVideoEncoderConfiguration" -> i <= size
    [] OTHER                               -> i < size

SetSize ==
  /\ h.pc = "size"
  /\ size' = 2
  /\ h' = [h EXCEPT !.pc = IF h.op = "GetVideoEncoderConfiguration" THEN "count"
                           ELSE "search"]
  /\ UNCHANGED <<ipv4, time_zone, others, reply, requests>>

\* The first loop of GetVideoEncoderConfiguration.
CountTokens ==
  /\ h.pc = "count"
  /\ IF h.i < size
     THEN h' = [h EXCEPT !.i = @ + 1,
                         !.num = IF Matches(h.op, h.token, h.i) THEN @ + 1 ELSE @]
     ELSE h' = [h EXCEPT !.i = 0, !.pc = "search"]
  /\ UNCHANGED <<copy, others, reply, requests>>

\* One turn of the loop: all but the options handler leave it when they have found.
Search ==
  /\ h.pc = "search"
  /\ IF ~InLoop(h.op, h.i) \/ (h.op = "GetProfile" /\ h.token.profile = NoToken)
     THEN h' = [h EXCEPT !.pc = "decide"]
     ELSE IF ~Matches(h.op, h.token, h.i) THEN h' = [h EXCEPT !.i = @ + 1]
     ELSE IF h.op = "GetVideoEncoderConfigurationOptions"
          THEN h' = [h EXCEPT !.found = 1, !.i = @ + 1]
          ELSE h' = [h EXCEPT !.found = 1, !.pc = "decide"]
  /\ UNCHANGED <<copy, others, reply, requests>>

\* Slip: decided like GetStreamUri, by the index.
DecideFoundByIndex ==
  /\ h.pc = "decide"
  /\ h.op \in {"GetVideoEncoderConfiguration", "GetProfile"}
  /\ IF h.i = size THEN Fault("ter:NoProfile") ELSE Served(h.i)
  /\ UNCHANGED <<copy, others, requests>>

DecideFound ==
  /\ h.pc = "decide"
  /\ h.op \in {"GetVideoEncoderConfiguration", "GetProfile"}
  /\ IF h.found = 0 THEN Fault("ter:NoProfile") ELSE Served(h.i)
  /\ UNCHANGED <<copy, others, requests>>

\* GetStreamUri compares its index with __sizeProfiles once more.  A Stream of 1 is
\* refused afterwards.
DecideStreamUri ==
  /\ h.pc = "decide" /\ h.op = "GetStreamUri"
  /\ CASE h.i = size                 -> Fault("ter:NoProfile")
       [] h.i # size /\ h.stream = 1 -> Fault("fault")
       [] OTHER                      -> Served(h.i)
  /\ UNCHANGED <<copy, others, requests>>

\* H264_profile is not initialised: an unknown token may find it set.  Not set, the
\* answer holds no options, which counts as a fault here.
DecideOptions ==
  /\ h.pc = "decide" /\ h.op = "GetVideoEncoderConfigurationOptions"
  /\ \/ Served(h.i)
     \/ h.found = 0 /\ Fault("ter:NoProfile")
  /\ UNCHANGED <<copy, others, requests>>

DecideSet ==
  /\ h.pc = "decide" /\ h.op = "SetVideoEncoderConfiguration"
  /\ IF h.found = 0 THEN Fault("ter:NoProfile")
     ELSE h' = [h EXCEPT !.pc = "ask"] /\ UNCHANGED reply
  /\ UNCHANGED <<copy, others, requests>>

\* vcode[i] is written, then all is sent (ConfigSync).
SetWrite ==
  /\ h.pc = "write"
  /\ Served(h.i)
  /\ UNCHANGED <<copy, others, requests>>

\* soap_malloc for __sizeProfiles of them: then two are written.
GetProfiles ==
  /\ h.pc = "decide" /\ h.op = "GetProfiles"
  /\ Served(size)
  /\ UNCHANGED <<copy, others, requests>>

-----------------------------------------------------------------------------
(* SetNetworkInterfaces.                                                   *)

\* The request may name another interface, which is refused at once, or the interface
\* have no address to compare with.
SetAddress ==
  /\ h.pc = "address"
  /\ \/ h.interface = "eth0" /\ Fault("fault")
     \/ /\ h.str # Absent /\ ~isValidIp4(h.str)
        /\ Fault("ter:InvalidIPv4Address")
     \/ /\ h.str # Absent /\ isValidIp4(h.str) /\ Refused(h.str)
        /\ Fault("fault")
     \/ LET ipaddr == IF h.str = Absent THEN Unset ELSE inet_aton(h.str)
        IN  /\ h.str # Absent => isValidIp4(h.str) /\ ~Refused(h.str)
            /\ IF h.interface = "NULL" \/ camera.ipv4 = ipaddr
               THEN Served(0)
               ELSE h' = [h EXCEPT !.pc = "ask", !.ipaddr = ipaddr] /\ UNCHANGED reply
  /\ UNCHANGED <<copy, others, requests>>

SetByte ==
  /\ h.pc = "byte"
  /\ ipv4' = [ipv4 EXCEPT ![h.i + 1] = h.ipaddr[h.i + 1]]
  /\ h' = [h EXCEPT !.i = @ + 1, !.pc = IF h.i = 3 THEN "send" ELSE "byte"]
  /\ UNCHANGED <<size, time_zone, others, reply, requests>>

IpcamSetValue ==
  /\ h.pc = "send" /\ Len(toCamera) < MaxInFlight
  /\ toCamera' = Append(toCamera, [cmd |-> "NET_SET", ipv4 |-> ipv4])
  /\ Served(0)
  /\ UNCHANGED <<copy, once, rx, fromCamera, camera, requests, edits>>

-----------------------------------------------------------------------------
(* GetSystemDateAndTime.                                                   *)

GetZone ==
  /\ h.pc = "zone"
  /\ h' = [h EXCEPT !.pc = "tz", !.ntp_timezone = time_zone + 12]
  /\ UNCHANGED <<copy, others, reply, requests>>

\* oget_timezone: the name at that index of _TZ_name.
GetName ==
  /\ h.pc = "tz"
  /\ h' = [h EXCEPT !.pc = "utc", !.tz = h.ntp_timezone]
  /\ UNCHANGED <<copy, others, reply, requests>>

\* Slip: the offset is read from the copy again.
GetUtcAgain ==
  /\ h.pc = "utc"
  /\ Answer("ok", 0, h.tz, time_zone)
  /\ UNCHANGED <<copy, others, requests>>

GetUtc ==
  /\ h.pc = "utc"
  /\ Answer("ok", 0, h.tz, h.ntp_timezone - 12)
  /\ UNCHANGED <<copy, others, requests>>

-----------------------------------------------------------------------------

Begin == BeginSearch \/ BeginProfiles \/ BeginNetwork \/ BeginDate

Searching == SetSize \/ CountTokens \/ Search \/ DecideFound \/ DecideStreamUri
             \/ DecideOptions \/ DecideSet \/ SetWrite \/ GetProfiles

SetNetworkInterfaces == SetAddress \/ SetByte \/ IpcamSetValue

GetSystemDateAndTime == GetZone \/ GetName \/ GetUtc

Next ==
  \/ CameraObeys \/ CameraEdit \/ net_recv_enc_data \/ OnvifRecvMotionFunc
  \/ Begin \/ GetAsk \/ GetWait
  \/ Searching \/ SetNetworkInterfaces \/ GetSystemDateAndTime

Spec == Init /\ [][Next]_vars

-----------------------------------------------------------------------------
(* Properties.                                                             *)

\* GetProfile and GetVideoEncoderConfiguration answer with the profile or encoder the
\* client has named, and the latter counts it as used, whatever the receive thread does
\* to __sizeProfiles between the turns of their loops.
AnswerIsWhatWasAsked ==
  reply.op \in {"GetVideoEncoderConfiguration", "GetProfile"} /\ reply.is = "ok" =>
    /\ Matches(reply.op, reply.token, reply.at)
    /\ reply.op = "GetVideoEncoderConfiguration" => reply.num >= 1

\* A client that names one of the two profiles, or encoders, GetProfiles lists is never
\* refused because an answer of the camera comes in during the search, and GetProfiles
\* never writes more profiles than it has made room for.
KnownTokenIsServed ==
  /\ reply.is = "ter:NoProfile" => \A i \in {0, 1} : ~Matches(reply.op, reply.token, i)
  /\ reply.op = "GetProfiles" => reply.at >= 2

\* The UTC time and the time zone of one answer go together, though the receive thread
\* may change time_zone while the answer is being written (GetSystemDateAndTime).
DateIsConsistent ==
  reply.op = "GetSystemDateAndTime" /\ reply.is = "ok" => reply.utc = reply.tz - 12

\* SetNetworkInterfaces refuses an address as invalid only if it is not four decimal
\* numbers of at most 255 with a dot between two of them, and is content with it, or
\* goes on with it, only if it is (isValidIp4).
RefusesAllButDottedQuads ==
  /\ reply.is = "ter:InvalidIPv4Address" => ~IsDottedQuad(reply.str)
  /\ reply.op = "SetNetworkInterfaces" /\ reply.is = "ok" /\ reply.str # Absent
     => IsDottedQuad(reply.str)
  /\ h.op = "SetNetworkInterfaces" /\ h.pc # "address" /\ h.str # Absent
     => IsDottedQuad(h.str)

\* onvif.c:2347, "ter:NoProfile": GetStreamUri answers only for a profile there is.
StreamUriOnlyOfProfile ==
  reply.op = "GetStreamUri" /\ reply.is = "ok" => Matches(reply.op, reply.token, reply.at)

\* onvif.c:1249, "Check IP address": the camera is told to take no other address than
\* one a client has named, and SetNetworkInterfaces has checked, or its own.
SendsCheckedAddress ==
  \A k \in 1..Len(toCamera) : toCamera[k].cmd = "NET_SET" =>
    \/ toCamera[k].ipv4 = factory
    \/ \E s \in Addresses : IsDottedQuad(s) /\ toCamera[k].ipv4 = inet_aton(s)
=============================================================================
