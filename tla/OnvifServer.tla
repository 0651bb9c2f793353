---------------------------- MODULE OnvifServer ----------------------------
(* The server around its link: main connects, asks the camera for its      *)
(* settings, creates the refresh thread and serves; the refresh thread     *)
(* asks over the link again and again.  Source: src/onvif.c, over NetLink. *)
(*                                                                         *)
(* Two watchdogs end the process: the link's check thread, and a caller of *)
(* get_ipcam_all_info to whom no answer comes.  Each can fail to: the      *)
(* check thread may cancel itself, and a caller may be kept by its send.   *)
(* What the answers hold, and what handlers ask while main serves, is      *)
(* ConfigSync's; here an answer only counts.                               *)
(***************************************************************************)
EXTENDS NetLink

CONSTANTS
  main, refresh,  \* the threads that ask
  MaxPoll,        \* polls of 100 ms for the answer: 20 (line 5818)
  MaxAsked        \* bound: questions the camera keeps in mind

ASSUME ServerAssumption ==
  /\ main # refresh /\ Senders = {main, refresh}
  /\ Modes = {"NET_SEND_DIRECT_MODE"}
  /\ MaxPoll \in Nat /\ MaxAsked \in Nat \ {0}

VARIABLES
  get,     \* get_ipcam_all_info of each thread: pc, count
  once,    \* get_ipcam_info_once
  asked,   \* questions that have arrived at the camera
  serving  \* main has created the threads: 1

svars == <<vars, get, once, asked, serving>>

At(p, n) == [pc |-> p, count |-> n]

STypeOK ==
  /\ TypeOK
  /\ get \in [Senders -> [pc : {"none", "idle", "begin", "send", "sending", "poll", "nap",
                                 "back"},
                          count : 0..MaxPoll]]
  /\ once \in {0, 1}
  /\ asked \in 0..MaxAsked
  /\ serving \in {0, 1}

SInit ==
  /\ Init
  /\ get = [s \in Senders |-> At(IF s = main THEN "begin" ELSE "none", 0)]
  /\ once = 0 /\ asked = 0 /\ serving = 0

-----------------------------------------------------------------------------
(* The link's steps, and what they mean to the server.                     *)

Unasked == UNCHANGED <<get, once, asked, serving>>

\* A message that is complete may be an answer: net_recv_enc_data sets the flag.
Receive ==
  /\ Receiving
  /\ \/ Unasked
     \/ /\ rx.pc = "read" /\ rx'.pc = "test" /\ asked > 0
        /\ once' = 1
        /\ asked' = asked - 1
        /\ UNCHANGED <<get, serving>>

\* A question that has gone out whole.
Send(s) ==
  /\ NM_net_send_data(s)
  /\ asked' = IF tx[s].pc = "call" /\ tx'[s].pc = "idle" /\ asked < MaxAsked
              THEN asked + 1 ELSE asked
  /\ UNCHANGED <<get, once, serving>>

-----------------------------------------------------------------------------
(* get_ipcam_all_info.                                                     *)

Asking(s, p, n) ==
  /\ get' = [get EXCEPT ![s] = At(p, n)]
  /\ UNCHANGED <<asked, serving>>

\* main asks when NM_connect has come back.
GetBegin(s) ==
  /\ get[s].pc = "begin" /\ conn = "up"
  /\ once' = 0
  /\ Asking(s, "send", 0)
  /\ UNCHANGED vars

\* Slip: a send that is refused is tried again.
GetSendAgain(s) ==
  /\ get[s].pc = "send"
  /\ SendBegin(s)
  /\ Asking(s, "sending", 0)
  /\ UNCHANGED once

\* NM_net_send_data refuses when the link has been taken down; no caller looks.
GetSend(s) ==
  /\ get[s].pc = "send"
  /\ \/ SendBegin(s) /\ Asking(s, "sending", 0)
     \/ pst.client = 0 /\ Asking(s, "poll", 0) /\ UNCHANGED vars
  /\ UNCHANGED once

GetSent(s) ==
  /\ get[s].pc = "sending" /\ tx[s].pc = "idle"
  /\ Asking(s, "poll", 0)
  /\ UNCHANGED <<vars, once>>

\* Slip: the flag is not looked at.
GetPollBlind(s) ==
  /\ get[s].pc = "poll"
  /\ Asking(s, "back", 0)
  /\ UNCHANGED <<vars, once>>

GetPoll(s) ==
  /\ get[s].pc = "poll"
  /\ IF once = 0 THEN Asking(s, "nap", get[s].count) ELSE Asking(s, "back", 0)
  /\ UNCHANGED <<vars, once>>

\* Slip: the polls are not counted.
GetNapUncounted(s) ==
  /\ get[s].pc = "nap"
  /\ Asking(s, "poll", 0)
  /\ UNCHANGED <<vars, once>>

GetNap(s) ==
  /\ get[s].pc = "nap"
  /\ IF get[s].count + 1 > MaxPoll
     THEN /\ exited' = TRUE
          /\ UNCHANGED <<pst, conn, rx, chk, txd, tx, cancel, lock, wire, peer, sock>>
          /\ UNCHANGED <<get, asked, serving>>
     ELSE /\ Asking(s, "poll", get[s].count + 1)
          /\ UNCHANGED vars
  /\ UNCHANGED once

get_ipcam_all_info(s) ==
  \/ GetBegin(s) \/ GetSend(s) \/ GetSent(s) \/ GetPoll(s) \/ GetNap(s)

-----------------------------------------------------------------------------
(* main after its first answer, and OnvifRecvMotionFunc.                   *)

\* pthread_create or soap_bind may fail, and soap_accept later: then main exits.
ServingEnds ==
  /\ get[main].pc = IF serving = 0 THEN "back" ELSE "idle"
  /\ exited' = TRUE
  /\ UNCHANGED <<pst, conn, rx, chk, txd, tx, cancel, lock, wire, peer, sock>>
  /\ Unasked

StartServing ==
  /\ get[main].pc = "back" /\ serving = 0
  /\ serving' = 1
  /\ get' = [s \in Senders |-> At("idle", 0)]
  /\ UNCHANGED <<vars, once, asked>>

OnvifRecvMotionFunc ==
  /\ get[refresh].pc \in {"idle", "back"}
  /\ Asking(refresh, IF get[refresh].pc = "idle" THEN "begin" ELSE "idle", 0)
  /\ UNCHANGED <<vars, once>>

-----------------------------------------------------------------------------

Main == StartServing \/ ServingEnds

SStep ==
  \/ (Connecting \/ Checking \/ PeerStep) /\ Unasked
  \/ Receive \/ Main \/ OnvifRecvMotionFunc
  \/ \E s \in Senders : Send(s) \/ get_ipcam_all_info(s)

SNext == \/ ~exited /\ SStep
         \/ exited /\ UNCHANGED svars

\* As in NetLink: the threads run, nothing is assumed of the camera or of clients.
SFairness ==
  /\ WF_svars(~exited /\ Connecting /\ Unasked)
  /\ WF_svars(~exited /\ Receive)
  /\ WF_svars(~exited /\ Checking /\ Unasked)
  /\ WF_svars(~exited /\ StartServing)
  /\ WF_svars(~exited /\ OnvifRecvMotionFunc)
  /\ \A s \in Senders : /\ WF_svars(~exited /\ Send(s))
                        /\ WF_svars(~exited /\ get_ipcam_all_info(s))

SSpec == SInit /\ [][SNext]_svars

FairServer == SSpec /\ SFairness

-----------------------------------------------------------------------------
(* Properties.                                                             *)

Life == INSTANCE ServerLife WITH
  life <- IF exited THEN "ended" ELSE IF conn # "up" THEN "connecting"
          ELSE IF serving = 0 THEN "asking" ELSE "serving",
  heard <- once = 1 \/ serving = 1

\* The server, over its link, implements ServerLife: the threads are created and
\* clients served only after an answer has come, and an end is for good.
ImplementsServerLife == Life!Spec

\* When the camera has closed the connection, or it broke, the process ends, though
\* the check thread may have cancelled itself before: the refresh thread is refused or
\* not answered then, and exits.
LostCameraEndsProcess ==
  <>[](conn # "start" /\ peer \in {"closed", "reset"}) => <>exited

\* When the camera stalls for good the process ends, or a thread is still in its
\* send(), the one place where get_ipcam_all_info does not count.
StalledCameraEndsOrBlocks ==
  <>[](conn # "start" /\ peer = "stalled")
    => <>[](exited \/ \E s \in Senders : tx[s].pc \in {"head", "call", "stop", "again"})
=============================================================================
