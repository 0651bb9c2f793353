------------------------- MODULE SoapHandlersProofs -------------------------
(* What SoapHandlers guarantees for any tokens, addresses, time zones and  *)
(* numbers of requests: what the searches, GetSystemDateAndTime and the    *)
(* check of an address answer, and its types.                              *)
EXTENDS SoapHandlers, Ip4Proofs

-----------------------------------------------------------------------------
(* The invariant.                                                          *)

Places == {"idle", "ask", "wait", "size", "count", "search", "decide", "write", "address",
           "byte", "send", "zone", "tz", "utc"}

\* The handler's locals: nothing is said of the address and the zone.
Locals ==
  [pc : Places, op : Ops \cup {NoOp}, token : Names, stream : {0, 1}, i : Nat, num : Nat,
   found : {0, 1}, str : {h.str}, interface : {h.interface}, ipaddr : {h.ipaddr},
   ntp_timezone : {h.ntp_timezone}, tz : {h.tz}]

SizeInv == size \in {2, CameraSize}

\* The searches that ask the camera first.
Getters == {"GetStreamUri", "GetVideoEncoderConfiguration",
            "GetVideoEncoderConfigurationOptions"}

\* Which handler is at which place.
PlaceInv ==
  /\ h.pc \in {"ask", "wait"} =>
       h.op \in Getters \cup {"SetVideoEncoderConfiguration", "SetNetworkInterfaces",
                              "GetSystemDateAndTime"}
  /\ h.pc = "size" => h.op \in Getters
  /\ h.pc = "count" => h.op = "GetVideoEncoderConfiguration"
  /\ h.pc = "search" => h.op \in Searches
  /\ h.pc = "decide" => h.op \in Searches \cup {"GetProfiles"}
  /\ h.pc = "write" => h.op = "SetVideoEncoderConfiguration"
  /\ h.pc \in {"address", "byte", "send"} => h.op = "SetNetworkInterfaces"
  /\ h.pc \in {"zone", "tz", "utc"} => h.op = "GetSystemDateAndTime"

Match(j) == Matches(h.op, h.token, j)

\* The client has named something GetProfiles lists.
Listed == \E j \in {0, 1} : Match(j)

\* The handlers that ask before they search have not begun to.
FreshInv ==
  h.pc \in {"ask", "wait", "size"} /\ h.op \in Getters =>
    h.i = 0 /\ h.found = 0 /\ h.num = 0

\* The first loop counts a listed encoder, even if it stops short of the third.
CountInv ==
  h.op = "GetVideoEncoderConfiguration" =>
    /\ h.pc = "count" =>
         h.found = 0 /\ ((\E j \in 0..(h.i - 1) : Match(j)) => h.num >= 1)
    /\ h.pc \in {"search", "decide"} => (Listed => h.num >= 1)

\* Nothing behind a search matches; what was found does.
SearchInv ==
  h.pc = "search" =>
    /\ h.found = 0 => \A j \in 0..(h.i - 1) : ~Match(j)
    /\ h.found = 1 => h.op = "GetVideoEncoderConfigurationOptions"

FoundInv ==
  h.pc = "decide" /\ h.op \in Searches =>
    /\ h.found = 0 => ~Listed
    /\ h.found = 1 /\ h.op # "GetVideoEncoderConfigurationOptions" =>
         /\ Match(h.i)
         /\ \A j \in 0..(h.i - 1) : ~Match(j)
         /\ h.op \in {"GetProfile", "GetVideoEncoderConfiguration"} => h.i \in 0..2

\* Both halves of the date come from one reading of time_zone.
DateInv == h.pc = "utc" => h.tz = h.ntp_timezone

HandlerInv ==
  /\ SizeInv /\ h \in Locals /\ PlaceInv
  /\ FreshInv /\ CountInv /\ SearchInv /\ FoundInv /\ DateInv

ReplyInv == AnswerIsWhatWasAsked /\ KnownTokenIsServed /\ DateIsConsistent

-----------------------------------------------------------------------------
(* The parts of a step.                                                    *)

LEMMA NobodyNamed == Nobody \in Names
  BY HandlersAssumption DEF HandlersAssumption, Nobody, Names

LEMMA SoapInit == Init => HandlerInv /\ ReplyInv
  BY HandlersAssumption, NobodyNamed
  DEF HandlersAssumption, Init, Idle, NoOp, Searches, Ops, Getters, Places, HandlerInv,
      Locals, SizeInv, PlaceInv, FreshInv, CountInv, SearchInv, FoundInv, DateInv,
      ReplyInv, AnswerIsWhatWasAsked, KnownTokenIsServed, DateIsConsistent

LEMMA ReplyKept ==
  ASSUME ReplyInv, UNCHANGED reply
  PROVE  ReplyInv'
  BY DEF ReplyInv, AnswerIsWhatWasAsked, KnownTokenIsServed, DateIsConsistent

\* A step of another thread, __sizeProfiles included.
LEMMA HandlerKept ==
  ASSUME HandlerInv, UNCHANGED h, SizeInv'
  PROVE  HandlerInv'
  BY DEF HandlerInv, Locals, PlaceInv, Match, Listed, FreshInv, CountInv, SearchInv,
     FoundInv, DateInv

\* A handler that is not at its work: just begun, or before it asks, or over.
LEMMA HandlerFresh ==
  ASSUME SizeInv', h' \in Locals', PlaceInv',
         h'.pc \in {"idle", "ask", "address", "decide"},
         h'.pc = "decide" => h'.op = "GetProfiles",
         h'.pc = "ask" /\ h'.op \in Getters => (h'.i = 0 /\ h'.found = 0 /\ h'.num = 0)
  PROVE  HandlerInv'
  BY DEF HandlerInv, FreshInv, CountInv, SearchInv, FoundInv, DateInv, Searches

LEMMA HandlerEnds ==
  ASSUME h' = Idle, SizeInv'
  PROVE  HandlerInv'
  <1>1. h' \in Locals' /\ h'.pc = "idle"
    BY NobodyNamed DEF Idle, Locals, Places
  <1>2. PlaceInv'
    BY <1>1 DEF PlaceInv
  <1>3. /\ h'.pc \in {"idle", "ask", "address", "decide"}
        /\ h'.pc # "ask" /\ h'.pc # "decide"
    BY <1>1
  <1> QED
    BY <1>1, <1>2, <1>3, HandlerFresh

LEMMA OtherSteps ==
  ASSUME HandlerInv, CameraObeys \/ CameraEdit \/ net_recv_enc_data \/ OnvifRecvMotionFunc
  PROVE  UNCHANGED <<h, reply>> /\ SizeInv'
  BY DEF HandlerInv, SizeInv, CameraObeys, CameraEdit, net_recv_enc_data, RecvCopy,
     RecvFlag, RecvSize, OnvifRecvMotionFunc, copy, link

\* What matches stays the same while the handler is at one request.
LEMMA MatchKept ==
  ASSUME h'.op = h.op, h'.token = h.token
  PROVE  (\A j : Match(j)' = Match(j)) /\ Listed' = Listed
  BY DEF Match, Listed

\* Where everything behind an index of at least 2 fails to match, nothing listed does.
LEMMA NothingListed ==
  ASSUME NEW n \in Nat, n >= 2, \A j \in 0..(n - 1) : ~Match(j)
  PROVE  ~Listed
  BY DEF Listed

\* The third encoder has the name of a listed one.
LEMMA EncoderListed ==
  ASSUME h.op = "GetVideoEncoderConfiguration", NEW n \in 0..2, Match(n)
  PROVE  Listed
  BY HandlersAssumption
  DEF HandlersAssumption, Match, Matches, EncoderAt, Listed, MAX_RTSP_NUM
-----------------------------------------------------------------------------
(* The handler's steps.                                                    *)

\* A request begins.
LEMMA BeginStep ==
  ASSUME HandlerInv, Begin
  PROVE  HandlerInv' /\ UNCHANGED reply
  <1> USE HandlersAssumption, NobodyNamed DEF HandlersAssumption
  <1>1. SizeInv' /\ UNCHANGED reply
    BY DEF Begin, BeginSearch, BeginProfiles, BeginNetwork, BeginDate, Request, copy,
       HandlerInv, SizeInv
  <1>2. ASSUME NEW op \in Searches, NEW t \in Names, NEW s \in {0, 1},
               h' = [Idle EXCEPT !.pc = "search", !.op = op, !.token = t, !.stream = s],
               op \in {"GetProfile", "SetVideoEncoderConfiguration"}
        PROVE  HandlerInv'
    <2>1. /\ h'.pc = "search" /\ h'.op = op /\ h'.i = 0 /\ h'.found = 0
      BY <1>2 DEF Idle
    <2>2. h' \in Locals'
      <3>1. h' = [pc |-> "search", op |-> op, token |-> t, stream |-> s, i |-> 0, num |-> 0,
                  found |-> 0, str |-> Absent, interface |-> "NULL", ipaddr |-> Unset,
                  ntp_timezone |-> 12, tz |-> 0]
        BY <1>2 DEF Idle
      <3>2. op \in Ops \cup {NoOp} /\ "search" \in Places
        BY DEF Ops, Places
      <3> QED
        BY <3>1, <3>2 DEF Locals
    <2> QED
      BY <1>1, <1>2, <2>1, <2>2
      DEF HandlerInv, PlaceInv, FreshInv, CountInv, SearchInv, FoundInv, DateInv
  <1>3. ASSUME NEW op \in Searches, NEW t \in Names, NEW s \in {0, 1},
               h' = [Idle EXCEPT !.pc = "ask", !.op = op, !.token = t, !.stream = s],
               op \notin {"GetProfile", "SetVideoEncoderConfiguration"}
        PROVE  HandlerInv'
    <2>1. /\ h'.pc = "ask" /\ h'.op = op
          /\ h'.i = 0 /\ h'.found = 0 /\ h'.num = 0
      BY <1>3 DEF Idle
    <2>2. h' \in Locals'
      <3>1. h' = [pc |-> "ask", op |-> op, token |-> t, stream |-> s, i |-> 0, num |-> 0,
                  found |-> 0, str |-> Absent, interface |-> "NULL", ipaddr |-> Unset,
                  ntp_timezone |-> 12, tz |-> 0]
        BY <1>3 DEF Idle
      <3>2. op \in Ops \cup {NoOp} /\ "ask" \in Places
        BY DEF Ops, Places
      <3> QED
        BY <3>1, <3>2 DEF Locals
    <2>3. PlaceInv'
      BY <1>3, <2>1 DEF PlaceInv, Searches, Getters
    <2> QED
      BY <1>1, <2>1, <2>2, <2>3, HandlerFresh
  <1>4. CASE BeginSearch
    BY <1>2, <1>3, <1>4 DEF BeginSearch, Request
  <1>5. CASE BeginProfiles
    <2>1. h'.pc = "decide" /\ h'.op = "GetProfiles"
      BY <1>5 DEF BeginProfiles, Request, Idle
    <2>2. h' \in Locals'
      BY <1>5 DEF BeginProfiles, Request, Idle, Locals, Places, Ops
    <2>3. PlaceInv'
      BY <2>1 DEF PlaceInv
    <2> QED
      BY <1>1, <2>1, <2>2, <2>3, HandlerFresh
  <1>6. CASE BeginNetwork
    <2> PICK s \in Addresses \cup {Absent}, i \in {"NULL", "eth0"} :
               h' = [Idle EXCEPT !.pc = "address", !.op = "SetNetworkInterfaces",
                                 !.str = s, !.interface = i]
      BY <1>6 DEF BeginNetwork, Request
    <2>1. h'.pc = "address" /\ h'.op = "SetNetworkInterfaces"
      BY DEF Idle
    <2>2. h' \in Locals'
      BY DEF Idle, Locals, Places, Ops
    <2>3. PlaceInv'
      BY <2>1 DEF PlaceInv
    <2> QED
      BY <1>1, <2>1, <2>2, <2>3, HandlerFresh
  <1>7. CASE BeginDate
    <2>1. h'.pc = "ask" /\ h'.op = "GetSystemDateAndTime"
      BY <1>7 DEF BeginDate, Request, Idle
    <2>2. h' \in Locals'
      BY <1>7 DEF BeginDate, Request, Idle, Locals, Places, Ops
    <2>3. PlaceInv'
      BY <2>1 DEF PlaceInv
    <2>4. h'.op \notin Getters
      BY <2>1 DEF Getters
    <2> QED
      BY <1>1, <2>1, <2>2, <2>3, <2>4, HandlerFresh
  <1> QED
    BY <1>1, <1>4, <1>5, <1>6, <1>7 DEF Begin

\* It asks the camera, and waits.
LEMMA AskStep ==
  ASSUME HandlerInv, GetAsk \/ GetWait
  PROVE  HandlerInv' /\ UNCHANGED reply
  <1>1. SizeInv' /\ UNCHANGED reply
    BY DEF GetAsk, GetWait, copy, HandlerInv, SizeInv
  <1>2. CASE GetAsk
    <2>1. /\ h.pc = "ask" /\ h'.pc = "wait" /\ h'.op = h.op
          /\ h'.i = h.i /\ h'.found = h.found /\ h'.num = h.num
      BY <1>2 DEF GetAsk, HandlerInv, Locals
    <2>2. h' \in Locals'
      BY <1>2 DEF GetAsk, HandlerInv, Locals, Places
    <2> QED
      BY <1>1, <2>1, <2>2
      DEF HandlerInv, PlaceInv, FreshInv, CountInv, SearchInv, FoundInv, DateInv
  <1>3. CASE GetWait
    <2> DEFINE next == CASE h.op = "SetVideoEncoderConfiguration" -> "write"
                         [] h.op = "SetNetworkInterfaces"         -> "byte"
                         [] h.op = "GetSystemDateAndTime"         -> "zone"
                         [] OTHER                                 -> "size"
    <2>1. h' = [h EXCEPT !.pc = next] /\ h.pc = "wait"
      BY <1>3 DEF GetWait
    <2>2. /\ next \in {"write", "byte", "zone", "size"}
          /\ next = "write" => h.op = "SetVideoEncoderConfiguration"
          /\ next = "byte" => h.op = "SetNetworkInterfaces"
          /\ next = "zone" => h.op = "GetSystemDateAndTime"
          /\ next = "size" => h.op \in Getters
      BY <2>1 DEF HandlerInv, PlaceInv
    <2> HIDE DEF next
    <2>3. /\ h'.pc = next /\ h'.op = h.op
          /\ h'.i = h.i /\ h'.found = h.found /\ h'.num = h.num
      BY <2>1 DEF HandlerInv, Locals
    <2>4. h' \in Locals'
      BY <2>1, <2>2 DEF HandlerInv, Locals, Places
    <2> QED
      BY <1>1, <2>1, <2>2, <2>3, <2>4
      DEF HandlerInv, PlaceInv, FreshInv, CountInv, SearchInv, FoundInv, DateInv
  <1> QED
    BY <1>1, <1>2, <1>3

\* The searches begin: nothing has been compared yet.
LEMMA SizeStep ==
  ASSUME HandlerInv, SetSize
  PROVE  HandlerInv' /\ UNCHANGED reply
  <1>1. SizeInv' /\ UNCHANGED reply /\ h.pc = "size"
    BY DEF SetSize, SizeInv
  <1>2. h.op \in Getters /\ h.i = 0 /\ h.found = 0
    BY <1>1 DEF HandlerInv, PlaceInv, FreshInv
  <1>3. /\ h'.pc = IF h.op = "GetVideoEncoderConfiguration" THEN "count" ELSE "search"
        /\ h'.op = h.op /\ h'.i = 0 /\ h'.found = 0
    BY <1>2 DEF SetSize, HandlerInv, Locals
  <1>4. h' \in Locals'
    <2>1. CASE h.op = "GetVideoEncoderConfiguration"
      <3>1. h' = [h EXCEPT !.pc = "count"]
        BY <2>1 DEF SetSize
      <3> QED
        BY <3>1 DEF HandlerInv, Locals, Places
    <2>2. CASE h.op # "GetVideoEncoderConfiguration"
      <3>1. h' = [h EXCEPT !.pc = "search"]
        BY <2>2 DEF SetSize
      <3> QED
        BY <3>1 DEF HandlerInv, Locals, Places
    <2> QED
      BY <2>1, <2>2
  <1> QED
    BY <1>1, <1>2, <1>3, <1>4
    DEF HandlerInv, PlaceInv, FreshInv, CountInv, SearchInv, FoundInv, DateInv, Getters,
        Searches
\* A turn of the first loop of GetVideoEncoderConfiguration, or its end.
LEMMA CountStep ==
  ASSUME HandlerInv, CountTokens
  PROVE  HandlerInv' /\ UNCHANGED reply
  <1>1. SizeInv' /\ UNCHANGED reply /\ h.pc = "count"
    BY DEF CountTokens, copy, HandlerInv, SizeInv
  <1>2. /\ h.op = "GetVideoEncoderConfiguration"
        /\ h.found = 0 /\ h.i \in Nat /\ h.num \in Nat
        /\ (\E j \in 0..(h.i - 1) : Match(j)) => h.num >= 1
    BY <1>1 DEF HandlerInv, PlaceInv, CountInv, Locals
  <1>3. CASE h.i < size
    <2> DEFINE num == IF Match(h.i) THEN h.num + 1 ELSE h.num
    <2>1. (\E j \in 0..h.i : Match(j)) => num >= 1
      BY <1>2
    <2> DEFINE i == h.i + 1
    <2>2. i \in Nat /\ h.i \in Nat /\ 0..(i - 1) = 0..h.i
      BY <1>2
    <2>3. h' = [h EXCEPT !.i = i, !.num = num]
      BY <1>3 DEF CountTokens, Match, HandlerInv, Locals
    <2>4. num \in Nat
      BY <1>2
    <2> HIDE DEF num, i
    <2>5. /\ h'.pc = "count" /\ h'.op = h.op /\ h'.token = h.token
          /\ h'.i = i /\ h'.found = 0 /\ h'.num = num
      BY <1>1, <1>2, <2>3 DEF HandlerInv, Locals
    <2>6. h' \in Locals'
      BY <2>2, <2>3, <2>4 DEF HandlerInv, Locals
    <2>7. (\E j \in 0..(h'.i - 1) : Match(j)') => h'.num >= 1
      <3> SUFFICES ASSUME NEW j \in 0..(h'.i - 1), Match(j)' PROVE h'.num >= 1
        OBVIOUS
      <3>1. Match(j)
        BY <2>5, MatchKept
      <3>2. j \in 0..h.i
        BY <2>2, <2>5
      <3> QED
        BY <2>1, <2>5, <3>1, <3>2
    <2> QED
      BY <1>1, <1>2, <2>5, <2>6, <2>7
      DEF HandlerInv, PlaceInv, FreshInv, CountInv, SearchInv, FoundInv, DateInv
  <1>4. CASE ~(h.i < size)
    <2>1. h' = [h EXCEPT !.i = 0, !.pc = "search"]
      BY <1>4 DEF CountTokens
    <2>2. /\ h'.pc = "search" /\ h'.op = h.op /\ h'.token = h.token
          /\ h'.i = 0 /\ h'.found = 0 /\ h'.num = h.num
      BY <1>2, <2>1 DEF HandlerInv, Locals
    <2>3. h' \in Locals'
      BY <2>1 DEF HandlerInv, Locals, Places
    <2>4. size >= 2 /\ size \in Nat
      BY HandlersAssumption DEF HandlersAssumption, MAX_RTSP_NUM, HandlerInv, SizeInv
    <2>5. Listed' => h'.num >= 1
      BY <1>2, <1>4, <2>2, <2>4, MatchKept DEF Listed
    <2> QED
      BY <1>1, <1>2, <2>2, <2>3, <2>5
      DEF HandlerInv, PlaceInv, FreshInv, CountInv, SearchInv, FoundInv, DateInv, Searches
  <1> QED
    BY <1>1, <1>3, <1>4

\* A turn of a search, or its end.
LEMMA SearchStep ==
  ASSUME HandlerInv, Search
  PROVE  HandlerInv' /\ UNCHANGED reply
  <1>1. SizeInv' /\ UNCHANGED reply /\ h.pc = "search"
    BY DEF Search, copy, HandlerInv, SizeInv
  <1>2. /\ h.op \in Searches /\ h.i \in Nat /\ h.num \in Nat /\ h.found \in {0, 1}
        /\ h.found = 0 => \A j \in 0..(h.i - 1) : ~Match(j)
        /\ h.found = 1 => h.op = "GetVideoEncoderConfigurationOptions"
        /\ h.op = "GetVideoEncoderConfiguration" => (Listed => h.num >= 1)
    BY <1>1 DEF HandlerInv, PlaceInv, SearchInv, CountInv, Locals
  <1>3. size >= 2 /\ size <= 3 /\ size \in Nat
    BY HandlersAssumption DEF HandlersAssumption, MAX_RTSP_NUM, HandlerInv, SizeInv
  <1>4. CASE ~InLoop(h.op, h.i) \/ (h.op = "GetProfile" /\ h.token.profile = NoToken)
    <2>1. h' = [h EXCEPT !.pc = "decide"]
      BY <1>4 DEF Search
    <2>2. /\ h'.pc = "decide" /\ h'.op = h.op /\ h'.token = h.token
          /\ h'.i = h.i /\ h'.found = h.found /\ h'.num = h.num
      BY <2>1 DEF HandlerInv, Locals
    <2>3. h' \in Locals'
      BY <2>1 DEF HandlerInv, Locals, Places
    <2>4. ASSUME h.found = 0, ~InLoop(h.op, h.i)
          PROVE  ~Listed
      <3>1. h.i >= 2
        BY <1>2, <1>3, <2>4 DEF InLoop, MAX_RTSP_NUM
      <3> QED
        BY <1>2, <2>4, <3>1, NothingListed
    <2>5. ASSUME h.op = "GetProfile", h.token.profile = NoToken
          PROVE  ~Listed
      BY <2>5, HandlersAssumption
      DEF HandlersAssumption, Listed, Match, Matches, ProfileAt, MAX_RTSP_NUM
    <2>6. h.found = 0 => ~Listed
      BY <1>4, <2>4, <2>5
    <2> QED
      BY <1>1, <1>2, <2>2, <2>3, <2>6, MatchKept
      DEF HandlerInv, PlaceInv, FreshInv, CountInv, SearchInv, FoundInv, DateInv
  <1>5. CASE /\ InLoop(h.op, h.i) /\ ~(h.op = "GetProfile" /\ h.token.profile = NoToken)
             /\ ~Match(h.i)
    <2> DEFINE i == h.i + 1
    <2>1. i \in Nat /\ (\A j \in 0..(i - 1) : j = h.i \/ j \in 0..(h.i - 1))
      BY <1>2
    <2>2. h' = [h EXCEPT !.i = i]
      BY <1>5 DEF Search, Match, HandlerInv, Locals
    <2> HIDE DEF i
    <2>3. /\ h'.pc = "search" /\ h'.op = h.op /\ h'.token = h.token
          /\ h'.i = i /\ h'.found = h.found /\ h'.num = h.num
      BY <1>1, <2>2 DEF HandlerInv, Locals
    <2>4. h' \in Locals'
      BY <2>1, <2>2 DEF HandlerInv, Locals
    <2>5. h'.found = 0 => \A j \in 0..(h'.i - 1) : ~Match(j)'
      BY <1>2, <1>5, <2>1, <2>3, MatchKept
    <2> QED
      BY <1>1, <1>2, <2>3, <2>4, <2>5, MatchKept
      DEF HandlerInv, PlaceInv, FreshInv, CountInv, SearchInv, FoundInv, DateInv
  <1>6. CASE /\ InLoop(h.op, h.i) /\ ~(h.op = "GetProfile" /\ h.token.profile = NoToken)
             /\ Match(h.i) /\ h.op = "GetVideoEncoderConfigurationOptions"
    <2> DEFINE i == h.i + 1
    <2>1. i \in Nat
      BY <1>2
    <2>2. h' = [h EXCEPT !.found = 1, !.i = i]
      BY <1>6 DEF Search, Match, HandlerInv, Locals
    <2> HIDE DEF i
    <2>3. h'.pc = "search" /\ h'.op = h.op /\ h'.found = 1
      BY <1>1, <2>2 DEF HandlerInv, Locals
    <2>4. h' \in Locals'
      BY <2>1, <2>2 DEF HandlerInv, Locals
    <2> QED
      BY <1>1, <1>2, <1>6, <2>3, <2>4
      DEF HandlerInv, PlaceInv, FreshInv, CountInv, SearchInv, FoundInv, DateInv
  <1>7. CASE /\ InLoop(h.op, h.i) /\ ~(h.op = "GetProfile" /\ h.token.profile = NoToken)
             /\ Match(h.i) /\ h.op # "GetVideoEncoderConfigurationOptions"
    <2>1. h' = [h EXCEPT !.found = 1, !.pc = "decide"]
      BY <1>7 DEF Search, Match
    <2>2. /\ h'.pc = "decide" /\ h'.op = h.op /\ h'.token = h.token
          /\ h'.i = h.i /\ h'.found = 1 /\ h'.num = h.num
      BY <2>1 DEF HandlerInv, Locals
    <2>3. h' \in Locals'
      BY <2>1 DEF HandlerInv, Locals, Places
    <2>4. h.found = 0
      BY <1>2, <1>7
    <2>5. h.op \in {"GetProfile", "GetVideoEncoderConfiguration"} => h.i \in 0..2
      BY <1>2, <1>3, <1>7 DEF InLoop, MAX_RTSP_NUM
    <2> QED
      BY <1>1, <1>2, <1>7, <2>2, <2>3, <2>4, <2>5, MatchKept
      DEF HandlerInv, PlaceInv, FreshInv, CountInv, SearchInv, FoundInv, DateInv
  <1> QED
    BY <1>1, <1>4, <1>5, <1>6, <1>7
\* Between a search of SetVideoEncoderConfiguration, or the check of an address, and the
\* reply; GetSystemDateAndTime.
LEMMA WorkStep ==
  ASSUME HandlerInv,
         DecideSet \/ SetAddress \/ SetByte \/ GetZone \/ GetName
  PROVE  HandlerInv'
  <1> USE DEF HandlerInv, PlaceInv, FreshInv, CountInv, SearchInv, FoundInv, DateInv
  <1>1. SizeInv'
    BY DEF DecideSet, SetAddress, SetByte, GetZone, GetName, copy, SizeInv
  <1>2. CASE h' = Idle
    BY <1>1, <1>2, HandlerEnds
  <1>3. CASE h' # Idle /\ DecideSet
    <2>1. h' = [h EXCEPT !.pc = "ask"] /\ h.op = "SetVideoEncoderConfiguration"
      BY <1>3 DEF DecideSet, Fault, Answer
    <2>2. h'.pc = "ask" /\ h'.op = h.op
      BY <2>1 DEF Locals
    <2>3. h' \in Locals'
      BY <2>1 DEF Locals, Places
    <2> QED
      BY <1>1, <2>1, <2>2, <2>3 DEF Getters
  <1>4. CASE h' # Idle /\ SetAddress
    <2>1. PICK ipaddr : h' = [h EXCEPT !.pc = "ask", !.ipaddr = ipaddr] /\ h.pc = "address"
      BY <1>4 DEF SetAddress, Served, Fault, Answer
    <2>2. h'.pc = "ask" /\ h'.op = h.op
      BY <2>1 DEF Locals
    <2>3. h' \in Locals'
      BY <2>1 DEF Locals, Places
    <2> QED
      BY <1>1, <2>1, <2>2, <2>3 DEF Getters
  <1>5. CASE SetByte
    <2> DEFINE i == h.i + 1
               pc == IF h.i = 3 THEN "send" ELSE "byte"
    <2>1. h.i \in Nat
      BY DEF Locals
    <2>2. i \in Nat
      BY <2>1
    <2>3. pc \in {"byte", "send"}
      OBVIOUS
    <2>4. h' = [h EXCEPT !.i = i, !.pc = pc] /\ h.pc = "byte"
      BY <1>5 DEF SetByte, Locals
    <2> HIDE DEF i, pc
    <2>5. h'.pc = pc /\ h'.op = h.op
      BY <2>4 DEF Locals
    <2>6. h' \in Locals'
      BY <2>2, <2>3, <2>4 DEF Locals, Places
    <2> QED
      BY <1>1, <2>3, <2>4, <2>5, <2>6
  <1>6. CASE GetZone
    <2> DEFINE zone == time_zone + 12
    <2>1. h' = [h EXCEPT !.pc = "tz", !.ntp_timezone = zone] /\ h.pc = "zone"
      BY <1>6 DEF GetZone
    <2> HIDE DEF zone
    <2>2. h'.pc = "tz" /\ h'.op = h.op
      BY <2>1 DEF Locals
    <2>3. h' \in Locals'
      BY <2>1 DEF Locals, Places
    <2> QED
      BY <1>1, <2>1, <2>2, <2>3
  <1>7. CASE GetName
    <2>1. h' = [h EXCEPT !.pc = "utc", !.tz = h.ntp_timezone] /\ h.pc = "tz"
      BY <1>7 DEF GetName
    <2>2. h'.pc = "utc" /\ h'.op = h.op /\ h'.tz = h'.ntp_timezone
      BY <2>1 DEF Locals
    <2>3. h' \in Locals'
      BY <2>1 DEF Locals, Places
    <2> QED
      BY <1>1, <2>1, <2>2, <2>3
  <1> QED
    BY <1>2, <1>3, <1>4, <1>5, <1>6, <1>7

Answers == DecideFound \/ DecideStreamUri \/ DecideOptions \/ SetWrite \/ GetProfiles
           \/ IpcamSetValue \/ GetUtc

LEMMA HandlerStep == HandlerInv /\ [Next]_vars => HandlerInv'
  <1> SUFFICES ASSUME HandlerInv, [Next]_vars PROVE HandlerInv'
    OBVIOUS
  <1>1. CASE CameraObeys \/ CameraEdit \/ net_recv_enc_data \/ OnvifRecvMotionFunc
    BY <1>1, OtherSteps, HandlerKept
  <1>2. CASE Answers
    <2>1. h' = Idle /\ SizeInv'
      BY <1>2
      DEF Answers, DecideFound, DecideStreamUri, DecideOptions, SetWrite, GetProfiles,
          IpcamSetValue, GetUtc, Served, Fault, Answer, copy, HandlerInv, SizeInv
    <2> QED
      BY <2>1, HandlerEnds
  <1>3. CASE DecideSet \/ SetAddress \/ SetByte \/ GetZone \/ GetName
    BY <1>3, WorkStep
  <1>4. CASE UNCHANGED vars
    BY <1>4, HandlerKept DEF vars, copy, HandlerInv, SizeInv
  <1> QED
    BY <1>1, <1>2, <1>3, <1>4, BeginStep, AskStep, SizeStep, CountStep, SearchStep
    DEF Next, Searching, SetNetworkInterfaces, GetSystemDateAndTime, Answers
-----------------------------------------------------------------------------
(* The replies.                                                            *)

\* What a reply of each kind has to keep true.
LEMMA OtherReply ==
  ASSUME HandlerInv, NEW is, NEW at, NEW tz, NEW utc, Answer(is, at, tz, utc),
         is # "ter:NoProfile",
         h.op \notin {"GetVideoEncoderConfiguration", "GetProfile", "GetProfiles",
                      "GetSystemDateAndTime"}
  PROVE  ReplyInv'
  <1>1. reply'.is = is /\ reply'.op = h.op
    BY DEF Answer
  <1> QED
    BY <1>1 DEF ReplyInv, AnswerIsWhatWasAsked, KnownTokenIsServed, DateIsConsistent

LEMMA NoProfileReply ==
  ASSUME HandlerInv, Fault("ter:NoProfile"), ~Listed, h.op # "GetProfiles"
  PROVE  ReplyInv'
  <1>1. reply'.is = "ter:NoProfile" /\ reply'.op = h.op /\ reply'.token = h.token
    BY DEF Fault, Answer
  <1> QED
    BY <1>1
    DEF ReplyInv, AnswerIsWhatWasAsked, KnownTokenIsServed, DateIsConsistent, Listed, Match

\* GetVideoEncoderConfiguration and GetProfile.
LEMMA FoundReply ==
  ASSUME HandlerInv, DecideFound
  PROVE  ReplyInv'
  <1>1. /\ h.pc = "decide" /\ h.op \in Searches
        /\ h.op \in {"GetVideoEncoderConfiguration", "GetProfile"}
    BY DEF DecideFound, Searches
  <1>2. CASE h.found = 0
    BY <1>1, <1>2, NoProfileReply DEF DecideFound, HandlerInv, FoundInv
  <1>3. CASE h.found = 1
    <2>1. Match(h.i) /\ h.i \in 0..2
      BY <1>1, <1>3 DEF HandlerInv, FoundInv
    <2>2. h.op = "GetVideoEncoderConfiguration" => h.num >= 1
      BY <1>1, <2>1, EncoderListed DEF HandlerInv, CountInv
    <2>3. /\ reply'.is = "ok" /\ reply'.op = h.op /\ reply'.token = h.token
          /\ reply'.at = h.i /\ reply'.num = h.num
      BY <1>3 DEF DecideFound, Served, Answer
    <2> QED
      BY <1>1, <2>1, <2>2, <2>3
      DEF ReplyInv, AnswerIsWhatWasAsked, KnownTokenIsServed, DateIsConsistent, Match
  <1> QED
    BY <1>2, <1>3 DEF HandlerInv, Locals

\* GetStreamUri may refuse a profile it has found, but none that is listed.
LEMMA StreamUriReply ==
  ASSUME HandlerInv, DecideStreamUri
  PROVE  ReplyInv'
  <1>1. h.pc = "decide" /\ h.op = "GetStreamUri" /\ h.op \in Searches
    BY DEF DecideStreamUri, Searches
  <1>2. CASE h.i = size
    <2>1. size \in Nat /\ size >= 2
      BY HandlersAssumption DEF HandlersAssumption, MAX_RTSP_NUM, HandlerInv, SizeInv
    <2>2. h.found = 0 => ~Listed
      BY <1>1 DEF HandlerInv, FoundInv
    <2>3. ASSUME h.found = 1 PROVE ~Listed
      <3>1. \A j \in 0..(size - 1) : ~Match(j)
        BY <1>1, <1>2, <2>3 DEF HandlerInv, FoundInv
      <3> QED
        BY <2>1, <3>1, NothingListed
    <2>4. ~Listed
      BY <2>2, <2>3 DEF HandlerInv, Locals
    <2>5. Fault("ter:NoProfile")
      BY <1>2 DEF DecideStreamUri
    <2> QED
      BY <1>1, <2>4, <2>5, NoProfileReply
  <1>3. CASE h.i # size
    BY <1>1, <1>3, OtherReply DEF DecideStreamUri, Served, Fault
  <1> QED
    BY <1>2, <1>3

LEMMA ReplyStep == HandlerInv /\ ReplyInv /\ [Next]_vars => ReplyInv'
  <1> SUFFICES ASSUME HandlerInv, ReplyInv, [Next]_vars PROVE ReplyInv'
    OBVIOUS
  <1>1. CASE UNCHANGED reply
    BY <1>1, ReplyKept
  <1>2. CASE DecideOptions
    <2>1. /\ h.pc = "decide" /\ h.op = "GetVideoEncoderConfigurationOptions"
          /\ h.op \in Searches
      BY <1>2 DEF DecideOptions, Searches
    <2>2. CASE Served(h.i)
      BY <2>1, <2>2, OtherReply DEF Served
    <2>3. CASE h.found = 0 /\ Fault("ter:NoProfile")
      BY <2>1, <2>3, NoProfileReply DEF HandlerInv, FoundInv
    <2> QED
      BY <1>2, <2>2, <2>3 DEF DecideOptions
  <1>3. CASE DecideSet
    <2>1. /\ h.pc = "decide" /\ h.op = "SetVideoEncoderConfiguration" /\ h.op \in Searches
      BY <1>3 DEF DecideSet, Searches
    <2>2. CASE h.found = 0
      BY <1>3, <2>1, <2>2, NoProfileReply DEF DecideSet, HandlerInv, FoundInv
    <2>3. CASE h.found # 0
      BY <1>1, <1>3, <2>3 DEF DecideSet
    <2> QED
      BY <2>2, <2>3
  <1>4. CASE SetWrite
    <2>1. h.op = "SetVideoEncoderConfiguration" /\ Served(h.i)
      BY <1>4 DEF SetWrite, HandlerInv, PlaceInv
    <2> QED
      BY <2>1, OtherReply DEF Served
  <1>5. CASE GetProfiles
    <2>1. reply'.is = "ok" /\ reply'.op = "GetProfiles" /\ reply'.at = size
      BY <1>5 DEF GetProfiles, Served, Answer
    <2>2. size >= 2
      BY HandlersAssumption DEF HandlersAssumption, MAX_RTSP_NUM, HandlerInv, SizeInv
    <2> QED
      BY <2>1, <2>2
      DEF ReplyInv, AnswerIsWhatWasAsked, KnownTokenIsServed, DateIsConsistent
  <1>6. CASE SetAddress
    <2>1. h.op = "SetNetworkInterfaces"
      BY <1>6 DEF SetAddress, HandlerInv, PlaceInv
    <2>2. CASE Fault("fault")
      BY <2>1, <2>2, OtherReply DEF Fault
    <2>3. CASE Fault("ter:InvalidIPv4Address")
      BY <2>1, <2>3, OtherReply DEF Fault
    <2>4. CASE Served(0)
      BY <2>1, <2>4, OtherReply DEF Served
    <2> QED
      BY <1>1, <1>6, <2>2, <2>3, <2>4 DEF SetAddress
  <1>7. CASE IpcamSetValue
    <2>1. h.op = "SetNetworkInterfaces" /\ Served(0)
      BY <1>7 DEF IpcamSetValue, HandlerInv, PlaceInv
    <2> QED
      BY <2>1, OtherReply DEF Served
  <1>8. CASE GetUtc
    <2>1. h.op = "GetSystemDateAndTime" /\ h.tz = h.ntp_timezone
      BY <1>8 DEF GetUtc, HandlerInv, PlaceInv, DateInv
    <2>2. /\ reply'.is = "ok" /\ reply'.op = h.op /\ reply'.tz = h.tz
          /\ reply'.utc = h.ntp_timezone - 12
      BY <1>8 DEF GetUtc, Answer
    <2> QED
      BY <2>1, <2>2
      DEF ReplyInv, AnswerIsWhatWasAsked, KnownTokenIsServed, DateIsConsistent
  <1> QED
    BY <1>1, <1>2, <1>3, <1>4, <1>5, <1>6, <1>7, <1>8, OtherSteps, BeginStep, AskStep,
       SizeStep, CountStep, SearchStep, FoundReply, StreamUriReply
    DEF Next, Searching, SetNetworkInterfaces, SetByte, GetSystemDateAndTime, GetZone,
        GetName, vars

LEMMA SoapInduction == Spec => [](HandlerInv /\ ReplyInv)
  BY SoapInit, HandlerStep, ReplyStep, PTL DEF Spec

\* GetProfile and GetVideoEncoderConfiguration answer with what was named, however often
\* and whenever answers of the camera come in, and whatever the tokens are.
THEOREM AnswersTheAsked == Spec => []AnswerIsWhatWasAsked
  <1>1. ReplyInv => AnswerIsWhatWasAsked
    BY DEF ReplyInv
  <1> QED
    BY <1>1, SoapInduction, PTL

\* No search misses a token GetProfiles lists, and GetProfiles has room for two.
THEOREM ServesTheListed == Spec => []KnownTokenIsServed
  <1>1. ReplyInv => KnownTokenIsServed
    BY DEF ReplyInv
  <1> QED
    BY <1>1, SoapInduction, PTL

\* GetSystemDateAndTime never mixes two time zones in one answer.
THEOREM DateInOneZone == Spec => []DateIsConsistent
  <1>1. ReplyInv => DateIsConsistent
    BY DEF ReplyInv
  <1> QED
    BY <1>1, SoapInduction, PTL

-----------------------------------------------------------------------------
(* The types, and the addresses.                                           *)

\* How far the handler's indexes have come.
Bounds ==
  /\ h.pc = "count" => h.num <= h.i
  /\ h.op = "SetNetworkInterfaces" /\ h.pc \in {"address", "ask", "wait"} => h.i = 0
  /\ h.pc = "byte" => h.i \in 0..3

TypeInv == TypeOK /\ Bounds

LEMMA IdleTyped == Idle \in Handler
  BY HandlersAssumption, NobodyNamed
  DEF HandlersAssumption, Idle, Handler, Unset, Ipv4, Garbage, NoOp, Indexes, MAX_RTSP_NUM

LEMMA SoapTypeInit == Init => TypeInv
  <1> SUFFICES ASSUME Init PROVE TypeInv
    OBVIOUS
  <1> USE HandlersAssumption, NobodyNamed DEF HandlersAssumption
  <1>1. h = Idle /\ h \in Handler
    BY IdleTyped DEF Init
  <1>2. Bounds
    BY <1>1 DEF Idle, Bounds, NoOp
  <1>3. ipv4 \in Ipv4 /\ camera \in [ipv4 : Ipv4, zone : Zones]
    BY DEF Init, Ipv4
  <1>4. reply \in Reply
    BY DEF Init, Reply, NoOp, Indexes, MAX_RTSP_NUM
  <1>5. /\ toCamera \in Seq([cmd : {"GET", "NET_SET"}, ipv4 : Ipv4]) /\ Len(toCamera) = 0
        /\ fromCamera \in Seq([ipv4 : Ipv4, zone : Zones]) /\ Len(fromCamera) = 0
    BY DEF Init
  <1>6. /\ size \in {2, CameraSize} /\ time_zone \in Zones /\ once \in {0, 1}
        /\ rx \in {"idle", "flag", "size"} /\ requests \in 0..MaxRequests
        /\ edits \in 0..MaxEdits
    BY DEF Init
  <1> QED
    BY <1>1, <1>2, <1>3, <1>4, <1>5, <1>6 DEF TypeInv, TypeOK

\* A command is put on the link.
LEMMA CommandTyped ==
  ASSUME TypeOK, Len(toCamera) < MaxInFlight, NEW c \in {"GET", "NET_SET"}, NEW a \in Ipv4,
         toCamera' = Append(toCamera, [cmd |-> c, ipv4 |-> a])
  PROVE  /\ toCamera' \in Seq([cmd : {"GET", "NET_SET"}, ipv4 : Ipv4])
         /\ Len(toCamera') <= MaxInFlight
  BY HandlersAssumption DEF HandlersAssumption, TypeOK

LEMMA UnsetTyped == Unset \in Ipv4
  BY DEF Unset, Ipv4, Garbage

\* The camera, the receive thread, and the refresh thread.
LEMMA OthersTyped ==
  ASSUME TypeInv, CameraObeys \/ CameraEdit \/ net_recv_enc_data \/ OnvifRecvMotionFunc
  PROVE  TypeInv'
  <1> USE DEF TypeInv
  <1>1. UNCHANGED <<h, reply, requests>>
    BY DEF CameraObeys, CameraEdit, net_recv_enc_data, RecvCopy, RecvFlag, RecvSize,
       OnvifRecvMotionFunc
  <1>2. Bounds' /\ h' \in Handler /\ reply' \in Reply /\ requests' \in 0..MaxRequests
    BY <1>1 DEF Bounds, TypeOK, Handler, Reply
  <1>3. CASE CameraObeys
    <2>1. /\ toCamera' \in Seq([cmd : {"GET", "NET_SET"}, ipv4 : Ipv4])
          /\ Len(toCamera') <= MaxInFlight
          /\ Head(toCamera) \in [cmd : {"GET", "NET_SET"}, ipv4 : Ipv4]
      <3> DEFINE T == [cmd : {"GET", "NET_SET"}, ipv4 : Ipv4]
      <3>1. toCamera \in Seq(T) /\ Len(toCamera) <= MaxInFlight
        BY DEF TypeOK
      <3>2. toCamera # <<>> /\ toCamera' = Tail(toCamera)
        BY <1>3 DEF CameraObeys
      <3> HIDE DEF T
      <3>3. /\ Head(toCamera) \in T /\ Tail(toCamera) \in Seq(T)
            /\ Len(Tail(toCamera)) <= MaxInFlight
        BY <3>1, <3>2, HandlersAssumption DEF HandlersAssumption
      <3> QED
        BY <3>2, <3>3 DEF T
    <2>2. /\ fromCamera' \in Seq([ipv4 : Ipv4, zone : Zones])
          /\ Len(fromCamera') <= MaxInFlight
      <3> DEFINE T == [ipv4 : Ipv4, zone : Zones]
      <3>1. fromCamera \in Seq(T) /\ Len(fromCamera) <= MaxInFlight /\ camera \in T
        BY DEF TypeOK
      <3>2. \/ UNCHANGED fromCamera
            \/ fromCamera' = Append(fromCamera, camera) /\ Len(fromCamera) < MaxInFlight
        BY <1>3 DEF CameraObeys
      <3> HIDE DEF T
      <3>3. fromCamera' \in Seq(T) /\ Len(fromCamera') <= MaxInFlight
        BY <3>1, <3>2, HandlersAssumption DEF HandlersAssumption
      <3> QED
        BY <3>3 DEF T
    <2>3. camera' \in [ipv4 : Ipv4, zone : Zones]
      BY <1>3, <2>1 DEF CameraObeys, TypeOK
    <2>4. UNCHANGED <<copy, once, rx, edits>>
      BY <1>3 DEF CameraObeys
    <2> QED
      BY <1>2, <2>1, <2>2, <2>3, <2>4 DEF TypeOK, copy
  <1>4. CASE CameraEdit
    <2>1. edits' \in 0..MaxEdits
      BY <1>4, HandlersAssumption DEF HandlersAssumption, CameraEdit, TypeOK
    <2>2. camera' \in [ipv4 : Ipv4, zone : Zones]
      BY <1>4 DEF CameraEdit, TypeOK
    <2> QED
      BY <1>2, <1>4, <2>1, <2>2 DEF TypeOK, copy, link, CameraEdit
  <1>5. CASE RecvCopy
    <2>1. /\ fromCamera' \in Seq([ipv4 : Ipv4, zone : Zones])
          /\ Len(fromCamera') <= MaxInFlight
          /\ Head(fromCamera) \in [ipv4 : Ipv4, zone : Zones]
      <3> DEFINE T == [ipv4 : Ipv4, zone : Zones]
      <3>1. fromCamera \in Seq(T) /\ Len(fromCamera) <= MaxInFlight
        BY DEF TypeOK
      <3>2. fromCamera # <<>> /\ fromCamera' = Tail(fromCamera)
        BY <1>5 DEF RecvCopy
      <3> HIDE DEF T
      <3>3. /\ Head(fromCamera) \in T /\ Tail(fromCamera) \in Seq(T)
            /\ Len(Tail(fromCamera)) <= MaxInFlight
        BY <3>1, <3>2, HandlersAssumption DEF HandlersAssumption
      <3> QED
        BY <3>2, <3>3 DEF T
    <2> QED
      BY <1>2, <1>5, <2>1 DEF TypeOK, RecvCopy
  <1>6. CASE RecvFlag \/ RecvSize
    BY <1>2, <1>6 DEF TypeOK, RecvFlag, RecvSize, copy, link
  <1>7. CASE OnvifRecvMotionFunc
    <2>1. /\ toCamera' \in Seq([cmd : {"GET", "NET_SET"}, ipv4 : Ipv4])
          /\ Len(toCamera') <= MaxInFlight
      BY <1>7, UnsetTyped, CommandTyped DEF OnvifRecvMotionFunc, Ask
    <2> QED
      BY <1>2, <1>7, <2>1 DEF TypeOK, OnvifRecvMotionFunc, Ask, copy
  <1> QED
    BY <1>3, <1>4, <1>5, <1>6, <1>7 DEF net_recv_enc_data

\* A request begins.
LEMMA BeginTyped ==
  ASSUME TypeInv, Begin
  PROVE  TypeInv'
  <1> USE DEF TypeInv
  <1>1. UNCHANGED <<copy, once, rx, link, camera, reply, edits>> /\ requests' \in 0..MaxRequests
    <2>1. PICK f : Request(f)
      BY DEF Begin, BeginSearch, BeginProfiles, BeginNetwork, BeginDate
    <2>2. /\ UNCHANGED <<copy, once, rx, link, camera, reply, edits>>
          /\ requests < MaxRequests /\ requests' = requests + 1
      BY <2>1 DEF Request
    <2>3. requests' \in 0..MaxRequests
      BY <2>2, HandlersAssumption DEF HandlersAssumption, TypeOK
    <2> QED
      BY <2>2, <2>3
  <1>2. h' \in Handler /\ h'.i = 0 /\ h'.pc \notin {"count", "byte"}
    <2>1. CASE BeginSearch
      <3>1. PICK op \in Searches, t \in Names, s \in {0, 1}, pc \in {"search", "ask"} :
              h' = [Idle EXCEPT !.pc = pc, !.op = op, !.token = t, !.stream = s]
        BY <2>1 DEF BeginSearch, Request
      <3> QED
        BY <3>1, IdleTyped DEF Handler, Ops, Idle
    <2>2. CASE BeginProfiles
      <3>1. h' = [Idle EXCEPT !.pc = "decide", !.op = "GetProfiles"]
        BY <2>2 DEF BeginProfiles, Request
      <3> QED
        BY <3>1, IdleTyped DEF Handler, Ops, Idle
    <2>3. CASE BeginNetwork
      <3>1. PICK s \in Addresses \cup {Absent}, i \in {"NULL", "eth0"} :
              h' = [Idle EXCEPT !.pc = "address", !.op = "SetNetworkInterfaces",
                                !.str = s, !.interface = i]
        BY <2>3 DEF BeginNetwork, Request
      <3> QED
        BY <3>1, IdleTyped DEF Handler, Ops, Idle
    <2>4. CASE BeginDate
      <3>1. h' = [Idle EXCEPT !.pc = "ask", !.op = "GetSystemDateAndTime"]
        BY <2>4 DEF BeginDate, Request
      <3> QED
        BY <3>1, IdleTyped DEF Handler, Ops, Idle
    <2> QED
      BY <2>1, <2>2, <2>3, <2>4 DEF Begin
  <1>3. Bounds'
    BY <1>2 DEF Bounds
  <1> QED
    BY <1>1, <1>2, <1>3 DEF TypeOK, copy, link

\* A handler goes on, and changes nothing else.
LEMMA LocalTyped ==
  ASSUME TypeInv, UNCHANGED <<copy, others, reply, requests>>, h' \in Handler, Bounds'
  PROVE  TypeInv'
  BY DEF TypeInv, TypeOK, copy, others, link

\* A handler ends with a reply.
LEMMA AnswerTyped ==
  ASSUME TypeInv,
         NEW is \in {"ok", "fault", "ter:NoProfile", "ter:InvalidIPv4Address"},
         NEW at \in Indexes, NEW tz \in 0..24, NEW utc \in -12..12,
         Answer(is, at, tz, utc)
  PROVE  h' \in Handler /\ Bounds' /\ reply' \in Reply
  <1>1. h' = Idle /\ h' \in Handler
    BY IdleTyped DEF Answer
  <1>2. Bounds'
    BY <1>1 DEF Bounds, Idle, NoOp
  <1>3. /\ h.op \in Ops \cup {NoOp} /\ h.token \in Names /\ h.str \in Addresses \cup {Absent}
        /\ h.num \in Indexes
    BY DEF TypeInv, TypeOK, Handler
  <1>4. reply' \in Reply
    BY <1>3 DEF Answer, Reply
  <1> QED
    BY <1>1, <1>2, <1>4

LEMMA ReplyTyped ==
  ASSUME TypeInv, reply' \in Reply, h' \in Handler, Bounds', UNCHANGED <<copy, others, requests>>
  PROVE  TypeInv'
  BY DEF TypeInv, TypeOK, copy, others, link

LEMMA SizeTyped == TypeInv => size \in {2, 3} /\ size \in Indexes
  BY HandlersAssumption DEF HandlersAssumption, TypeInv, TypeOK, MAX_RTSP_NUM, Indexes

\* It asks and waits, or reads the zone: a step that changes no index.
LEMMA AskTyped ==
  ASSUME TypeInv, HandlerInv, GetAsk \/ GetWait
  PROVE  TypeInv'
  <1>1. h \in Handler /\ Bounds
    BY DEF TypeInv, TypeOK
  <1>2. CASE GetAsk
    <2>1. h' = [h EXCEPT !.pc = "wait"] /\ h.pc = "ask"
      BY <1>2 DEF GetAsk
    <2>2. h' \in Handler /\ Bounds'
      BY <1>1, <2>1 DEF Handler, Bounds
    <2>3. /\ toCamera' \in Seq([cmd : {"GET", "NET_SET"}, ipv4 : Ipv4])
          /\ Len(toCamera') <= MaxInFlight
      BY <1>2, UnsetTyped, CommandTyped DEF GetAsk, Ask, TypeInv
    <2> QED
      BY <1>2, <2>2, <2>3 DEF TypeInv, TypeOK, GetAsk, Ask, copy
  <1>3. CASE GetWait
    <2>1. PICK pc \in {"write", "byte", "zone", "size"} :
            /\ h' = [h EXCEPT !.pc = pc] /\ h.pc = "wait"
            /\ pc = "byte" => h.op = "SetNetworkInterfaces"
      BY <1>3 DEF GetWait
    <2>2. h' \in Handler /\ Bounds'
      BY <1>1, <2>1 DEF Handler, Bounds
    <2> QED
      BY <1>3, <2>2 DEF TypeInv, TypeOK, GetWait, copy, link
  <1> QED
    BY <1>2, <1>3

\* The searches.
LEMMA SearchTyped ==
  ASSUME TypeInv, HandlerInv, SetSize \/ CountTokens \/ Search
  PROVE  TypeInv'
  <1>1. h \in Handler /\ Bounds
    BY DEF TypeInv, TypeOK
  <1>2. CASE SetSize
    <2>1. PICK pc \in {"count", "search"} : h' = [h EXCEPT !.pc = pc] /\ h.pc = "size"
      BY <1>2 DEF SetSize
    <2>2. h.i = 0 /\ h.num = 0
      BY <2>1 DEF HandlerInv, PlaceInv, FreshInv
    <2>3. h' \in Handler
      BY <1>1, <2>1 DEF Handler
    <2>4. Bounds'
      BY <1>1, <2>1, <2>2 DEF Handler, Bounds
    <2>5. size' = 2 /\ UNCHANGED <<ipv4, time_zone, others, reply, requests>>
      BY <1>2 DEF SetSize
    <2> QED
      BY <2>3, <2>4, <2>5 DEF TypeInv, TypeOK, others, link
  <1>3. CASE CountTokens
    <2>1. /\ h.i \in 0..4 /\ h.num \in 0..4 /\ h.num <= h.i /\ size \in {2, 3}
          /\ h.op = "GetVideoEncoderConfiguration"
      BY <1>1, <1>3, SizeTyped
      DEF CountTokens, Handler, Bounds, Indexes, MAX_RTSP_NUM, HandlerInv, PlaceInv
    <2>2. CASE h.i < size
      <3> DEFINE i == h.i + 1
      <3>1. PICK num \in {h.num, h.num + 1} : h' = [h EXCEPT !.i = i, !.num = num]
        BY <1>1, <1>3, <2>2 DEF CountTokens, Handler
      <3>2. i \in Indexes /\ num \in Indexes /\ num <= i
        BY <2>1, <2>2 DEF Indexes, MAX_RTSP_NUM
      <3> HIDE DEF i
      <3>3. h.pc = "count"
        BY <1>3 DEF CountTokens
      <3>4. h' \in Handler
        BY <1>1, <3>1, <3>2 DEF Handler
      <3>5. h'.pc = "count" /\ h'.num <= h'.i
        BY <1>1, <3>1, <3>2, <3>3 DEF Handler
      <3>6. Bounds'
        BY <3>5 DEF Bounds
      <3> QED
        BY <1>3, <3>4, <3>6, LocalTyped DEF CountTokens
    <2>3. CASE ~(h.i < size)
      <3>1. h' = [h EXCEPT !.i = 0, !.pc = "search"]
        BY <1>3, <2>3 DEF CountTokens
      <3>2. h' \in Handler
        <4>1. 0 \in Indexes
          BY DEF Indexes, MAX_RTSP_NUM
        <4> QED
          BY <1>1, <3>1, <4>1 DEF Handler
      <3>3. Bounds'
        BY <1>1, <3>1 DEF Handler, Bounds
      <3> QED
        BY <1>3, <3>2, <3>3, LocalTyped DEF CountTokens
    <2> QED
      BY <2>2, <2>3
  <1>4. CASE Search
    <2>1. /\ h.pc = "search" /\ h.op \in Searches /\ h.i \in 0..4 /\ size \in {2, 3}
      BY <1>1, <1>4, SizeTyped DEF Search, Handler, Indexes, MAX_RTSP_NUM, HandlerInv, PlaceInv
    <2>2. InLoop(h.op, h.i) => h.i <= 3
      BY <2>1 DEF InLoop, MAX_RTSP_NUM
    <2>3. CASE UNCHANGED h.i /\ h' = [h EXCEPT !.pc = "decide"]
      <3>1. h' \in Handler /\ Bounds'
        BY <1>1, <2>3 DEF Handler, Bounds
      <3> QED
        BY <1>4, <3>1, LocalTyped DEF Search
    <2>4. ASSUME NEW pc \in {"search", "decide"}, NEW i \in Indexes, NEW found \in {0, 1},
                 h' = [h EXCEPT !.pc = pc, !.found = found, !.i = i]
          PROVE  TypeInv'
      <3>1. h' \in Handler /\ h'.pc = pc /\ h'.op = h.op
        BY <1>1, <2>4 DEF Handler
      <3>2. Bounds'
        BY <3>1, <2>1 DEF Bounds
      <3> QED
        BY <1>4, <3>1, <3>2, LocalTyped DEF Search
    <2>5. /\ h = [h EXCEPT !.pc = h.pc, !.found = h.found, !.i = h.i]
          /\ h.found \in {0, 1} /\ h.i \in Indexes
      BY <1>1 DEF Handler
    <2>6. CASE ~InLoop(h.op, h.i) \/ (h.op = "GetProfile" /\ h.token.profile = NoToken)
      <3>1. h' = [h EXCEPT !.pc = "decide"]
        BY <1>4, <2>6 DEF Search
      <3>2. h' = [h EXCEPT !.pc = "decide", !.found = h.found, !.i = h.i]
        BY <1>1, <3>1 DEF Handler
      <3> QED
        BY <2>4, <2>5, <3>2
    <2>7. CASE InLoop(h.op, h.i) /\ ~(h.op = "GetProfile" /\ h.token.profile = NoToken)
      <3>1. h.i + 1 \in Indexes
        BY <2>1, <2>2, <2>7 DEF Indexes, MAX_RTSP_NUM
      <3> DEFINE i == h.i + 1
      <3>2. \/ h' = [h EXCEPT !.i = i]
            \/ h' = [h EXCEPT !.found = 1, !.i = i]
            \/ h' = [h EXCEPT !.found = 1, !.pc = "decide"]
        BY <1>1, <1>4, <2>7 DEF Search, Handler
      <3> HIDE DEF i
      <3>3. \/ h' = [h EXCEPT !.pc = "search", !.found = h.found, !.i = i]
            \/ h' = [h EXCEPT !.pc = "search", !.found = 1, !.i = i]
            \/ h' = [h EXCEPT !.pc = "decide", !.found = 1, !.i = h.i]
        <4>1. [h EXCEPT !.i = i] = [h EXCEPT !.pc = "search", !.found = h.found, !.i = i]
          BY <1>1, <2>1 DEF Handler
        <4>2. [h EXCEPT !.found = 1, !.i = i] =
                [h EXCEPT !.pc = "search", !.found = 1, !.i = i]
          BY <1>1, <2>1 DEF Handler
        <4>3. [h EXCEPT !.found = 1, !.pc = "decide"] =
                [h EXCEPT !.pc = "decide", !.found = 1, !.i = h.i]
          BY <1>1 DEF Handler
        <4> QED
          BY <3>2, <4>1, <4>2, <4>3, Zenon
      <3>4. i \in Indexes
        BY <3>1 DEF i
      <3> QED
        BY <2>4, <2>5, <3>3, <3>4
    <2> QED
      BY <2>6, <2>7
  <1> QED
    BY <1>2, <1>3, <1>4

\* The ends of the searches.
LEMMA DecideTyped ==
  ASSUME TypeInv, HandlerInv,
         DecideFound \/ DecideStreamUri \/ DecideOptions \/ DecideSet \/ SetWrite \/ GetProfiles
  PROVE  TypeInv'
  <1>1. /\ h \in Handler /\ Bounds /\ h.i \in Indexes /\ size \in Indexes /\ 0 \in Indexes
        /\ 0 \in 0..24 /\ 0 \in -12..12
    BY SizeTyped DEF TypeInv, TypeOK, Handler, Indexes, MAX_RTSP_NUM
  <1>2. UNCHANGED <<copy, others, requests>>
    BY DEF DecideFound, DecideStreamUri, DecideOptions, DecideSet, SetWrite, GetProfiles
  <1>3. ASSUME NEW is \in {"ok", "fault", "ter:NoProfile"}, NEW at \in Indexes,
               Answer(is, at, 0, 0)
        PROVE  TypeInv'
    <2>1. h' \in Handler /\ Bounds' /\ reply' \in Reply
      BY <1>1, <1>3, AnswerTyped
    <2> QED
      BY <1>2, <2>1, ReplyTyped
  <1>4. CASE DecideSet /\ h.found # 0
    <2>1. h' = [h EXCEPT !.pc = "ask"] /\ UNCHANGED reply /\ h.pc = "decide"
          /\ h.op = "SetVideoEncoderConfiguration"
      BY <1>4 DEF DecideSet
    <2>2. h' \in Handler /\ Bounds'
      BY <1>1, <2>1 DEF Handler, Bounds
    <2> QED
      BY <1>2, <2>1, <2>2, ReplyTyped DEF TypeInv, TypeOK
  <1>5. CASE ~(DecideSet /\ h.found # 0)
    <2>1. \E is \in {"ok", "fault", "ter:NoProfile"}, at \in {0, h.i, size} :
            Answer(is, at, 0, 0)
      BY <1>5, Zenon
      DEF DecideFound, DecideStreamUri, DecideOptions, DecideSet, SetWrite, GetProfiles,
          Served, Fault
    <2> QED
      BY <1>1, <1>3, <2>1
  <1> QED
    BY <1>4, <1>5

\* SetNetworkInterfaces and GetSystemDateAndTime.
LEMMA WorkTyped ==
  ASSUME TypeInv, HandlerInv, SetNetworkInterfaces \/ GetSystemDateAndTime
  PROVE  TypeInv'
  <1>1. /\ h \in Handler /\ Bounds /\ 0 \in Indexes /\ 0 \in 0..24 /\ 0 \in -12..12
        /\ ipv4 \in Ipv4 /\ time_zone \in Zones
    BY DEF TypeInv, TypeOK, Indexes, MAX_RTSP_NUM
  <1>2. CASE SetAddress
    <2>1. UNCHANGED <<copy, others, requests>> /\ h.pc = "address"
          /\ h.op = "SetNetworkInterfaces"
      BY <1>2 DEF SetAddress, HandlerInv, PlaceInv
    <2>2. ASSUME NEW is \in {"ok", "fault", "ter:InvalidIPv4Address"}, Answer(is, 0, 0, 0)
          PROVE  TypeInv'
      <3>1. h' \in Handler /\ Bounds' /\ reply' \in Reply
        BY <1>1, <2>2, AnswerTyped
      <3> QED
        BY <2>1, <3>1, ReplyTyped
    <2>3. CASE Fault("fault") \/ Fault("ter:InvalidIPv4Address") \/ Served(0)
      BY <2>2, <2>3 DEF Fault, Served
    <2> DEFINE ipaddr == IF h.str = Absent THEN Unset ELSE inet_aton(h.str)
    <2>4. ASSUME h.str # Absent => isValidIp4(h.str),
                 h' = [h EXCEPT !.pc = "ask", !.ipaddr = ipaddr], UNCHANGED reply
          PROVE  TypeInv'
      <3>1. ipaddr \in Ipv4
        <4>1. CASE h.str = Absent
          BY <4>1, UnsetTyped
        <4>2. CASE h.str # Absent
          <5>1. h.str \in Seq(Characters)
            BY <1>1, <4>2, HandlersAssumption DEF HandlersAssumption, Handler
          <5>2. inet_aton(h.str) \in [Bytes -> 0..255]
            BY <2>4, <4>2, <5>1, ReadsBytes
          <5> QED
            BY <4>2, <5>2 DEF Ipv4
        <4> QED
          BY <4>1, <4>2
      <3> HIDE DEF ipaddr
      <3>2. h' \in Handler /\ h'.pc = "ask" /\ h'.op = h.op /\ h'.i = h.i
        BY <1>1, <2>4, <3>1 DEF Handler
      <3>3. h.i = 0
        BY <1>1, <2>1 DEF Bounds
      <3>4. Bounds'
        BY <3>2, <3>3 DEF Bounds
      <3>5. UNCHANGED <<copy, others, reply, requests>>
        BY <2>1, <2>4
      <3> QED
        BY <3>2, <3>4, <3>5, LocalTyped
    <2>5. \/ Fault("fault") \/ Fault("ter:InvalidIPv4Address") \/ Served(0)
          \/ /\ h.str # Absent => isValidIp4(h.str)
             /\ h' = [h EXCEPT !.pc = "ask", !.ipaddr = ipaddr] /\ UNCHANGED reply
      BY <1>2, Zenon DEF SetAddress
    <2> HIDE DEF ipaddr
    <2> QED
      BY <2>3, <2>4, <2>5
  <1>3. CASE SetByte
    <2> DEFINE i == h.i + 1
               pc == IF h.i = 3 THEN "send" ELSE "byte"
    <2>1. /\ h.i \in 0..3 /\ h.pc = "byte"
      BY <1>1, <1>3 DEF SetByte, Bounds
    <2>2. /\ i \in Indexes /\ i \in Bytes /\ pc \in {"send", "byte"} /\ (pc = "byte" => i \in 0..3)
      BY <2>1 DEF Indexes, MAX_RTSP_NUM, Bytes
    <2>3. h' = [h EXCEPT !.i = i, !.pc = pc]
      BY <1>1, <1>3 DEF SetByte, Handler
    <2>4. ipv4' = [ipv4 EXCEPT ![i] = h.ipaddr[i]]
      BY <1>3 DEF SetByte
    <2> HIDE DEF i, pc
    <2>5. h' \in Handler /\ h'.pc = pc /\ h'.i = i
      BY <1>1, <2>2, <2>3 DEF Handler
    <2>6. Bounds'
      BY <2>2, <2>5 DEF Bounds
    <2>7. ipv4' \in Ipv4
      BY <1>1, <2>2, <2>4 DEF Handler, Ipv4
    <2> QED
      BY <1>3, <2>5, <2>6, <2>7 DEF SetByte, TypeInv, TypeOK, others, link
  <1>4. CASE IpcamSetValue
    <2>1. /\ toCamera' \in Seq([cmd : {"GET", "NET_SET"}, ipv4 : Ipv4])
          /\ Len(toCamera') <= MaxInFlight
      BY <1>1, <1>4, CommandTyped DEF IpcamSetValue, TypeInv
    <2>2. Answer("ok", 0, 0, 0)
      BY <1>4 DEF IpcamSetValue, Served
    <2>3. h' \in Handler /\ Bounds' /\ reply' \in Reply
      BY <1>1, <2>2, AnswerTyped
    <2> QED
      BY <1>4, <2>1, <2>3 DEF IpcamSetValue, TypeInv, TypeOK, copy
  <1>5. CASE GetZone
    <2> DEFINE zone == time_zone + 12
    <2>1. zone \in 0..24
      BY <1>1, HandlersAssumption DEF HandlersAssumption
    <2>2. h' = [h EXCEPT !.pc = "tz", !.ntp_timezone = zone]
      BY <1>5 DEF GetZone
    <2> HIDE DEF zone
    <2>3. h' \in Handler /\ h'.pc = "tz"
      BY <1>1, <2>1, <2>2 DEF Handler
    <2>4. Bounds'
      BY <2>3 DEF Bounds
    <2> QED
      BY <1>5, <2>3, <2>4, LocalTyped DEF GetZone
  <1>6. CASE GetName
    <2>1. h' = [h EXCEPT !.pc = "utc", !.tz = h.ntp_timezone]
      BY <1>6 DEF GetName
    <2>2. h' \in Handler /\ h'.pc = "utc"
      BY <1>1, <2>1 DEF Handler
    <2>3. Bounds'
      BY <2>2 DEF Bounds
    <2> QED
      BY <1>6, <2>2, <2>3, LocalTyped DEF GetName
  <1>7. CASE GetUtc
    <2> DEFINE utc == h.ntp_timezone - 12
    <2>1. utc \in -12..12 /\ h.tz \in 0..24
      BY <1>1 DEF Handler
    <2>2. Answer("ok", 0, h.tz, utc) /\ UNCHANGED <<copy, others, requests>>
      BY <1>7 DEF GetUtc
    <2> HIDE DEF utc
    <2>3. h' \in Handler /\ Bounds' /\ reply' \in Reply
      BY <1>1, <2>1, <2>2, AnswerTyped
    <2> QED
      BY <2>2, <2>3, ReplyTyped
  <1> QED
    BY <1>2, <1>3, <1>4, <1>5, <1>6, <1>7 DEF SetNetworkInterfaces, GetSystemDateAndTime

LEMMA SoapTypeStep == TypeInv /\ HandlerInv /\ [Next]_vars => TypeInv'
  <1> SUFFICES ASSUME TypeInv, HandlerInv, [Next]_vars PROVE TypeInv'
    OBVIOUS
  <1>1. CASE UNCHANGED vars
    BY <1>1 DEF vars, copy, link, TypeInv, TypeOK, Bounds
  <1>2. CASE Next
    BY <1>2, OthersTyped, BeginTyped, AskTyped, SearchTyped, DecideTyped, WorkTyped
    DEF Next, Searching
  <1> QED
    BY <1>1, <1>2

LEMMA SoapTypes == Spec => []TypeInv
  BY SoapTypeInit, SoapTypeStep, SoapInduction, PTL DEF Spec

\* No search, loop over the bytes of an address or time zone leaves its range, and
\* inet_aton gives bytes whenever isValidIp4 has let the address through.
THEOREM TypeCorrect == Spec => []TypeOK
  <1>1. TypeInv => TypeOK
    BY DEF TypeInv
  <1> QED
    BY <1>1, SoapTypes, PTL

\* What of the handler RefusesAllButDottedQuads speaks of.
Taken == h.op = "SetNetworkInterfaces" /\ h.pc # "address" /\ h.str # Absent
           => IsDottedQuad(h.str)

LEMMA TakenIdle == h' = Idle => Taken'
  BY DEF Taken, Idle, NoOp

\* Of the steps only SetAddress refuses an address, or goes past the check.
LEMMA AddressStep ==
  ASSUME TypeInv, HandlerInv, RefusesAllButDottedQuads, SetAddress
  PROVE  RefusesAllButDottedQuads'
  <1>1. /\ h \in Handler /\ h.op = "SetNetworkInterfaces"
        /\ h.str # Absent => h.str \in Seq(Characters)
    BY HandlersAssumption
    DEF HandlersAssumption, TypeInv, TypeOK, SetAddress, HandlerInv, PlaceInv, Handler
  <1>2. h.str # Absent => (isValidIp4(h.str) <=> IsDottedQuad(h.str))
    BY <1>1, ValidIsDottedQuad
  <1>3. ASSUME NEW is, Answer(is, 0, 0, 0),
               is = "ter:InvalidIPv4Address" => h.str # Absent /\ ~isValidIp4(h.str),
               is = "ok" /\ h.str # Absent => isValidIp4(h.str)
        PROVE  RefusesAllButDottedQuads'
    <2>1. reply'.is = is /\ reply'.op = h.op /\ reply'.str = h.str /\ h' = Idle
      BY <1>3 DEF Answer
    <2> QED
      BY <1>2, <1>3, <2>1, TakenIdle DEF RefusesAllButDottedQuads, Taken
  <1> DEFINE ipaddr == IF h.str = Absent THEN Unset ELSE inet_aton(h.str)
  <1>4. ASSUME h.str # Absent => isValidIp4(h.str),
               h' = [h EXCEPT !.pc = "ask", !.ipaddr = ipaddr], UNCHANGED reply
        PROVE  RefusesAllButDottedQuads'
    <2> HIDE DEF ipaddr
    <2>1. h'.str = h.str
      BY <1>1, <1>4 DEF Handler
    <2> QED
      BY <1>2, <1>4, <2>1 DEF RefusesAllButDottedQuads
  <1>5. \/ Answer("fault", 0, 0, 0)
        \/ /\ h.str # Absent /\ ~isValidIp4(h.str)
           /\ Answer("ter:InvalidIPv4Address", 0, 0, 0)
        \/ (h.str # Absent => isValidIp4(h.str)) /\ Answer("ok", 0, 0, 0)
        \/ /\ h.str # Absent => isValidIp4(h.str)
           /\ h' = [h EXCEPT !.pc = "ask", !.ipaddr = ipaddr] /\ UNCHANGED reply
    BY Zenon DEF SetAddress, Fault, Served
  <1> HIDE DEF ipaddr
  <1> QED
    BY <1>3, <1>4, <1>5

LEMMA AddressInduction ==
  TypeInv /\ HandlerInv /\ RefusesAllButDottedQuads /\ [Next]_vars => RefusesAllButDottedQuads'
  <1> SUFFICES ASSUME TypeInv, HandlerInv, RefusesAllButDottedQuads, [Next]_vars
               PROVE  RefusesAllButDottedQuads'
    OBVIOUS
  <1>1. h \in Handler
    BY DEF TypeInv, TypeOK
  \* A step that keeps the reply, and the request if it goes on.
  <1>2. ASSUME UNCHANGED reply, Taken' PROVE RefusesAllButDottedQuads'
    BY <1>2 DEF RefusesAllButDottedQuads, Taken
  <1>3. ASSUME h'.op = h.op, h'.str = h.str, h.pc # "address"
        PROVE  Taken'
    BY <1>3 DEF RefusesAllButDottedQuads, Taken
  <1>4. ASSUME h'.op # "SetNetworkInterfaces" \/ h'.pc = "address"
        PROVE  Taken'
    BY <1>4 DEF Taken
  <1>5. CASE UNCHANGED vars \/ CameraObeys \/ CameraEdit \/ net_recv_enc_data
             \/ OnvifRecvMotionFunc
    BY <1>2, <1>5, OtherSteps DEF vars, Taken, RefusesAllButDottedQuads
  <1>6. CASE Begin
    <2>1. CASE BeginSearch
      <3>1. PICK op \in Searches, t \in Names, s \in {0, 1}, pc \in {"search", "ask"} :
              h' = [Idle EXCEPT !.pc = pc, !.op = op, !.token = t, !.stream = s]
        BY <2>1 DEF BeginSearch, Request
      <3>2. h'.op = op
        BY <3>1 DEF Idle
      <3> QED
        BY <1>2, <1>4, <1>6, <3>2, BeginStep DEF Searches
    <2>2. CASE BeginProfiles \/ BeginDate
      <3>1. h'.op \in {"GetProfiles", "GetSystemDateAndTime"}
        BY <2>2 DEF BeginProfiles, BeginDate, Request, Idle
      <3> QED
        BY <1>2, <1>4, <1>6, <3>1, BeginStep
    <2>3. CASE BeginNetwork
      <3>1. h'.pc = "address"
        BY <2>3 DEF BeginNetwork, Request, Idle
      <3> QED
        BY <1>2, <1>4, <1>6, <3>1, BeginStep
    <2> QED
      BY <1>6, <2>1, <2>2, <2>3 DEF Begin
  <1>7. CASE GetAsk \/ GetWait \/ SetByte \/ GetZone \/ GetName
    <2>1. h.pc # "address" /\ UNCHANGED reply
      BY <1>7 DEF GetAsk, GetWait, SetByte, GetZone, GetName
    <2>2. h'.op = h.op /\ h'.str = h.str
      BY <1>1, <1>7 DEF GetAsk, GetWait, SetByte, GetZone, GetName, Handler
    <2> QED
      BY <1>2, <1>3, <2>1, <2>2
  <1>8. CASE SetSize \/ CountTokens \/ Search
    <2>1. h.op \in Searches
      BY <1>8 DEF SetSize, CountTokens, Search, HandlerInv, PlaceInv, Getters, Searches
    <2>2. h'.op = h.op /\ UNCHANGED reply
      BY <1>1, <1>8 DEF SetSize, CountTokens, Search, Handler
    <2> QED
      BY <1>2, <1>4, <2>1, <2>2 DEF Searches
  \* A reply to another request, or to this one once its address has been checked.
  <1>9. ASSUME NEW is, NEW at, NEW tz, NEW utc, Answer(is, at, tz, utc),
               is # "ter:InvalidIPv4Address",
               h.op # "SetNetworkInterfaces" \/ h.pc # "address"
        PROVE  RefusesAllButDottedQuads'
    <2>1. reply'.is = is /\ reply'.op = h.op /\ reply'.str = h.str /\ h' = Idle
      BY <1>9 DEF Answer
    <2> QED
      BY <1>9, <2>1, TakenIdle DEF RefusesAllButDottedQuads, Taken
  <1>10. CASE DecideSet /\ h.found # 0
    <2>1. h'.op = h.op /\ h.op = "SetVideoEncoderConfiguration" /\ UNCHANGED reply
      BY <1>1, <1>10 DEF DecideSet, Handler
    <2> QED
      BY <1>2, <1>4, <2>1
  <1>11. CASE \/ DecideFound \/ DecideStreamUri \/ DecideOptions \/ SetWrite \/ GetProfiles
              \/ IpcamSetValue \/ GetUtc
              \/ DecideSet /\ ~(h.found # 0)
    <2>1. h.pc # "address"
      BY <1>11 DEF DecideFound, DecideStreamUri, DecideOptions, DecideSet, SetWrite,
         GetProfiles, IpcamSetValue, GetUtc
    <2>2. \E is \in {"ok", "fault", "ter:NoProfile"}, at \in {0, h.i, size},
             tz \in {0, h.tz}, utc \in {0, h.ntp_timezone - 12} : Answer(is, at, tz, utc)
      BY <1>11, Zenon
      DEF DecideFound, DecideStreamUri, DecideOptions, DecideSet, SetWrite, GetProfiles,
          IpcamSetValue, GetUtc, Served, Fault
    <2> QED
      BY <1>9, <2>1, <2>2
  <1> QED
    BY <1>5, <1>6, <1>7, <1>8, <1>10, <1>11, AddressStep
    DEF Next, Searching, SetNetworkInterfaces, GetSystemDateAndTime

\* An address is refused as invalid exactly if it is none: for every string a client may
\* write, of any length, whatever the camera answers meanwhile.
THEOREM ChecksAddresses == Spec => []RefusesAllButDottedQuads
  <1>1. Init => RefusesAllButDottedQuads
    BY DEF Init, Idle, NoOp, RefusesAllButDottedQuads
  <1> QED
    BY <1>1, AddressInduction, SoapTypes, SoapInduction, PTL DEF Spec
=============================================================================
