CONSTANTS
  a = a
  Encoders = {"vcode0"}
  Asked = {a}
  MaxPoll = 1
  MaxInFlight = 2
  MaxRequests = 1
  MaxEdits = 1
SPECIFICATION FairSpec
INVARIANTS
  TypeOK
  ServeOnlyInitialised
  AnswerLostOnlyToTheOther
PROPERTIES
  EveryGetEnds
  DeadLinkEndsProcess
  CopyConverges
