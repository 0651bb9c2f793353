CONSTANTS
  main = main
  refresh = refresh
  Senders = {main, refresh}
  NoSender = NoSender
  Modes = {"NET_SEND_DIRECT_MODE"}
  Chunks = 2
  IdleLimit = 0
  WaitLimit = 0
  RecvWrap = 1
  QueueCap = 1
  MaxPoll = 1
  MaxAsked = 1
SPECIFICATION FairServer
INVARIANT
  STypeOK
PROPERTIES
  ImplementsServerLife
  LostCameraEndsProcess
  StalledCameraEndsOrBlocks
