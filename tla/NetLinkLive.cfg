CONSTANTS
  s1 = s1
  s2 = s2
  Senders = {s1}
  NoSender = NoSender
  Modes = {"NET_SEND_DIRECT_MODE", "NET_SEND_BUF_MODE"}
  Chunks = 2
  IdleLimit = 1
  WaitLimit = 1
  RecvWrap = 1
  QueueCap = 1
SPECIFICATION FairSpec
PROPERTIES
  StopFlagEndsProcess
  ReaderEndEndsProcess
  LostPeerIsNoticed
  SendThreadEndStopsReader
