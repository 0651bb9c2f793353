CONSTANTS
  p1 = p1
  p2 = p2
  m1 = m1
  m2 = m2
  Producers = {p1, p2}
  Nobody = Nobody
  Messages = {m1, m2}
  PayloadLen <- Lengths
  HeaderLen = 2
  MaxFrame = 6
  Size = 8
  Width = 16
  WrapAt = 9
  Blank = Blank
SPECIFICATION Spec
INVARIANTS
  TypeOK
  NoStrandedMessage
PROPERTY
  KeepsPromise
