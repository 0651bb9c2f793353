CONSTANTS
  a = a
  Encoders = {"vcode0", "vcode1"}
  Asked = {a}
  MaxPoll = 2
  MaxInFlight = 2
  MaxRequests = 1
  MaxEdits = 0
SPECIFICATION Spec
INVARIANT
  SetSendsWhatItLogged
