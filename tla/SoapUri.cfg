CONSTANTS
  p0 = p0
  p1 = p1
  v0 = v0
  v1 = v1
  in0 = in0
  in1 = in1
  unknown = unknown
  empty = empty
  profiletoken <- MCprofiletoken
  inputtoken <- MCinputtoken
  vcodetoken <- MCvcodetoken
  Tokens <- MCTokens
  NoToken = empty
  CameraSize = 3
  Addresses <- MCAddresses
  factory <- MCfactory
  Zones <- MCZones
  MaxInFlight = 2
  MaxRequests = 1
  MaxEdits = 0
SPECIFICATION Spec
INVARIANT
  StreamUriOnlyOfProfile
