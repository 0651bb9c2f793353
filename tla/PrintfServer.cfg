CONSTANTS
  c1 = c1
  c2 = c2
  soap = soap
  Clients = {c1, c2}
  Others = {soap}
  MaxFd = 5
SPECIFICATION FairSpec
INVARIANTS
  TypeOK
  OutputLeavesTheGone

  
  
CHECK_DEADLOCK FALSE
