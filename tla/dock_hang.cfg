SPECIFICATION FairSpec
CONSTANTS
  Clients = {c1, c2}
  MaxSessions = 1
  MaxOut = 0
PROPERTIES BridgeEnds
CHECK_DEADLOCK FALSE
