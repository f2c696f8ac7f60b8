SPECIFICATION FairSpec
CONSTANTS
  Conns = {c1,c2}
  NoConn = NoConn
  MaxStreams = 1
  MaxTalking = 1
  MaxOut = 0
  MaxCwd = 0
  MaxOpens = 1
PROPERTIES ShutdownIsReaped
CHECK_DEADLOCK FALSE
