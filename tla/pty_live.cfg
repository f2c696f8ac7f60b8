SPECIFICATION FairSpec
CONSTANTS
  Conns = {c1,c2}
  NoConn = NoConn
  MaxStreams = 1
  MaxTalking = 1
  MaxOut = 0
  MaxCwd = 1
  MaxOpens = 1
PROPERTIES CloseReclaims ExitIsReported TasksReturn
CHECK_DEADLOCK FALSE
