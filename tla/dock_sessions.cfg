SPECIFICATION FairSpec
CONSTANTS
  Clients = {c1, c2}
  MaxSessions = 1
  MaxOut = 1
INVARIANTS RunningIsReachable ZombieIsNoticed DrawsInOrder
PROPERTIES CloseReclaims ExitIsHeard
CHECK_DEADLOCK FALSE
