SPECIFICATION Spec
CONSTANTS
  Conns = {c1, c2}
  NoConn = NoConn
  MaxStreams = 2
  MaxTalking = 1
  MaxOut = 1
  MaxCwd = 0
  MaxOpens = 1
SYMMETRY Symmetry
INVARIANTS DefaultTerminalIsReal ListedSessionIsWatched TemporaryGoesWithItsOwner OwnerSeesAllOutput AttachedSeesTheRest
PROPERTIES ImplementsRegistry
CHECK_DEADLOCK FALSE
