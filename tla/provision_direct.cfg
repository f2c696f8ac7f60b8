SPECIFICATION Spec
CONSTANTS
  Configs <- Few
  HostEnvs <- OneHostEnv
  Images <- OneImage
  Hardware = {}
  Sessions = {"xauth_1"}
  OwnCookie = "xauth_own"
  None = None
  MaxCommands = 2
  MaxFaults = 0
INVARIANTS DirectIsSpared
CHECK_DEADLOCK FALSE
