SPECIFICATION Spec
CONSTANTS
  Configs <- AllConfigs
  HostEnvs <- MCHostEnvs
  Images <- MCImages
  Hardware = {"nvidia", "cdi"}
  Sessions = {"xauth_1", "xauth_2"}
  OwnCookie = "xauth_own"
  None = None
  MaxCommands = 2
  MaxFaults = 2
CONSTRAINT Apart
INVARIANTS RuntimeDirsAreRight UserWins IdentityAgrees CookieIsFollowed
CHECK_DEADLOCK FALSE
