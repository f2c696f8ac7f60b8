SPECIFICATION StartupSpec
CONSTANTS
  Daemons = {d1, d2}
  Bootstraps = {b1, b2}
  Nobody = Nobody
INVARIANTS NoOrphanDaemon
CHECK_DEADLOCK FALSE
