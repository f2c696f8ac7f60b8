SPECIFICATION Spec
CONSTANTS
  Roles = {"window", "terminal", "cli"}
  MaxConns = 2
  MaxProcs = 2
  Pids = {i1, i2}
  NoPid = NoPid
  AutoStart = 1
  MaxEdits = 1
INVARIANT EditsReachAWindow
CHECK_DEADLOCK FALSE
