SPECIFICATION FairSpec
CONSTANTS
  Roles = {"window", "cli"}
  MaxConns = 2
  MaxProcs = 2
  Pids = {i1, i2}
  NoPid = NoPid
  AutoStart = 1
  MaxEdits = 1
INVARIANTS ListingIsTrue NothingListedSurvives EditsGoToTheRegistered
PROPERTIES ExitsAreRecorded ShutdownEnds
CHECK_DEADLOCK FALSE
