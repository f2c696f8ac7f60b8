SPECIFICATION Spec
CONSTANTS
  MaxPanes = 2
  MaxStreams = 2
  MaxAtts = 3
  MaxData = 1
  MaxBreaks = 1
INVARIANTS EveryShellHasItsPanel ExitIsUnderway
CHECK_DEADLOCK FALSE
