SPECIFICATION Spec
CONSTANTS
  Rebuilders = {r1}
  MaxTags = 3
  MaxWrites = 3
INVARIANTS NoWriteIsLost
PROPERTIES ForeignIsKept NewestBackupStays
CHECK_DEADLOCK FALSE
