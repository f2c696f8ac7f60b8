SPECIFICATION Spec
CONSTANTS
  Rebuilders = {r1}
  MaxTags = 2
  MaxWrites = 1
PROPERTIES OnlyCopyIsKept
CHECK_DEADLOCK FALSE
