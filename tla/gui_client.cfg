SPECIFICATION FairSpec
CONSTANTS
  Ops = {o1, o2}
  NoOp = NoOp
  MaxConns = 2
INVARIANTS CurrentIsServed AnsweredMeansRan
PROPERTIES RequestsReturn
CHECK_DEADLOCK FALSE
