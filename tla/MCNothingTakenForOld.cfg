SPECIFICATION Spec
CONSTANTS
  Calls  = {c1, c2}
  Graph  = graph
  MaxRev = 3
  MaxCall = 3
  MaxSeq = 7
INVARIANT
  NothingTakenForOld
CHECK_DEADLOCK FALSE
