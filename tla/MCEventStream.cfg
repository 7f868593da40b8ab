SPECIFICATION FairSpec
CONSTANTS
  Calls  = {c1, c2}
  Graph  = graph
  MaxRev = 3
  MaxCall = 3
  MaxSeq = 7
INVARIANTS
  TypeOK
  FramesInOrder
  LastFrameIsTrue
  ClientIsUpToDate
PROPERTIES
  StreamEnds
CHECK_DEADLOCK FALSE
