SPECIFICATION FairSpec
CONSTANTS
  Keys  = {k1}
  Calls = {c1, c2}
  Posts = {p1, p2}
  None  = None
  MaxTries = 2
  MaxExecs = 2
INVARIANTS
  TypeOK
PROPERTIES
  KeepsPromise
  Returns
  LateAnswerIsFound
CHECK_DEADLOCK FALSE
