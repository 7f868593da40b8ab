SPECIFICATION Spec
CONSTANTS
  Keys  = {k1}
  Calls = {c1}
  Posts = {p1}
  None  = None
  MaxTries = 2
  MaxExecs = 2
SYMMETRY Symmetry
INVARIANTS
  AnswerBelongs
CHECK_DEADLOCK FALSE
