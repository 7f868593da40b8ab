SPECIFICATION Spec
CONSTANTS
  Steps = {s1, s2}
  Tools = {"open", "delete", "rename", "build", "use", "look"}
  None  = None
  MaxCalls = 2
  MaxExecs = 2
SYMMETRY Symmetry
INVARIANTS
  TypeOK
  FactsAreTrue
  EffectsAreEarned
  ReplaysAreFresh
CHECK_DEADLOCK FALSE
