SPECIFICATION Spec
CONSTANTS
  Steps = {s1, s2}
  Tools = {"open", "delete", "rename", "build", "use", "look"}
  None  = None
  MaxCalls = 3
  MaxExecs = 1
SYMMETRY Symmetry
INVARIANTS
  ContextIsCurrent
CHECK_DEADLOCK FALSE
