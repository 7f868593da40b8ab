SPECIFICATION ThreadSpec
CONSTANTS
  Workers  <- MCWorkers
  Keys     <- MCKeys
  WorkerErrors = {"NO_SCENE", "worker"}
  Refs     <- MCRefs
  Drafts   <- MCDrafts
  ReqDrafts <- MCReqDrafts
  Provider <- MCProvider
  MaxDepth = 2
  MaxSteps = 3
  MaxReqs  = 1
  MaxAttempts = 1
  Tasks    = {t1, t2}
  Help     = help
  MaxRuns  = 3
SYMMETRY Symmetry
INVARIANTS
  ThreadTypeOK
  NothingForgotten
  NothingRepeated
PROPERTY
  KeepsThreadPromise
