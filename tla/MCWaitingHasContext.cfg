SPECIFICATION Spec
CONSTANTS
  Workers  <- MCWorkers
  Keys     <- MCKeys
  WorkerErrors = {"worker"}
  Refs     <- MCRefs
  Drafts   <- MCDrafts
  ReqDrafts <- MCReqDrafts
  Provider <- MCProvider
  MaxDepth = 3
  MaxSteps = 4
  MaxReqs  = 1
  MaxAttempts = 1
INVARIANTS
  WaitingHasContext
