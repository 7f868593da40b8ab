SPECIFICATION FairSpec
CONSTANTS
  Workers  <- MCWorkers
  Keys     <- MCKeys
  WorkerErrors = {"worker"}
  Refs     <- MCRefs
  Drafts   <- MCDrafts
  ReqDrafts <- MCReqDrafts
  Provider <- MCProvider
  MaxDepth = 3
  MaxSteps = 4
  MaxReqs  = 2
  MaxAttempts = 2
INVARIANTS
  DepsPrecede
  DepsSucceeded
  NeverStranded
  GuardNeverRefuses
  WaitingIsTrue
  SuccessIsTotal
  PrerequisitesServe
PROPERTIES
  SucceedsInPlanOrder
  GraphDescends
  KeepsPromise
  KeepsRecord
  GraphReturns
