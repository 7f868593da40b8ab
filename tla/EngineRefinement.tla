-------------------------- MODULE EngineRefinement --------------------------
(***************************************************************************)
(* The workflow engine keeps the promise of a run.                         *)
(***************************************************************************)
EXTENDS WorkflowEngine

Promise == INSTANCE RunPromise WITH
  st      <- status,
  settled <- VerdictStands,
  todos   <- DOMAIN step,
  must    <- {i \in DOMAIN step : step[i].required},
  ok      <- {i \in DOMAIN step : Succeeded(step, i)},
  bad     <- {i \in DOMAIN step : Failed(step, i)}

\* Every step of the graph is a step of the abstract run or changes nothing of
\* it: todos are closed once, a required todo stays required through every
\* insertion, the verdict speaks of all of them, and it is taken back at most once.
KeepsPromise == Promise!PSpec
=============================================================================
