------------------------------ MODULE Scheduler ------------------------------
(***************************************************************************)
(* The deterministic scheduler and the finalization guard of a run         *)
(* (workflow/scheduler.py), as operators on the list of step ids (plan)    *)
(* and the table of steps.                                                 *)
(***************************************************************************)
EXTENDS WorkflowSchemas

Succeeded(step, i) == step[i].status = "succeeded"
Failed(step, i)    == step[i].status \in StepFailed
AllSucceeded(step, ids) == \A d \in ids : Succeeded(step, d)

\* The first loop of decide walks the list once and blocks a schedulable step
\* as soon as one of its dependencies has failed or was blocked earlier in the
\* same walk.  B is the set of places in the list it blocks.
IsBlockedSet(plan, step, B) ==
  \A k \in DOMAIN plan :
    k \in B <=>
      /\ step[plan[k]].status \in Schedulable
      /\ \E d \in step[plan[k]].depends_on :
            \/ Failed(step, d)
            \/ \E j \in 1..(k - 1) : j \in B /\ plan[j] = d

Block(plan, step, B) ==
  [i \in DOMAIN step |->
     IF \E k \in B : plan[k] = i
     THEN Mark(step[i], "blocked", "DEPENDENCY_FAILED")
     ELSE step[i]]

\* A slip: a step may start as soon as nothing it depends on has failed.
DispatchableUnlessFailed(step, i) ==
  /\ \A d \in step[i].depends_on : ~Failed(step, d)
  /\ step[i].status \in {"pending", "ready", "waiting_dependency"}

\* A step the second loop would dispatch: pending or ready with every
\* dependency succeeded, or waiting for prerequisites that all succeeded (it is
\* reset to pending and dispatched in the same pass).
Dispatchable(step, i) ==
  /\ AllSucceeded(step, step[i].depends_on)
  /\ \/ step[i].status \in {"pending", "ready"}
     \/ step[i].status = "waiting_dependency" /\ step[i].depends_on # {}

SomeStatus(step, status) == \E i \in DOMAIN step : step[i].status = status

\* The place in the list of the step decide dispatches: the first one.
IsFirstDispatchable(plan, step, k) ==
  /\ ~SomeStatus(step, "running")
  /\ Dispatchable(step, plan[k])
  /\ \A j \in 1..(k - 1) : ~Dispatchable(step, plan[j])

NothingToDispatch(step) ==
  \/ SomeStatus(step, "running")
  \/ \A i \in DOMAIN step : ~Dispatchable(step, i)

\* A slip: a question to the user does not hold the run open.
MustWaitForSteps(step) == SomeStatus(step, "running") \/ SomeStatus(step, "waiting_dependency")

\* decide answers "wait": a step is running, or some step waits for the user
\* or for prerequisites.
MustWait(step) ==
  \E status \in {"running", "waiting_user", "waiting_dependency"} :
     SomeStatus(step, status)

\* The dispatched step becomes ready; one that waited for prerequisites also
\* loses the error of its earlier attempt.
Ready(s) ==
  Mark(s, "ready", IF s.status = "waiting_dependency" THEN "none" ELSE s.error)

\* FinalizationGuard.finalize raises unless every step is terminal.
MayFinalize(step) == \A i \in DOMAIN step : step[i].status \in StepTerminal

\* Two slips: only steps that failed themselves count; one success is enough.
FinalStatusOfFailed(step) ==
  IF \E i \in DOMAIN step : step[i].required /\ step[i].status = "failed"
  THEN "failed" ELSE "succeeded"
FinalStatusAnySuccess(step) ==
  IF \E i \in DOMAIN step : Succeeded(step, i) THEN "succeeded" ELSE "failed"

FinalStatus(step) ==
  LET failures  == {i \in DOMAIN step : step[i].required /\ Failed(step, i)}
      successes == {i \in DOMAIN step : Succeeded(step, i)}
  IN  IF failures = {}       THEN "succeeded"
      ELSE IF successes = {} THEN "failed"
      ELSE "partially_succeeded"
=============================================================================
