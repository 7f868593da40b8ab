------------------------------ MODULE RunRecord ------------------------------
(***************************************************************************)
(* A row of workflow_runs as the requests of a conversation see it, and    *)
(* what each operation of workflow/engine.py makes of the run it has read. *)
(* RunSessions has requests that read and save such runs in any order;     *)
(* EngineRecord shows that WorkflowEngine makes nothing else of one.       *)
(***************************************************************************)
EXTENDS Integers, Sequences

Terminal == {"succeeded", "partially_succeeded", "failed", "cancelled"}
Status   == {"planning", "running", "waiting_user"} \cup Terminal

\* A step is open until it runs (pending, ready, waiting for prerequisites), asks the
\* user, and is over however it ended.
StepState == {"open", "running", "asking", "over"}

\* waiting is the step the waiting_context names; 0 is None.
Run ==
  {run \in [status : Status \cup {"none"}, rev : Nat, step : Seq(StepState), waiting : Nat] :
     run.waiting \in {0} \cup DOMAIN run.step}

NoRun  == [status |-> "none", rev |-> 0, step |-> <<>>, waiting |-> 0]
NewRun == [NoRun EXCEPT !.status = "planning"]

\* A run find_active_by_thread would return.
IsOpen(run) == run.status \in Status \ Terminal

StepsIn(run, state) == {i \in DOMAIN run.step : run.step[i] = state}

Turned(run, steps, state) ==
  [run EXCEPT !.step = [i \in DOMAIN run.step |-> IF i \in steps THEN state ELSE run.step[i]]]

Grown(run, n) == [run EXCEPT !.step = run.step \o [i \in 1..n |-> "open"]]

-----------------------------------------------------------------------------
(* The nodes of the graph *)

Planned(run, n) == [run EXCEPT !.status = "running", !.step = [i \in 1..n |-> "open"]]

Dispatched(run) == [run EXCEPT !.status = "running", !.waiting = 0]
Paused(run)     == [run EXCEPT !.status = "waiting_user"]

\* The guard of the finalizer: every step is over.
MayDecide(run) == StepsIn(run, "over") = DOMAIN run.step

\* Where the graph goes after scheduling, and which step it is to execute there (a step
\* the decision names otherwise is nobody's business).
To(run, place, i) == [run |-> run, place |-> place, next |-> i]

\* With a step running (under another request) the scheduler answers "wait".
Decisions(run) ==
  IF StepsIn(run, "running") # {} THEN {To(run, "ending", 0)}
  ELSE IF MayDecide(run)          THEN {To(run, "finalize", 0)}
  ELSE {To(Dispatched(run), "execute", i) : i \in StepsIn(run, "open")}
         \cup {To(Paused(run), "ending", 0) : i \in StepsIn(run, "asking")}

\* First some open steps are blocked.
Scheduled(run) ==
  UNION {Decisions(Turned(run, blocked, "over")) : blocked \in SUBSET StepsIn(run, "open")}

Started(run, i) == Turned(run, {i}, "running")

Closed(run, i) == Turned(run, {i}, "over")
Asked(run, i)  == [Turned(run, {i}, "asking") EXCEPT !.status = "waiting_user", !.waiting = i]

\* The worker closes its step, asks the user, or has todos inserted for it, which may
\* also come to nothing half-way.
Returned(run, i, inserts) ==
  {Asked(run, i)}
    \cup {Grown(Closed(run, i), n) : n \in inserts}
    \cup {Grown(Turned(run, {i}, "open"), n) : n \in inserts \ {0}}

Verdict == {"succeeded", "partially_succeeded", "failed"}
Decided(run, verdict) == [run EXCEPT !.status = verdict, !.waiting = 0]

\* _fail_run does not look at the status it overwrites.
GivenUp(run) ==
  [Turned(run, StepsIn(run, "running"), "over") EXCEPT !.status = "failed", !.waiting = 0]

-----------------------------------------------------------------------------
(* The user *)

\* _apply_resume: the step that asked gets its answer.
MayResume(run) == run.status = "waiting_user" /\ run.waiting # 0
Resumed(run) ==
  [Turned(run, {run.waiting}, "open") EXCEPT !.status = "running", !.waiting = 0]

Cancelled(run) ==
  [Turned(run, DOMAIN run.step, "over") EXCEPT !.status = "cancelled", !.waiting = 0]
=============================================================================
