-------------------------- MODULE EngineInvariant --------------------------
(***************************************************************************)
(* The inductive invariant of WorkflowEngine: what must hold after every   *)
(* action for the properties of the engine to hold after the next one.     *)
(***************************************************************************)
EXTENDS WorkflowEngine

\* Every step is where its dependencies allow it to be: DepsSucceeded and
\* BlockedHasCause of any table of steps, and a step that waits for
\* prerequisites has some.
Sound(s) ==
  \A i \in DOMAIN s :
    /\ s[i].status \in {"running", "waiting_user", "succeeded"} =>
         AllSucceeded(s, s[i].depends_on)
    /\ s[i].status = "blocked" => \E d \in s[i].depends_on : Failed(s, d)
    /\ s[i].status = "waiting_dependency" => s[i].depends_on # {}

\* Where the graph is says what the run and its steps may be.
Fresh ==
  /\ status = "planning" => step = <<>>
  /\ node \in {"plan", "validate"} =>
       /\ status = "planning" /\ waiting = NoWait
       /\ plan = <<>> /\ step = <<>>

RunOpen ==
  /\ node \in Active \ {"ending", "failing"} => status \notin RunTerminal
  /\ node \in {"schedule", "execute", "worker", "expand", "finalize"} =>
       status # "planning"
  /\ status = "waiting_user" => SomeStatus(step, "waiting_user")
  /\ node = "finalize" => status = "running"

\* At most one step runs, the one the graph is at.
OneRuns ==
  /\ node \in {"execute", "worker", "expand"} =>
       /\ status = "running" /\ waiting = NoWait
       /\ next \in DOMAIN step
       /\ AllSucceeded(step, step[next].depends_on)
       /\ step[next].status = IF node = "execute" THEN "ready" ELSE "running"
  /\ \A i \in DOMAIN step : step[i].status = "running" =>
       /\ node \in {"worker", "expand", "failing", "lost"}
       /\ node \in {"worker", "expand"} => i = next
       /\ status = "running" /\ waiting = NoWait

\* w is s with pending steps added; nothing else the scheduler reads changed.
Grown(s, w) ==
  /\ Len(s) <= Len(w)
  /\ \A i \in DOMAIN s :
       w[i].status = s[i].status /\ w[i].depends_on = s[i].depends_on
         /\ w[i].required = s[i].required
  /\ \A i \in DOMAIN w : i \notin DOMAIN s => w[i].status = "pending"

AllAmong(p, n, ids) == \A x \in ids : Among(p, n, x)

\* The run in memory during an insertion: ordered like the saved one, the todos
\* the step will wait for all in front of it, and some as soon as there was one
\* requirement.
Expanding ==
  node = "expand" =>
    /\ Ordered(work.plan, work.step)
    /\ Grown(step, work.step)
    /\ \A i \in DOMAIN step : i # next => work.step[i] = step[i]
    /\ work.at \in 1..Len(work.step) /\ work.plan[work.at] = next
    /\ AllAmong(work.plan, work.at - 1, work.inherited)
    /\ work.reqs = <<>> => work.inherited # {}

\* A verdict of success speaks of every required step.
VerdictTrue ==
  status = "succeeded" => \A i \in DOMAIN step : step[i].required => Succeeded(step, i)

\* A step that did not succeed and cannot be dispatched as things are: it is over,
\* asked a question that is not the open one, or depends on one like it.
Stuck(w, s, i) ==
  \/ s[i].status \in StepTerminal
  \/ s[i].status = "waiting_user" /\ w.step # i
  \/ ~AllSucceeded(s, s[i].depends_on)

\* What stands in front of place k of the list succeeded or is stuck.
FrontStuck(w, p, s, k) ==
  \A j \in 1..(k - 1) : ~Succeeded(s, p[j]) => Stuck(w, s, p[j])

PassedOver(w, p, s) ==
  \A k \in DOMAIN p : Succeeded(s, p[k]) => FrontStuck(w, p, s, k)

\* The scheduler passed over a step for a later one only when it was stuck.
InOrder ==
  /\ PassedOver(waiting, plan, step)
  /\ node \in {"execute", "worker"} =>
       \A k \in DOMAIN plan : plan[k] = next => FrontStuck(waiting, plan, step, k)
  /\ node = "expand" => PassedOver(waiting, work.plan, work.step)

\* A step given up because its requirements could not be planned is over for good.
GivenUp(s, i) == s[i].error = "REQUIREMENT_PLANNING_FAILED"

GivenUpIsFailed(s) == \A i \in DOMAIN s : GivenUp(s, i) => s[i].status = "failed"

\* The step a todo was generated for comes after it in the list.
OwnerBehind(p, s) ==
  \A a \in DOMAIN p : s[p[a]].owner # NoOwner =>
    \E c \in DOMAIN p : a < c /\ p[c] = s[p[a]].owner

\* Between a todo and its owner stand only todos of the same family.
Nested(p, s) ==
  \A a, b, c \in DOMAIN p : a < b /\ b < c /\ s[p[a]].owner = p[c] =>
    \E e \in DOMAIN p : b < e /\ e <= c /\ s[p[b]].owner = p[e]

\* What was generated for a step is needed by it or by a step in front of it.
Served(p, s) ==
  \A a, c \in DOMAIN p : s[p[a]].owner = p[c] =>
    \/ GivenUp(s, p[c])
    \/ \E b \in DOMAIN p : b <= c /\ p[a] \in s[p[b]].depends_on

\* The same while todos are inserted: the step at work does not yet depend on
\* the last ones, and will no longer depend on what the first ones inherited.
ServedSoon(p, s, at, ids) ==
  \A a, c \in DOMAIN p : s[p[a]].owner = p[c] =>
    \/ GivenUp(s, p[c])
    \/ \E b \in DOMAIN p : b # at /\ b <= c /\ p[a] \in s[p[b]].depends_on
    \/ /\ p[a] \in ids /\ at <= c
       /\ p[a] \in s[p[at]].depends_on \/ c = at

Family ==
  /\ GivenUpIsFailed(step) /\ OwnerBehind(plan, step) /\ Nested(plan, step)
  /\ Served(plan, step)
  /\ node = "expand" =>
       /\ GivenUpIsFailed(work.step) /\ OwnerBehind(work.plan, work.step)
       /\ Nested(work.plan, work.step)
       /\ ServedSoon(work.plan, work.step, work.at, work.inherited)

IInv ==
  /\ TypeOK
  /\ DepsPrecede /\ Sound(step)
  /\ Fresh /\ RunOpen /\ OneRuns /\ Expanding
  /\ WaitingIsTrue /\ NeverStranded /\ GuardNeverRefuses /\ VerdictTrue
=============================================================================
