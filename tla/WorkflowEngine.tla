--------------------------- MODULE WorkflowEngine ---------------------------
(***************************************************************************)
(* One WorkflowRun driven by the workflow graph (workflow/engine.py):      *)
(*                                                                         *)
(*    plan -> validate -> schedule -> execute -> schedule -> ... -> finalize *)
(*                                                                         *)
(* A node reads the persisted run, works, and saves it; the variables      *)
(* status, waiting, plan and step are the persisted run.  Between two      *)
(* saves a node awaits (the planner, the worker), and there the request    *)
(* that drives the graph may be dropped.  One request at a time drives the *)
(* run: the races the HTTP layer lets through are in RunSessions.          *)
(*                                                                         *)
(* What a planner or a worker answers is a free choice over the answers    *)
(* their schemas admit.                                                    *)
(***************************************************************************)
EXTENDS PlanValidator, Scheduler, FiniteSets

CONSTANTS
  Drafts,        \* drafts the planner may return for the user's intent
  ReqDrafts,     \* drafts the planner may return for a requirement
  Provider,      \* WorkerCatalog.providers_for: key -> workers
  MaxDepth,      \* _MAX_DEPENDENCY_DEPTH
  \* Bounds of the model, not of the code:
  MaxSteps,      \* steps a run may grow to
  MaxReqs,       \* requirements one worker result may list
  MaxAttempts    \* executions of a step the user may ask for by resuming

ASSUME DraftsAssumption ==
  /\ Drafts \cup ReqDrafts \subseteq Seq(Todo(STRING))
  /\ Provider \in [Keys -> SUBSET Workers]
  /\ {MaxDepth, MaxSteps, MaxReqs, MaxAttempts} \subseteq Nat
  /\ NoKey \notin Keys

VARIABLES
  status,   \* run.status
  waiting,  \* run.waiting_context
  plan,     \* order of run.steps, as a sequence of step ids
  step,     \* run.steps by id
  node,     \* the graph node about to run or awaiting; "ending" has made its last
            \* save and still has to tell of it, "failing" is the except branch,
            \* "end" a graph that returned, "lost" one whose request was dropped
  next,     \* next_step_id of the graph state; 0 is None
  draft,    \* plan_draft of the graph state
  work      \* the run in memory while requirement todos are inserted

run  == <<status, waiting, plan, step>>
vars == <<run, node, next, draft, work>>

NoWork == [plan |-> <<>>, step |-> <<>>, at |-> 0, inherited |-> {}, reqs |-> <<>>]
Active == {"plan", "validate", "schedule", "execute", "worker", "expand",
           "finalize", "ending", "failing"}

Init ==
  /\ status = "planning" /\ waiting = NoWait
  /\ plan = <<>> /\ step = <<>>
  /\ node = "plan" /\ next = 0
  /\ draft = <<>> /\ work = NoWork

-----------------------------------------------------------------------------
(* Planning *)

PlanNode ==
  /\ node = "plan"
  /\ draft' \in Drafts
  /\ node' = "validate"
  /\ UNCHANGED <<run, next, work>>

ValidateNode ==
  /\ node = "validate"
  /\ Valid(draft, "user_intent")
  /\ plan' = [i \in 1..Len(draft) |-> i]
  /\ step' = AddSteps(<<>>, draft, NoOwner, NoKey, 0, {})
  /\ status' = "running"
  /\ node' = "schedule"
  /\ UNCHANGED <<waiting, next, draft, work>>

-----------------------------------------------------------------------------
(* Scheduling: the blocked steps, then one step to dispatch, a pause or the end. *)

\* A slip: the open question stays with the run.
ScheduleExecuteKeepsContext ==
  /\ node = "schedule"
  /\ \E B \in SUBSET DOMAIN plan :
       /\ IsBlockedSet(plan, step, B)
       /\ LET blocked == Block(plan, step, B) IN
          \E k \in DOMAIN plan :
            /\ IsFirstDispatchable(plan, blocked, k)
            /\ step' = [blocked EXCEPT ![plan[k]] = Ready(@)]
            /\ next' = plan[k]
  /\ status' = "running"
  /\ node' = "execute"
  /\ UNCHANGED <<plan, draft, work, waiting>>

ScheduleExecute ==
  /\ node = "schedule"
  /\ \E B \in SUBSET DOMAIN plan :
       /\ IsBlockedSet(plan, step, B)
       /\ LET blocked == Block(plan, step, B) IN
          \E k \in DOMAIN plan :
            /\ IsFirstDispatchable(plan, blocked, k)
            /\ step' = [blocked EXCEPT ![plan[k]] = Ready(@)]
            /\ next' = plan[k]
  /\ status' = "running"
  /\ waiting' = NoWait
  /\ node' = "execute"
  /\ UNCHANGED <<plan, draft, work>>

ScheduleWait ==
  /\ node = "schedule"
  /\ \E B \in SUBSET DOMAIN plan :
       /\ IsBlockedSet(plan, step, B)
       /\ step' = Block(plan, step, B)
  /\ NothingToDispatch(step')
  /\ MustWait(step')
  /\ status' = IF SomeStatus(step', "waiting_user") /\ ~SomeStatus(step', "running")
               THEN "waiting_user" ELSE status
  /\ node' = "ending"
  /\ UNCHANGED <<waiting, plan, next, draft, work>>

ScheduleFinalize ==
  /\ node = "schedule"
  /\ \E B \in SUBSET DOMAIN plan :
       /\ IsBlockedSet(plan, step, B)
       /\ step' = Block(plan, step, B)
  /\ NothingToDispatch(step')
  /\ ~MustWait(step')
  /\ node' = "finalize"
  /\ UNCHANGED <<status, waiting, plan, next, draft, work>>

-----------------------------------------------------------------------------
(* Execution of one step by its worker *)

Begin(s) == [s EXCEPT !.status = "running", !.attempts = s.attempts + 1]

\* A slip: the step is not saved as running before its worker starts.
ExecuteUnsaved ==
  /\ node = "execute"
  /\ node' = "worker"
  /\ UNCHANGED <<run, next, draft, work>>

ExecuteNode ==
  /\ node = "execute"
  /\ step' = [step EXCEPT ![next] = Begin(@)]
  /\ node' = "worker"
  /\ UNCHANGED <<status, waiting, plan, next, draft, work>>

\* The save after the worker answered, for the answers that change one step.
SaveResult(s) ==
  /\ step' = [step EXCEPT ![next] = s]
  /\ node' = "schedule"
  /\ next' = 0
  /\ UNCHANGED <<plan, draft, work>>

WorkerSucceeds ==
  /\ node = "worker"
  /\ SaveResult(WithStatus(step[next], "succeeded"))
  /\ UNCHANGED <<status, waiting>>

WorkerFails ==
  /\ node = "worker"
  /\ \E code \in WorkerErrors : SaveResult(Mark(step[next], "failed", code))
  /\ UNCHANGED <<status, waiting>>

\* A slip: whatever error code the worker put next to its question is the kind.
WorkerAsksAnything ==
  /\ node = "worker"
  /\ \E kind \in {"confirm_delete"} : waiting' = [step |-> next, kind |-> kind]
  /\ status' = "waiting_user"
  /\ SaveResult(WithStatus(step[next], "waiting_user"))

\* A kind the schema of WaitingContext refuses raises instead: NodeRaises.
WorkerAsksUser ==
  /\ node = "worker"
  /\ \E kind \in WaitingKind : waiting' = [step |-> next, kind |-> kind]
  /\ status' = "waiting_user"
  /\ SaveResult(WithStatus(step[next], "waiting_user"))

-----------------------------------------------------------------------------
(* waiting_dependency: todos for the missing facts go before the blocked step *)

\* A slip: the todos go behind the step they are for.
SpliceBehind(s, at, new) ==
  [k \in 1..(Len(s) + Len(new)) |->
     IF k <= at                 THEN s[k]
     ELSE IF k <= at + Len(new) THEN new[k - at]
     ELSE s[k - Len(new)]]

Splice(s, at, new) ==
  [k \in 1..(Len(s) + Len(new)) |->
     IF k < at                 THEN s[k]
     ELSE IF k < at + Len(new) THEN new[k - at + 1]
     ELSE s[k - Len(new)]]

\* The requirement keys of a step and of the steps it was generated for.
Lineage(steps, i) ==
  LET keys[j \in DOMAIN steps] ==
        IF steps[j].owner = NoOwner THEN {} ELSE {steps[j].key} \cup keys[steps[j].owner]
  IN  keys[i]

Providers(key, worker) == Provider[key] \ {worker}

CanExpand(steps, i, key) ==
  /\ key \notin Lineage(steps, i)
  /\ key \notin steps[i].expanded
  /\ Providers(key, steps[i].worker) # {}

Delegable(d, providers) ==
  /\ Valid(d, "requirement")
  /\ \A i \in DOMAIN d : d[i].worker \in providers

\* Distinct keys: the executor keeps one requirement per key.
ReqLists == {r \in UNION {[1..n -> Keys] : n \in 1..MaxReqs} :
               \A i, j \in DOMAIN r : r[i] = r[j] => i = j}

FailRequirement(plan1, step1) ==
  /\ plan' = plan1
  /\ step' = [step1 EXCEPT ![next] = Mark(@, "failed", "REQUIREMENT_PLANNING_FAILED")]
  /\ node' = "schedule"
  /\ next' = 0
  /\ work' = NoWork
  /\ UNCHANGED <<status, waiting, draft>>

WorkerRequires ==
  /\ node = "worker"
  /\ step[next].depth < MaxDepth
  /\ \E reqs \in ReqLists, at \in DOMAIN plan :
       /\ plan[at] = next
       /\ work' = [plan |-> plan, step |-> step, at |-> at,
                   inherited |-> step[next].depends_on, reqs |-> reqs]
  /\ node' = "expand"
  /\ UNCHANGED <<run, next, draft>>

\* No requirement named, or the step is too deep: refused before anything is
\* inserted.  A worker may always name none.
WorkerRequiresInVain ==
  /\ node = "worker"
  /\ FailRequirement(plan, step)

\* A slip: the expansion is not remembered.
RememberNothing(s, key) == s

\* The expansion is remembered, so that the same requirement is not met twice.
Remember(s, key) == [s EXCEPT !.expanded = s.expanded \cup {key}]

ExpandOne ==
  /\ node = "expand" /\ work.reqs # <<>>
  /\ LET key     == Head(work.reqs)
         blocked == work.step[next]
         n       == Len(work.step)
     IN  /\ CanExpand(work.step, next, key)
         /\ \E d \in ReqDrafts :
              /\ Delegable(d, Providers(key, blocked.worker))
              /\ n + Len(d) <= MaxSteps
              /\ LET grown == AddSteps(work.step, d, next, key, blocked.depth + 1,
                                       work.inherited)
                     ids   == [j \in 1..Len(d) |-> n + j]
                 IN  work' = [plan      |-> Splice(work.plan, work.at, ids),
                              step      |-> [grown EXCEPT ![next] = Remember(@, key)],
                              at        |-> work.at + Len(d),
                              inherited |-> TerminalSteps(grown, (n + 1)..(n + Len(d))),
                              reqs      |-> Tail(work.reqs)]
  /\ UNCHANGED <<run, node, next, draft>>

\* A cycle, a repeated requirement, no other worker, or a draft that is invalid
\* or delegates to a worker that cannot help.  The todos of the requirements
\* before this one stay in the run.
ExpandFails ==
  /\ node = "expand" /\ work.reqs # <<>>
  /\ LET key == Head(work.reqs) IN
       CanExpand(work.step, next, key) =>
         \E d \in ReqDrafts : ~Delegable(d, Providers(key, work.step[next].worker))
  /\ FailRequirement(work.plan, work.step)

AwaitTodos(s, ids) == [s EXCEPT !.depends_on = ids, !.status = "waiting_dependency"]

ExpandDone ==
  /\ node = "expand" /\ work.reqs = <<>>
  /\ plan' = work.plan
  /\ step' = [work.step EXCEPT ![next] = AwaitTodos(@, work.inherited)]
  /\ node' = "schedule"
  /\ next' = 0
  /\ work' = NoWork
  /\ UNCHANGED <<status, waiting, draft>>

-----------------------------------------------------------------------------
(* The end of a run *)

FinalizeNode ==
  /\ node = "finalize"
  /\ MayFinalize(step)
  /\ status' = FinalStatus(step)
  /\ waiting' = NoWait
  /\ node' = "ending"
  /\ UNCHANGED <<plan, step, next, draft, work>>

\* The event that tells of the verdict or of the pause is appended and sent, and the
\* graph returns.
GraphEnds ==
  /\ node = "ending"
  /\ node' = "end"
  /\ UNCHANGED <<run, next, draft, work>>

\* A node raises: the planner or the model fails, the draft is invalid, the
\* recursion limit of the graph is reached, the guard refuses to finalize, or the
\* database fails, also when the event that tells of the last save is appended.
NodeRaises ==
  /\ node \in Active \ {"failing"}
  /\ node' = "failing"
  /\ work' = NoWork
  /\ UNCHANGED <<run, next, draft>>

\* Two slips: every step is failed, also finished ones; the run is tried again.
FailRunWithAllSteps ==
  /\ node = "failing"
  /\ status' = "failed" /\ waiting' = NoWait
  /\ step' = [i \in DOMAIN step |-> Mark(step[i], "failed", "WORKFLOW_ERROR")]
  /\ node' = "end"
  /\ UNCHANGED <<plan, next, draft, work>>
FailRunRetries ==
  /\ node = "failing"
  /\ node' = "schedule"
  /\ UNCHANGED <<run, next, draft, work>>

\* _fail_run; it does not look at the status it overwrites.
FailRun ==
  /\ node = "failing"
  /\ status' = "failed"
  /\ waiting' = NoWait
  /\ step' = [i \in DOMAIN step |->
                IF step[i].status = "running"
                THEN Mark(step[i], "failed", "WORKFLOW_ERROR")
                ELSE step[i]]
  /\ node' = "end"
  /\ UNCHANGED <<plan, next, draft, work>>

\* The client goes away or the process stops: the task is cancelled where it
\* awaits, and nothing runs _fail_run; or _fail_run raises itself.
Disconnect ==
  /\ node \in Active
  /\ node' = "lost"
  /\ work' = NoWork
  /\ UNCHANGED <<run, next, draft>>

-----------------------------------------------------------------------------
(* The user *)

\* resume_run with an answer; it refuses a run that does not wait or has no
\* waiting_context.
Resume ==
  /\ node \in {"end", "lost"}
  /\ status = "waiting_user" /\ waiting # NoWait
  /\ step[waiting.step].attempts < MaxAttempts
  /\ step' = [step EXCEPT ![waiting.step] = Mark(@, "pending", "none")]
  /\ status' = "running"
  /\ waiting' = NoWait
  /\ node' = "schedule"
  /\ UNCHANGED <<plan, next, draft, work>>

\* A slip: the open question stays in the record.
CancelRunKeepsContext ==
  /\ node \in {"end", "lost"}
  /\ status \notin RunTerminal
  /\ status' = "cancelled"
  /\ step' = [i \in DOMAIN step |->
                IF step[i].status \in StepTerminal THEN step[i]
                ELSE WithStatus(step[i], "cancelled")]
  /\ node' = "end"
  /\ UNCHANGED <<waiting, plan, next, draft, work>>

\* cancel_run: POST /cancel, a chat that replaces the run, or "cancel" as the
\* answer to an interrupt.
CancelRun ==
  /\ node \in {"end", "lost"}
  /\ status \notin RunTerminal
  /\ status' = "cancelled"
  /\ waiting' = NoWait
  /\ step' = [i \in DOMAIN step |->
                IF step[i].status \in StepTerminal THEN step[i]
                ELSE WithStatus(step[i], "cancelled")]
  /\ node' = "end"
  /\ UNCHANGED <<plan, next, draft, work>>

\* A run that is over stays as it is.
Over == node \in {"end", "lost"} /\ status \in RunTerminal /\ UNCHANGED vars

-----------------------------------------------------------------------------
Schedule == ScheduleExecute \/ ScheduleWait \/ ScheduleFinalize
Worker   == WorkerSucceeds \/ WorkerFails \/ WorkerAsksUser
              \/ WorkerRequires \/ WorkerRequiresInVain
Expand   == ExpandOne \/ ExpandFails \/ ExpandDone
Graph    == PlanNode \/ ValidateNode \/ Schedule \/ ExecuteNode \/ Worker \/ Expand
              \/ FinalizeNode \/ GraphEnds \/ NodeRaises \/ FailRun

Next == Graph \/ Disconnect \/ Resume \/ CancelRun \/ Over

Spec == Init /\ [][Next]_vars

\* The event loop runs every ready task, and the calls a node awaits time out.
\* Nothing need go wrong, but a node that has to raise does.
MustRaise ==
  \/ node = "validate" /\ ~Valid(draft, "user_intent")
  \/ node = "finalize" /\ ~MayFinalize(step)

Progress == PlanNode \/ ValidateNode \/ Schedule \/ ExecuteNode \/ Worker \/ Expand
              \/ FinalizeNode \/ GraphEnds \/ FailRun \/ (MustRaise /\ NodeRaises)

FairSpec == Spec /\ WF_vars(Progress)

-----------------------------------------------------------------------------
(* What the engine promises *)

\* The variables have the types of the schema, in memory as in the database.
TypeOK ==
  /\ status \in RunStatus
  /\ waiting \in WaitingContext
  /\ plan \in Seq(Nat) /\ step \in Seq(Step)
  /\ node \in Active \cup {"end", "lost"}
  /\ next \in Nat
  /\ draft \in Drafts \cup {<<>>}
  /\ work.plan \in Seq(Nat) /\ work.step \in Seq(Step)
  /\ work.at \in Nat /\ work.inherited \in SUBSET Nat /\ work.reqs \in Seq(Keys)

\* The list p holds each of 1..n once.
Permutes(p, n) ==
  /\ \A k \in 1..n : p[k] \in 1..n
  /\ \A j, k \in 1..n : p[j] = p[k] => j = k
  /\ \A i \in 1..n : \E k \in 1..n : p[k] = i

\* x is among the first n of the list.
Among(p, n, x) == \E k \in 1..n : p[k] = x

\* Every dependency of a step comes before it in the list.
Precede(p, n, s) ==
  \A k \in 1..n : \A d \in s[p[k]].depends_on : Among(p, k - 1, d)

Ordered(p, s) == Len(p) = Len(s) /\ Permutes(p, Len(s)) /\ Precede(p, Len(s), s)

\* A dependency always comes before the step that needs it in run.steps, also
\* after requirement todos were inserted, possibly several times and at several
\* depths: what the scheduler's single forward walk relies on.
DepsPrecede == Ordered(plan, step)

\* A step that was dispatched, is running, waits for the user or has succeeded
\* has only succeeded dependencies, whatever was inserted in front of it.
DepsSucceeded ==
  \A i \in DOMAIN step :
    step[i].status \in {"running", "waiting_user", "succeeded"} =>
      AllSucceeded(step, step[i].depends_on)

\* A step blocked by the scheduler has a dependency that failed.
BlockedHasCause ==
  \A i \in DOMAIN step :
    step[i].status = "blocked" => \E d \in step[i].depends_on : Failed(step, d)

\* A graph that has made its last save leaves a run that is over or that waits for the
\* user: the scheduler never answers "wait" while only prerequisites are awaited.
NeverStranded ==
  node \in {"ending", "end"} =>
    \/ status \in RunTerminal
    \/ status = "waiting_user" /\ SomeStatus(step, "waiting_user")

\* When the scheduler answers "finalize" every step is over, so the guard of
\* the finalizer never turns a finished run into a workflow error.
GuardNeverRefuses == node = "finalize" => MayFinalize(step)

\* A waiting context names a step that waits for the user, in a run that does.
WaitingIsTrue ==
  waiting # NoWait =>
    /\ status = "waiting_user"
    /\ waiting.step \in DOMAIN step
    /\ step[waiting.step].status = "waiting_user"

\* A run that succeeded has no required step that did not, and a step that
\* asked for requirements succeeds only after every todo generated for it did.
SuccessIsTotal ==
  /\ status = "succeeded" =>
       \A i \in DOMAIN step : step[i].required => Succeeded(step, i)
  /\ \A g \in DOMAIN step :
       step[g].owner # NoOwner /\ Succeeded(step, step[g].owner) => Succeeded(step, g)

\* A finished step is never reopened, not even by a retry or a resume.
FinishedStaysFinished ==
  [][\A i \in DOMAIN step :
       step[i].status \in StepTerminal => step'[i] = step[i]]_vars

\* Steps succeed in the order of the list, also when some were asked about or
\* waited for others in between: the executor replays their effects in that order
\* to find the facts of the next one.
SucceedsInPlanOrder ==
  [][\A j, k \in DOMAIN plan :
       j < k /\ ~Succeeded(step, plan[j]) /\ Succeeded(step', plan[j])
         => ~Succeeded(step, plan[k])]_vars

\* A verdict stands when the request that gave it can no longer come to _fail_run.
VerdictStands == status \in RunTerminal /\ node \notin {"ending", "failing"}

\* The steps and the plan of a run that is over never change again.  Its verdict is
\* taken back only by the request that gave it, when the event that tells of it cannot
\* be written: then the run has failed, and that stands.
OverStaysOver ==
  [][(status \in RunTerminal) =>
       /\ plan' = plan /\ step' = step
       /\ \/ node = "failing" /\ node' = "end" /\ status' = "failed"
          \/ status' = status /\ waiting' = waiting]_vars

\* Every request that drives the graph ends: planning, dispatching and
\* inserting requirement todos cannot go on for ever.
GraphReturns == (node \in Active) ~> (node \in {"end", "lost"})

\* A todo that is inserted for a requirement is never executed for nothing: some todo
\* of the run depends on it (planner.py), through all later insertions.  That is given
\* up with a todo one of whose further requirements cannot be planned: those inserted
\* for the others are left behind.
PrerequisitesServe ==
  \A g \in DOMAIN step : step[g].owner # NoOwner =>
    \/ step[step[g].owner].error = "REQUIREMENT_PLANNING_FAILED"
    \/ \E k \in DOMAIN step : g \in step[k].depends_on

-----------------------------------------------------------------------------
(* What the repository's documentation says, and the code does not do *)

\* workflow_schemas.py: a run that waits for the user records why.
WaitingHasContext == status = "waiting_user" => waiting # NoWait
=============================================================================
