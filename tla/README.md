# A verification model of the space agent's workflow core

TLA+ modules, TLC configurations and TLAPS proofs for `src/src/space_aiagent`: the part of the
service that turns a request of the user into a plan of worker todos, executes them through tools
that run in the browser, and keeps the record of it in SQLite. Paths below are relative to
`src/src/space_aiagent` unless they start with `src/`; *the white paper* is
`src/readme/Agent内核架构白皮书.md`, *the frontend guide* `src/docs/前端SSE对接指南.md`.

## 1. The system

| Part | State | Operations | Talks to |
|---|---|---|---|
| **HTTP routes** `api/routes.py` | none of its own | chat, tool-result, get run, resume, cancel; the SSE generator of a request and the background task that drives the graph | everything below |
| **Session manager** `bridge/session.py` | one bridge per `thread_id`, in memory | register, unregister, get_bridge | routes |
| **Workflow engine** `workflow/engine.py` | the persisted `WorkflowRun`, and the state of a LangGraph graph while a request drives it | create_run (with the unfinished tasks of the thread's last run), resume_run, cancel_run; the nodes plan, validate, schedule, execute, finalize; insertion of requirement todos; `_fail_run` | planner, scheduler, executor, repository |
| **Scheduler, finalization guard** `workflow/scheduler.py` | mutates the run it is given | decide, finalize | engine |
| **Plan validator, worker catalog** `workflow/validator.py`, `catalog.py` | none | validate a draft, providers_for | engine |
| **Step executor** `workflow/executor.py`, `execution_context.py`, `middleware/worker_tool_validation.py` | the execution context of one step: facts, calls, signatures, effects | execute; guards around each tool call | engine, bridge |
| **Tool bridge** `bridge/stream_bridge.py` | `_pending` futures, event queue | send_tool_call, resolve_tool_result_dict, cleanup | client (by events), repository, routes |
| **Run repository** `workflow/repository.py` | runs with a revision, steps, events, tool executions, event sequence | save_run compares the revision; start and complete of tool executions | SQLite |
| **Retry middleware** `middleware/retry.py` | none | repeats a tool call that timed out, a model call that failed | executor |
| **Skill routing** `middleware/skill_routing.py`, `infrastructure/skill/catalog.py` | the route in the worker's checkpointed state | route a task, open and guard tools | executor |
| **Event stream** `routes.py`, `bridge`, `repository.next_sequence` | queue, sequence number | emit, terminal event, close | client |
| Rest: presentation, result resolver, tool bodies, configuration, logging, tracing, command line | | | |

Interaction in one paragraph. A chat looks for a bridge of its thread, then (after an await) for an
open run, and creates, continues, replaces or refuses. The request that is let in registers a
bridge and drives the graph in a background task; every node reads the run from the database,
works, and saves it with the revision it read. The execute node runs a worker; the worker calls
tools; a tool call becomes an event to the client and a future that `POST /tool-result`, another
request, resolves. The step's result may close it, stop the run at a question to the user, or have
todos for missing requirements inserted in front of it.

**What is hard here.** Inserted prerequisites and a single forward walk of the scheduler (ordering);
one `waiting_context` for a run in which several steps may ask; handlers that check, await and then
act (atomicity); a stream that breaks off between two saves, and processes that stop (crash);
answers of the client that are late, lost, repeated or belong to an earlier execution (delivery,
timeouts); streams that end for different reasons, and threads of workers that go on after a restart
(protocol); a ledger that replays results into a scene that may have changed (staleness); effects of
calls that get lost with the step that made them (partial failure); tasks a run leaves unfinished,
which reach the next run only through the run before it (protocol). Each is listed at its line under
`hazards` in `PROJECT.json`, with the properties that are about it.

**What makes each part correct.**

* Engine: dependencies before dependents; nothing starts early; blocks have a cause; the graph
  returns, with a run that is over or really waits; the verdict speaks of every required step, and is
  taken back at most once, before anybody was told of it; finished stays finished; inserted todos serve somebody; steps succeed in plan order.
* A thread of runs: what the user is still owed reaches the planner of the next run, whatever became
  of the runs in between; what is settled is not planned again.
* Sessions: one driver and one open run per conversation; no lost update; no thread locked by a
  request that is gone; every request is answered, unless its error cannot be written.
* Tool bridge: the ledger is one register per idempotency key, and a call returns what that register
  held while it ran; every call returns; a late answer is found.
* Step executor: facts and scene context are the client's scene; effects are earned; the ledger
  never answers across a change of the scene that the run knows of.
* Event stream: events arrive in the order of their numbers; what a stream ends with is so; who has
  read it to its end shows the run as it is; every stream ends, unless its error cannot be told.
* Skill routing: a tool is performed for a task the router has ruled on, under a skill it chose for
  that task; nothing is performed that wants an approval and has none; the user's answer reaches
  what has asked.

## 2. The modules

| Module | Models | State ↔ code |
|---|---|---|
| `WorkflowSchemas` | `models/workflow_schemas.py` | statuses, `Step` (PlanStep), `WaitingContext`; tasks, prompts and results have no field |
| `PlanValidator` | `validator.py` | `Valid`, `AddSteps`, `TerminalSteps` |
| `Scheduler` | `scheduler.py` | `decide` as operators on the list of ids (`plan`) and the table of steps (`step`): the blocked set, the first dispatchable step, whether to wait; `FinalStatus`, `MayFinalize` for the guard |
| `WorkflowEngine` | `engine.py` | `status`, `waiting`, `plan`, `step` are the persisted run; `node`, `next`, `draft` the graph state (`node` is "ending" between the last save of a graph and its event, "failing" in `_fail_run`); `work` the run in memory during `_insert_requirement_todos` |
| `EngineInvariant` | – | the inductive invariant `IInv` |
| `EngineProgress` | – | what every node of the graph makes smaller, and the properties about it |
| `RunPromise` | white paper 3.1 | the abstract life of a run: todos closed once and for all, a verdict, and when it is `settled` |
| `EngineRefinement` | – | the mapping from the engine's run to `RunPromise` |
| `WorkflowEngineLemmas`, `WorkflowEngineProofs` | – | the proofs about the engine |
| `RunRecord` | what each operation of `engine.py`, `scheduler.py` makes of the run it has read | a row of workflow_runs: status, revision, the step waited for, and each step as *open*, *running*, *asking* or *over* |
| `EngineRecord` | – | the mapping from the engine's run to such a row |
| `RunSessions` | `routes.py`, `session.py`, read and save of `repository.py` and `engine.py` | `db` (workflow_runs with revision), `bridge` (SessionManager), and per request where it is (`pc`: a handler, `create_run` or `resume_run`, a node, "ending", `_fail_run`, and the last event, the error, or none), its run (`target`), what it read last (`snap`) and the step it executes (`next`, of the graph state) |
| `SessionClients` | the clients (external) | `habit`: how many requests, how large runs, and whether the client waits for a handler before it sends the next request |
| `ThreadPromise` | – | the abstract thread: at most one open run, and the runs that are over |
| `RunSessionsProofs` | – | the invariants of `RunSessions` and of a patient client, and the proofs |
| `Conversation` | `_recoverable_tasks` of `engine.py`, `list_recent_runs_by_thread`, the prompt of `planner.py` | `WorkflowEngine`, with the task of each todo (`todo`), the steps of the run before (`before`), and the history of what the user is `owed` |
| `ConversationProofs` | – | its invariant, and the proofs |
| `ToolBridge` | `stream_bridge.py`, `/tool-result`, `tool_executions`, `retry.py`, call limits | `ledger`, `pending` (`_pending`), per call `at`, `key`, `tries`, `got`; per post where it is; `sent` and `cache` are the client; `held` is history |
| `ToolPromise` | – | the abstract ledger: a register per key, and calls that read it |
| `ToolBridgeProofs` | – | that `ToolBridge` implements it |
| `WorkerStep` | `executor.py`, `execution_context.py`, `contracts.py`, `_apply_effects` | `context` (scene_context), `results`, `work` (StepExecutionContext), `ledger` by step and tool, `scene` (the client's); `strayed`, and the revision in `results`, are histories |
| `WorkerStepProofs` | – | its invariant, and the proofs |
| `EventStream` | `_stream_workflow_response`, `_finish_workflow_stream` of `routes.py`, `_emit`, `repository.next_sequence` | `seq` (workflow_sequences), `bridge` (what it knows of the run), `queue` (`_queue`), by coroutine the events still to emit (`co`), `pc` (`_run_and_emit`), `gen` (the generator), `client`, and of the `run` what the last event depends on |
| `EventStreamProofs` | – | its invariant, and the proofs |
| `AgentThread` | `execute` of `executor.py`, `_apply_resume`, `skill_routing.py`, `skill/catalog.py`, the retries of the model in `retry.py` | `catalog`, `step` (the fields of PlanStep a thread depends on), `cp` (the checkpointed threads), `pc`; `ruled`, `approved`, `act` are histories |
| `AgentThreadProofs` | – | its invariant, and the proofs |
| `MC…` | – | constants and symmetry for TLC |

Each module carries, next to the operator it varies and marked *a slip*, the faulty form used to see
that a property notices it; no specification uses these.

How the parts fit. `WorkflowEngine` is the run under **one** driver, with a client that may drop the
request at any node; `Conversation` puts the runs of a thread one after another, each planned with
what `_recoverable_tasks` finds in the one before; `RunSessions` has the overlapping requests and keeps of a run what they race
for: a row of `RunRecord`. What a node makes of its row is left open there as far as the order and the dependencies
of the todos decide it, and `EngineRecord` shows that `WorkflowEngine` makes nothing else of a run
(`KeepsRecord`): the two models of the engine's nodes are one.

The node that saves the verdict, or the pause, still has to tell of it: `_emit` writes the event to
the database. When that fails the `except` of `create_run` or `resume_run` runs `_fail_run`, which does not look
at the status it overwrites: a run that has succeeded, or waits for an answer, becomes a failed one
(`engine.py`, 162–164, 301–307, 495–496, 564–579). In `WorkflowEngine` this is the node "ending", in `RunSessions` the
place "ending", from which `NodeRaises` leads to `_fail_run`, in `EventStream` the place "finish". What is promised
of runs that are over is stated accordingly. The steps of a run that is over never change. Its verdict
*stands* (`VerdictStands`, `IsOver`) when the request that gave it can no longer come to
`_fail_run`, and until then `ThreadPromise` counts the run as open and `RunPromise` as not `settled`.

`ToolBridge` is inside one step of the engine; its calls may overlap. `WorkerStep` strings
executions together and sees calls one at a time, with what `ToolBridge` says a call can come back
with: performed, replayed, timed out (and performed or recorded all the same), refused. `AgentThread` is one step and
the thread of its worker, across questions, approvals and restarts; what a call does is a free
choice there. `EventStream` is one run and one request at a time, with calls that emit beside the graph.
That `WorkerStep` may keep its results in plan order is the engine's theorem `OrderOfSuccess`.

Choices worth knowing. A planner or worker answers anything its schema admits, with one exception:
in `Conversation` the planner lists every task it is told was left over, as its prompt orders
(`planner.py`, 99); what a model does that ignores the order cannot be promised. Of the error codes of
a step, those of a worker are the constant `WorkerErrors`: `NO_SCENE`, and one that stands for all
others. `NodeRaises` lets
any node fail at any time, after its last save too: it stands for database errors, planner errors and bugs alike; where the
code must raise (a draft the validator refuses) nothing else is enabled. In `RunSessions` the queries and events
around the graph may fail as well: those of a handler (`HandlerRaises`: 500), of `create_run`, `resume_run`, `_fail_run` and
of the reading of the run for the last event (`OperationRaises`). The stream then tells of the error (`Tell`), or cannot
(`TellNothing`). In `RunSessions` the
client's cancellation of a stream and the restart of the process may happen at every await. It is
assumed that the HTTP framework starts iterating the response of a request it has admitted: a
generator that never starts would never unregister its bridge. `Close` pops whatever bridge the
thread has, as `unregister` does. In `ToolBridge` the client performs a call once per idempotency
key and repeats its result, as the frontend guide (57–58) asks; whether it answers at all is open. In `WorkerStep`
the facts about entities (`entity.created`, `entity.updated`, `entity.deleted`, which no tool requires) are one,
and whether the client counts a change of entities, or a new name, as another revision of its scene is up to it. In
`AgentThread` the model may call any set of tools at once, also tools it was not shown, and the loop
of model and tools has no bound (the library's recursion limit would end it); one tool interrupts
itself, so at most one such interrupt is open. In `EventStream` the write lock of SQLite makes the allocation of a
number and the put into the queue one section, which is what `Number` and `Put` say.

## 3. The runs

All `pass` runs finish without error; deadlock is checked except where noted.

| Run | Shows | Bounds, and why they are enough |
|---|---|---|
| `engine` | plan order, no early start, no stranded run, guard and scheduler agree, waiting context true, total success, inserted todos are prerequisites of somebody; steps succeed in plan order; every node leaves less to do (`GraphDescends`); the run implements `RunPromise` (`KeepsPromise`); each node makes of it what `RunRecord` says (`KeepsRecord`), both with a database that fails at any node and after the last save; every request that drives the graph returns (`GraphReturns`) | 7 drafts: one todo, an independent pair, a chain, an optional first step, three the validator refuses; 5 requirement drafts; 2 keys each provided by both workers, 2 requirements per result, depth 3, 4 steps, 2 attempts: nested insertion, two insertions for one step, a failing second requirement, asking beside an independent todo, a verdict taken back all occur (602 154 states) |
| `conversation` | what the user is owed reaches the planner of every later run, what is settled does not come back; the runs implement `ThreadPromise` (`KeepsThreadPromise`) | 3 runs: a task has to survive a run in between; 2 tasks (symmetric), drafts of one todo, a pair and a chain, one requirement draft, 3 steps, 1 attempt: tasks that are left blocked, failed, cancelled, interrupted by a disconnect, of a run whose verdict was taken back, or not planned at all (3.4 million states) |
| `sessions` | no lost update, no leaked session, every request answered unless its error cannot be written, for requests that overlap in any way; and for a client that waits for the handler of its last request to decide (the properties `Patient…`) one driver and no cancel under it, answers that reach their driver, and every step one of `ThreadPromise` or none (`PatientThread`): one open run, runs that stay once their verdict stands | three habits: 3 requests about runs of 1 todo, patient (one leaves a run, two meet over it); 2 patient requests and 2 todos, the second inserted or planned; 2 impatient requests and 1 todo: every race here is between two; with 2 todos the last would take longer than a run may (604 217 states) |
| `tools` | the ledger implements `ToolPromise` (`KeepsPromise`): one register per key, and a call returns what it held while the call ran; every call returns; a late answer is found by the next attempt | 1 key, 2 calls (equal calls in flight), 2 posts (overlapping answers), 2 attempts (code: 3), 2 executions of the step (216 072 states). Calls with different keys share nothing but the worker. `CHECK_DEADLOCK FALSE`: a conversation may be over |
| `worker_step` | facts and scene context are the client's scene as long as no worker strays or repeats a call; effects are earned; a step executed again gets nothing recorded before the scene was opened, renamed or deleted, or before a revision the client has acknowledged since | 2 steps (symmetric), all six kinds of contract, 2 calls per execution (code: 20), 2 executions (2.7 million states). Deadlock off: the run may be over |
| `events` | numbered events arrive in order, what a stream ends with is so, the client of a finished stream is up to date, every stream ends unless its error cannot be told | 2 calls beside the graph, 3 saves, calls begin below event 3 and streams below event 7: two streams, each with overlapping calls (825 619 states). Deadlock off: the conversation may be over |
| `agent_thread` | tools are opened by the router for their very task, nothing is performed unapproved, answers reach what has asked | 2 skills, 2 tools (one under approval, one that interrupts itself), 5 contents of a skill file, one of them refused, 3 executions: begin, continue, and continue or begin again after a restart with other files, each possibly ended by a model that stays unavailable (2.4 million states). Deadlock off: the step may be over |

Runs that **must** find a violation (each one a finding in `PROJECT.json`):

| Run | What the code does |
|---|---|
| `waiting_without_context` | ask in todo 1, dispatch the independent todo 2: `decide` clears `waiting_context`, the run then waits for the user with nothing to answer |
| `two_active_runs` | two overlapping chats both find no open run and create one each. The same window lets two requests drive one thread, cancel a run under its driver, and `_fail_run` overwrite a cancelled run: that is why the properties `Patient…` speak of a patient client only |
| `answer_refused` | a step executed again sends its new `execution_id`, the ledger row keeps the old: 409 for every answer |
| `context_drifts` | delete the scene, make one query twice: the deduplicated success carries the effects of the query alone, and the scene context says *opened* |
| `error_taken_for_old` | a resume that fails before its bridge is given the repository sends its error as event 1, a number the client has seen and drops |

Also seen while modelling, without a run:

* the scheduler dispatches a step while another one waits for the user, though the white paper (97)
  lists the absence of an open question among the conditions of a dispatch; `SucceedsInPlanOrder`,
  which the executor's facts rely on, holds *because* the context of the open question is lost and
  its step can never be resumed;
* when the second of two requirements cannot be planned, the todos inserted for the first stay and
  serve nobody (`PrerequisitesServe` excepts them);
* a run that fails before it has a plan hands nothing on: the tasks it was itself handed are lost to
  the thread, although `engine.py` (251) wants the chain unbroken. `NothingForgotten` speaks of
  tasks that have become todos; a cancelled run still hands on its todos that were blocked or found
  no scene, and todos for requirements are handed on like the user's own;
* two posts with different results for one call that overlap both find the row unfinished: the last
  write wins, and neither is refused (`routes.py`, 256; `repository.py`, 409). In the other order a
  success after a recorded failure is refused with 409;
* an answer recorded between the ledger lookup of a retry and its future wakes nobody; nor does its
  repetition, which returns at the known row. With the last attempt the worker is told of a timeout
  although the result is recorded;
* a step whose model stayed unavailable fails with a code that `_recoverable_tasks` does not know:
  it is not handed on to the next run;
* an answer without words to a question of the worker (`user_input` defaults to the empty string) is
  sent as `Command(resume)` to a fresh thread, so that the worker has no task
  (`executor.py`, 114; the exception in `AnswersAreHeard`);
* a chat's answer to an approval of the library is not in the form the library wants: it raises, and
  the run fails;
* the verdict of a run, or its question, can be saved and then be overwritten by *failed*, when only
  the event that tells of it could not be written (`engine.py`, 495–496, 301–307, 564–579): the work
  of all todos is done, their steps say so, and the user is told of a failure;
* when neither the last event nor the error can be written, the generator waits on its queue for ever
  (`routes.py`, 112–114, 134–140): the request is not answered, and its bridge locks the thread until
  the client goes away or the process stops (the exception in `Answered` and `StreamEnds`);
* tools that make, change or delete entities have effects which do not move the revision of
  `scene_context` (`engine.py`, 539–562): a step that has asked and is executed again after such a
  step is answered from the ledger with what was shown before, unless the client has acknowledged a
  higher revision (what `ReplaysAreFresh` leaves out);
* a failure between the creation of a run and the graph leaves a run that is `running` and that
  nobody drives: chats are refused until one replaces it, or it is cancelled.

**Fairness.** `FairSpec` of the engine: weak fairness of `Progress`, the steps of the graph without
`NodeRaises` unless the node can do nothing else – asyncio runs every ready task, queries return,
workers end (their calls are limited, tool calls time out). No fairness for the user, a
disconnect or a failure. `RunSessions` and `SessionClients`: weak fairness of what each request does
once it has arrived (`Proceed`), the last event or the error among it (`Tell`); none for its arrival, for
failures, for a disconnect. A stream is closed only when a terminal event is in its queue or the client has gone:
`Close` has that as its guard, and a stream that could not write its error stays "mute", with no step of its own.
`ToolBridge`: weak fairness of each call's own steps (the time limit of `wait_for` among them) and
of each post that has reached the server; none for the client, the network, or a new call of the
worker. `EventStream`: weak fairness of the graph's steps, of each coroutine's emits, of an answer or its
time limit, and of delivering and closing; none for requests, failures, or a client that leaves.
`AgentThread`, `WorkerStep` and `Conversation` state safety only.

## 4. The proofs

Every theorem holds for every value of the constants that meets the named assumptions of the
modules: any number of workers, drafts, requests, calls, posts, steps, tools, skills and runs, and
every bound.

| Module | Theorem | States |
|---|---|---|
| `WorkflowEngineProofs` | `Invariance`, `TypeCorrect` | `[]IInv`, `[]TypeOK` (checked by run `conversation`, as a part of `ThreadTypeOK`) |
| | `DependenciesFirst` | `[]DepsPrecede` |
| | `NothingStartsEarly` | `[]DepsSucceeded` |
| | `BlocksForCause` | `[]BlockedHasCause` (checked by no run) |
| | `NobodyStranded` | `[]NeverStranded` |
| | `GuardAgrees` | `[]GuardNeverRefuses` |
| | `ContextIsTrue` | `[]WaitingIsTrue` |
| | `OverForEver` | `OverStaysOver`: the steps of a run that is over stay, its verdict is taken back by none but `_fail_run` of its own request (checked by no run: `KeepsPromise` says almost as much) |
| | `FinishedForEver` | `FinishedStaysFinished` (checked by no run: `KeepsPromise` says almost as much) |
| | `EngineKeepsPromise` | `KeepsPromise`, the refinement of `RunPromise` |
| | `EngineKeepsRecord` | `KeepsRecord`, the mapping to `RunRecord` |
| | `OrderOfSuccess` | `SucceedsInPlanOrder` |
| | `TodosServe` | `[]PrerequisitesServe` |
| | `SuccessIsComplete` | `[]SuccessIsTotal` |
| | `GraphComesDown` | `GraphDescends` |
| | `RequirementsStop` | `[]DepthBounded` (checked by no run) |
| | `SchedulerDecides` | `[]ScheduleDecides` (checked by no run) |
| `ConversationProofs` | `ThreadInvariance`, `ThreadTypes` | `[]TInv`, `[]ThreadTypeOK` |
| | `ChainUnbroken` | `[]NothingForgotten` |
| | `NoneRepeated` | `[]NothingRepeated` |
| | `RunsComeInTurn` | `KeepsThreadPromise`, the refinement of `ThreadPromise` |
| `RunSessionsProofs` | `SessionInvariance`, `SessionTypes` | `[]IInv`, `[]TypeOK` of that module |
| | `SessionsEnd` | `[]NoLeakedSession` |
| | `DispatchIsKnown` | `[]Known`: the step a request executes is a step of its run (checked by no run) |
| | `UpdatesAreKept` | `NoLostUpdate` |
| | `PatientInvariance` | `[](habit.patient => Patience)` |
| | `PatientHasOneDriver` | `[]PatientOneDriver` |
| | `PatientHasOneRun` | `[]PatientOneActiveRun` (checked by no run: `PatientThread` says more) |
| | `PatientIsHeard` | `[]PatientAnswersReachTheDriver` |
| | `PatientKeepsThread` | `PatientThread`, the steps of `ThreadPromise` |
| | `PatientRunsStay` | `PatientTerminalStays`: what is over and can no longer be failed stays as it is (checked by no run: `PatientThread` says more) |
| `ToolBridgeProofs` | `BridgeInvariance`, `BridgeTypes` | `[]BInv`, `[]TypeOK` |
| | `LedgerKeepsPromise` | `KeepsPromise`, the refinement of `ToolPromise` |
| `WorkerStepProofs` | `WorkerInvariance`, `WorkerTypes` | `[]WInv`, `[]TypeOK` |
| | `FactsTrue` | `[]FactsAreTrue` |
| | `AlwaysEarned` | `[]EffectsAreEarned` |
| | `AlwaysFresh` | `[]ReplaysAreFresh` |
| `EventStreamProofs` | `StreamInvariance`, `StreamTypes` | `[]IInv`, `[]TypeOK` of that module |
| | `NumbersInOrder` | `[]FramesInOrder` |
| | `VerdictIsTrue` | `[]LastFrameIsTrue` |
| | `NothingWithheld` | `[]ClientIsUpToDate` |
| `AgentThreadProofs` | `AgentInvariance`, `AgentTypes` | `[]AInv`, `[]TypeOK` |
| | `AlwaysOpened` | `[]OpenedByTheRouter` |
| | `AlwaysApproved` | `[]NothingUnapproved` |
| | `AnswersHeard` | `[]AnswersAreHeard` |

Assumptions, each in the module that declares the constants and evaluated by TLC in the runs:
`DraftsAssumption` (a draft is a sequence of todos, providers are sets of workers, the bounds are
naturals, the value for *no key* is not a key),
`ConversationAssumption` (an error code of a worker is none of the engine's; *help* is no task of the
user), `SessionAssumption` (a run has room for a todo), `ToolAssumption` (at least one attempt and one execution; *none* is no key, call
or result), `StepAssumption` (the six kinds of contract of the code), `EventAssumption` (the graph is no
call) and `ThreadAssumption` (a tool under approval does not interrupt itself, *no file* is a
content).

The argument for the engine. None of the properties is inductive alone. `DepsSucceeded` breaks when a step is
resumed or started unless one knows that the node about to execute it has been handed a step whose
dependencies have succeeded, so `OneRuns` ties `node`, `next` and the one running step together.
`DepsPrecede` of the saved run follows from the run **in memory** during an insertion, so
`Expanding` says that `work` is ordered, only grows by pending steps, and that everything the
blocked step will depend on stands in front of it. `NeverStranded` needs `Sound` (a step that waits
for prerequisites has some) and the order: the first open step of the list cannot wait for one
behind it, so either something can be dispatched, is blocked, or asks the user. `RunOpen` and
`Fresh` exclude a graph at work on a run that is over or not planned; only one that has made its last save, or is in
`_fail_run`, may find a verdict. `IInv` is the conjunction; run
`engine` checks the parts of it that are properties, and it can be added to the configuration to see the
rest. `WorkflowEngineLemmas` has the facts about lists and tables: an insertion
keeps a list a permutation and ordered; blocking, dispatching and marking a step preserve `Sound`;
one lemma per action of `Next` puts them together, and the temporal theorems follow by PTL.

The refinement rests on one relation between the tables of two successive saves, `Carries`: no step
is lost, a required one stays required, a finished one stays as it is, and a new one is not
finished. Every action carries the table over, which is `FinishedForEver`; with the invariant it
also gives the steps of `RunPromise`: the plan is adopted once, work only closes todos, and the
verdict is given when every todo is closed or the run is given up. A verdict is settled when the graph
returns, is dropped or has failed the run (`VerdictStands`); until then the run may be given up although all its todos are
closed. A failed run, and one that was cancelled, is settled with the save.

That the engine keeps to `RunRecord` (`EngineKeepsRecord`) is proved with one lemma per action: the row before
and after is compared field by field, and the step that moves is the one the graph state names (`OneRuns`).
The scheduler may block any set of open steps there, so its blocked set need only be of open steps; that it finds a step to execute, an
asking one, or all steps over is `NeverStranded` and `GuardNeverRefuses`. An insertion makes one row
of many actions in memory: the row grows by what `work` has grown, and `Planted` is needed to know that
a step that waits for prerequisites has got at least one.

Steps succeed in the order of the list because of `InOrder`: whatever stands in front of a step that
succeeded, or of the one handed to the node, has succeeded itself or is *stuck*: it is over, it waits
for a question that is no longer the open one, or it depends on a step that has not succeeded. That
step stands in front of it (`DepsPrecede`) and is stuck too, so that no question answered, no todo
inserted and no step blocked later sets a stuck step free.

For the generated todos, `Family` says that they are nested: the owner of a todo comes after it, between
the two stand only todos of that family, and the todo is needed by its owner or by a step in front of
the owner. During an insertion the list in memory is so too, but for the ids that the blocked step is
still to receive. A step whose requirement could not be planned is excepted, and has failed. That gives
`PrerequisitesServe`; and if some todo of a succeeded step had not succeeded, the last such todo in the
list would be needed by a step that has, whose dependencies have succeeded: `SuccessIsTotal`.

That the graph comes to an end is a liveness property (`GraphReturns`), and TLC sees it only where `MaxSteps`
bounds the insertions, which the code does not have. What the code has is an order, and
`GraphDescends` states it: in every step of the graph after the planning, the graph ends, the run fails, some depth has
*less left* while no lesser depth has more, or nothing has more left and the graph is nearer (`Distance`) to
such a step. What is left at a depth (`Left`) are the open steps there, and the requirements each may still
meet: an insertion adds todos, but one deeper, and uses up a requirement of the step it is for, as
`dependency_expansion_keys` remembers. Depths stop at `_MAX_DEPENDENCY_DEPTH` (`RequirementsStop`, from the invariant
`Shallow`), and what is left is finite as the requirements are (the lemma `LeftIsFinite`), so that the
order has no infinite descent – which is the one sentence of the argument no prover here can take over.
`SchedulerDecides` is about the model itself: the blocked set, which `Scheduler` characterises and does not
compute, exists for every list and is unique (both by a least place in the list), and the second loop finds
the first step that can be dispatched.

The argument for the thread of runs. `TInv` adds to `IInv` what `_recoverable_tasks` reads: the status
and the error of a step fit together, and a step without an owner is for a task (`Known`), also
in memory during an insertion (`Growing`); tasks are not doubled (`Distinct`), and a draft has a todo for
everything owed and for no other task of the user (`Aligned`). Then everything owed has a step that the
next run will recover (`Carried`), and such a step is for something owed (`Settled`): the planner of
the next run, which obeys, makes them todos again.

The argument for the sessions. That no update is lost needs to know that what a request holds
under the current revision **is** the run as it is (`Current`, over `Matches`): a save bumps the
revision, so that every other copy is outdated, and a save that finds its revision replaces the very
run it was made from. That needs in turn which requests may hold what: a request creates its run once
(`CreatedOnce`), and a run without a plan has no open question and nobody else to drive it
(`PlanFirst`). The execute node reads the run again and starts the step the schedule node has chosen, whatever was
saved in between; no save takes a step away (`Keeps`, a part of `Matches`; a plan is only ever put
where there is none), so the step is still there, in the run and in every copy of it (`Known`).
`NoLeakedSession` is inductive with the types.

The argument for a patient client. Its requests overlap all the same: one is at the check while
another streams. `Patience` says that at most one request is being admitted (`Heard`); that a
stream holds the bridge from its first step to its last (`Locked`), and that whoever got past the
check found no bridge (`Unlocked`), so that then nobody else is at work (the lemma `Alone`); that what a handler has
decided on is so until it registers, although the decision lies several awaits back (`Chosen`); while a graph is at work no other run is open, also when its own has its verdict already;
that every row has a status (`Stated`), and that
the place of the graph fits the status of its run (`Underway`: only from "ending" and `_fail_run` may it be over).
Then a step is of one of three
kinds (`OneAtATime`): it changes no run of the thread nor which are over (`Untouched`), it begins one when none is open (`Begins`), or it moves
the one that is not over (`Moves`), which changes it, ends it, or lets its verdict stand; all others are over and stay as they are
(`Others`). These are the steps of `ThreadPromise`, from which one open run and
runs that stay follow. The run `two_active_runs` shows that patience is needed.

`Conversation` implements the same `ThreadPromise` (`RunsComeInTurn`, from the steps of the engine's refinement):
what `RunSessions` guarantees a patient client is what `Conversation` takes for granted when it
lets the requests of a thread follow one another.

The argument for the tool bridge. A row has a result only when the client has answered one of its events
(`RowsOK`); a call has seen what its row holds, and whatever can still wake it: its future is of
its own key, and the result of a post that has passed the ledger was written while the call ran
(`CallsOK`). Under the mapping (the register of a key is the result in its row) every step is one of
`ToolPromise`, or none.

The argument for the executor. Let the workers be straight: none has strayed, none has ended a step on
a repeated call. Then effects that have not become those of a step are those of the execution at work
(`MarksHeld`), the context says what the last step with effects has left (`LastSays`), it is the
client's scene until a call of the execution changes it, and from then on the effects of that call are
(`SceneKnown`), and the ledger names no scene that is not there (`NamedTrue`). Which step with effects is the
last is a greatest place in a list, which exists by well-founded induction on the naturals
(`Greatest`). Effects on entities say nothing of the scene (`Bare`), so
a step that has no others counts as one without effects there. `ResultsOK` and `RowsOK` say where effects and rows come from, and that a row under the revision of
now is younger than every effect on the scene and knows every revision acknowledged since (`Past`); they give
`EffectsAreEarned` and `ReplaysAreFresh`, whatever the workers do.

The argument for the events. `Voices` says what each coroutine may have to say at each place of
`_run_and_emit`; `Numbers` that the one number given out and not yet put is greater than all that were
sent; `Shown` that whenever the graph is silent the last update in the queue, or what the client shows
if there is none, is the current revision; `Closed` that nothing follows a verdict and that it is the
one the run deserves; `Uncounted` that a bridge that does not know the repository sends one frame at
most.

The argument for the agent threads. The route of a thread is what the router has said of its task
(`RouteTrue`); a thread that stops does so for an approval, or at the interrupts of all calls it has
left (`Stopped`), and is continued by an answer that grants what the user has approved
(`StepOK`); while tools run, those under approval are approved (`WorkOK`). The last call performed was of
a task the router has ruled on and was opened by the skills of that ruling (`ActOK`), also when the
files of the skills were read again in between.

Only model-checked:

* liveness, beyond the descent above (`GraphReturns`, `Answered`, `Returns`, `LateAnswerIsFound`, `StreamEnds`): the prover has
  neither fairness nor ENABLED.

## 5. Not modelled, and what is left

Left out for good: the text of prompts and answers, the LLM library, rendering and the result
resolver (a lookup by JSON pointer that changes nothing), logging,
configuration, the bodies of the domain tools (each shapes arguments for one tool call),
`workflow_events` (written, read by nobody), SQLite itself (a save is one transaction), and the
singletons for engine and database, which two requests may build twice without harm.

`Conversation` takes the requests of a thread one at a time: which run is *the one before* is
decided by `updated_at`, and a cancel or a resume of an older run by its id changes it
(`repository.py`, 305); that would take `RunSessions` with tasks in its runs, which is beyond
what TLC can explore in the time a run may take.

Left to be proved: for the other liveness properties, what `GraphDescends` is for `GraphReturns`.
