----------------------------- MODULE Conversation -----------------------------
(***************************************************************************)
(* The runs of one thread, one after another, and what each hands on to    *)
(* the next: _recoverable_tasks of workflow/engine.py and the prompt of    *)
(* workflow/planner.py.  The run in progress is WorkflowEngine; requests   *)
(* come one at a time (RunSessions has the others), so the run updated     *)
(* last is the one before.                                                 *)
(*                                                                         *)
(* A step's task is what its todo says.  The planner (external) lists what *)
(* the user asks for and what it is told was left over, each task once.    *)
(***************************************************************************)
EXTENDS WorkflowEngine, Functions

CONSTANTS
  Tasks,     \* what a user may ask for
  Help,      \* the task of a todo inserted for a requirement
  MaxRuns    \* a bound of the model: runs of the conversation

ASSUME ConversationAssumption ==
  /\ Help \notin Tasks
  /\ WorkerErrors \cap {"none", "DEPENDENCY_FAILED", "WORKFLOW_ERROR"} = {}
  /\ MaxRuns \in Nat

VARIABLES
  todo,     \* the tasks of the user's todos: step i of the plan is for todo[i]
  before,   \* the steps of the run before: task, status and error of each
  runs,     \* how many runs there have been
  owed      \* history: tasks the user has asked for, that have neither been done nor
            \* failed for a reason of their own, and that nobody has called off

thread == <<vars, todo, before, runs, owed>>

TaskOf(i) == IF step[i].owner = NoOwner THEN todo[i] ELSE Help

ThreadInit ==
  /\ Init
  /\ todo = <<>> /\ before = {} /\ runs = 1 /\ owed = {}

-----------------------------------------------------------------------------
(* What the run before hands on *)

\* Two slips: what was blocked counts as failed; what was called off is kept.
RecoverableUnlessBlocked(s) ==
  s.status \notin {"succeeded", "cancelled"} /\ s.error \in {"none", "NO_SCENE"}
RecoverableUnlessDone(s) ==
  s.status # "succeeded" /\ s.error \in {"none", "NO_SCENE", "DEPENDENCY_FAILED"}

\* Neither done nor called off, and without an error or with one that says that the
\* step has not really been tried (_RECOVERABLE_ERROR_CODES).
Recoverable(s) ==
  /\ s.status \notin {"succeeded", "cancelled"}
  /\ s.error \in {"none", "NO_SCENE", "DEPENDENCY_FAILED"}

Recovered == {s.task : s \in {x \in before : Recoverable(x)}}

\* A draft has one todo for each task asked for or recovered, in any order.
Plan ==
  /\ PlanNode
  /\ \E asked \in SUBSET Tasks :
       /\ asked # {}
       /\ todo' \in Bijection(1..Len(draft'), asked \cup Recovered)
       /\ owed' = owed \cup asked
  /\ UNCHANGED <<before, runs>>

-----------------------------------------------------------------------------
(* The run in progress *)

\* Steps that end in the step: done, failed for a reason of their own (not for want of
\* a scene), or called off with the run.
Closes(i) ==
  /\ step[i].status \notin StepTerminal
  /\ \/ step'[i].status \in {"succeeded", "cancelled"}
     \/ step'[i].status = "failed" /\ step'[i].error # "NO_SCENE"

Work ==
  /\ \/ ValidateNode \/ Schedule \/ ExecuteNode \/ Worker \/ Expand
     \/ FinalizeNode \/ GraphEnds \/ NodeRaises \/ FailRun \/ Disconnect \/ Resume \/ CancelRun
  /\ owed' = owed \ {TaskOf(i) : i \in {j \in DOMAIN step : Closes(j)}}
  /\ UNCHANGED <<todo, before, runs>>

\* The run before is the one updated last; its steps are read as they were left.
LastRun ==
  {[task |-> TaskOf(i), status |-> step[i].status, error |-> step[i].error] : i \in DOMAIN step}

\* A slip: the open run is left as it is.
ChatWhileOpen ==
  /\ node \in {"end", "lost"}
  /\ runs < MaxRuns /\ runs' = runs + 1
  /\ before' = LastRun
  /\ owed' = IF step = <<>> THEN {} ELSE owed
  /\ todo' = <<>>
  /\ status' = "planning" /\ waiting' = NoWait
  /\ plan' = <<>> /\ step' = <<>>
  /\ node' = "plan" /\ next' = 0
  /\ draft' = <<>> /\ work' = NoWork

\* A chat when no run of the thread is open.  A run that failed before it had a plan
\* hands on nothing, not even what the run before had handed on to it.
Chat ==
  /\ node \in {"end", "lost"} /\ status \in RunTerminal
  /\ runs < MaxRuns /\ runs' = runs + 1
  /\ before' = LastRun
  /\ owed' = IF step = <<>> THEN {} ELSE owed
  /\ todo' = <<>>
  /\ status' = "planning" /\ waiting' = NoWait
  /\ plan' = <<>> /\ step' = <<>>
  /\ node' = "plan" /\ next' = 0
  /\ draft' = <<>> /\ work' = NoWork

ThreadNext == Plan \/ Work \/ Chat \/ (Over /\ UNCHANGED thread)

ThreadSpec == ThreadInit /\ [][ThreadNext]_thread

-----------------------------------------------------------------------------
(* What a thread promises *)

ThreadTypeOK ==
  /\ TypeOK
  /\ todo \in Seq(Tasks \cup {Help})
  /\ before \in SUBSET [task : Tasks \cup {Help}, status : StepStatus, error : ErrorCode]
  /\ runs \in Nat \ {0}
  /\ owed \in SUBSET Tasks

\* A verdict that may still be taken back is no end: the run is running.
OpenStatus == IF status \in RunTerminal THEN "running" ELSE status

\* The runs come one after another: what RunSessions promises a patient client.
Thread == INSTANCE ThreadPromise WITH
  open <- IF VerdictStands THEN {} ELSE {[run |-> runs, status |-> OpenStatus]},
  over <- {[run |-> k] : k \in IF VerdictStands THEN 1..runs ELSE 1..(runs - 1)}

KeepsThreadPromise == Thread!TSpec

\* The chain of inheritance does not break: when a run is planned, everything the user
\* is still owed is handed to the planner, however many runs ago it was asked for and
\* whatever became of those runs - unless one of them failed before it had a plan.
NothingForgotten == node = "plan" => owed \subseteq Recovered

\* The planner is not told to do again what has been done, has failed for a reason of
\* its own, or was called off: of the user's tasks it is handed only what is owed.
NothingRepeated == node = "plan" => Recovered \cap Tasks \subseteq owed
=============================================================================
