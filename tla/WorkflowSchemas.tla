--------------------------- MODULE WorkflowSchemas ---------------------------
(***************************************************************************)
(* The protocol models of a workflow run (models/workflow_schemas.py): the *)
(* statuses of a run and of a step, and the persisted step record.         *)
(*                                                                         *)
(* Step ids are uuids in the code; here they are the numbers 1, 2, ... in  *)
(* order of creation, so run.steps is a table indexed by id plus the order *)
(* of the list (plan).  depends_on is a set: the scheduler reads it only   *)
(* through "all succeeded" and "some failed".  Results, prompts, worker    *)
(* threads and time stamps are left out.                                   *)
(***************************************************************************)
EXTENDS Integers, Sequences

CONSTANTS Workers,       \* worker names known to the WorkerCatalog
          Keys,          \* requirement keys (facts such as scene.opened)
          WorkerErrors   \* codes a worker's result may fail with

RunTerminal == {"succeeded", "partially_succeeded", "failed", "cancelled"}
RunStatus   == {"planning", "running", "waiting_user"} \cup RunTerminal

StepFailed   == {"failed", "blocked", "cancelled"}
StepTerminal == {"succeeded"} \cup StepFailed
StepStatus   == {"pending", "ready", "running", "waiting_user",
                 "waiting_dependency"} \cup StepTerminal

\* A slip the properties must catch: a step that waits for prerequisites is
\* never blocked when one of them fails.
SchedulableUnlessWaiting == {"pending", "ready"}

\* Statuses the scheduler may still turn into an execution or a block.
Schedulable == {"pending", "ready", "waiting_dependency"}

WaitingKind == {"missing_arguments", "agent_interrupt", "selection_required"}

NoKey   == "no_key"      \* requirement_key is None
NoOwner == 0             \* generated_for_step_id is None
NoWait  == [step |-> 0, kind |-> "none"]   \* waiting_context is None

ErrorCode == {"none", "DEPENDENCY_FAILED", "REQUIREMENT_PLANNING_FAILED",
              "WORKFLOW_ERROR"} \cup WorkerErrors

\* PlanStep
Step == [worker     : Workers,
         owner      : Nat,                 \* generated_for_step_id
         key        : Keys \cup {NoKey},   \* requirement_key
         depends_on : SUBSET Nat,
         required   : BOOLEAN,
         status     : StepStatus,
         error      : ErrorCode,
         attempts   : Nat,                 \* attempt_count
         depth      : Nat,                 \* dependency_depth
         expanded   : SUBSET Keys]         \* dependency_expansion_keys

WithStatus(s, status)  == [s EXCEPT !.status = status]
Mark(s, status, error) == [s EXCEPT !.status = status, !.error = error]

WaitingContext == [step : Nat, kind : WaitingKind \cup {"none"}]
=============================================================================
