------------------------------ MODULE WorkerStep ------------------------------
(***************************************************************************)
(* The executions of the steps of a run, and what the run knows of the     *)
(* scene the client has.  A worker calls tools whose contract says which   *)
(* facts a call requires, effects and invalidates; the effects of the      *)
(* calls that succeed become the step's when it succeeds, and with them    *)
(* the run's scene_context changes, and the facts of the next execution.   *)
(* AgentStepExecutor.execute and _facts (workflow/executor.py), the guards *)
(* of worker_tool_validation.py, and _apply_effects of workflow/engine.py. *)
(*                                                                         *)
(* A call is named by its tool: the arguments of a step do not change.     *)
(* Steps succeed in the order of the plan (SucceedsInPlanOrder of          *)
(* WorkflowEngine), so results is both.  The worker makes one call at a    *)
(* time here: ToolBridge has the calls that overlap.                       *)
(***************************************************************************)
EXTENDS Integers, Sequences, FiniteSets

CONSTANTS
  Steps, Tools,
  None,
  MaxCalls,   \* max_tool_calls of an execution (20 in the code)
  MaxExecs    \* a bound of the model: executions in the run

ASSUME StepAssumption ==
  /\ Tools \subseteq {"open", "delete", "rename", "build", "use", "look"}
  /\ None \notin Tools
  /\ MaxCalls \in Nat /\ MaxExecs \in Nat

\* Of entities and orbits: entity.created, entity.updated or entity.deleted.
SceneFacts == {"scene.opened", "scene.none"}
Facts      == SceneFacts \cup {"entity.changed"}

\* The contracts the tools declare: create_scenario and open_scenario, delete_scene,
\* rename_scenario; those that make, change or delete entities and orbits; those that
\* show or analyse them; query_scenario.
Contract(t) ==
  LET contract(req, eff, inv) == [requires |-> req, effects |-> eff, invalidates |-> inv]
  IN  CASE t = "open"   -> contract({}, {"scene.opened"}, {"scene.none"})
        [] t = "delete" -> contract({"scene.opened"}, {"scene.none"}, {"scene.opened"})
        [] t = "rename" -> contract({"scene.opened"}, {"scene.opened"}, {})
        [] t = "build"  -> contract({"scene.opened"}, {"entity.changed"}, {})
        [] t = "use"    -> contract({"scene.opened"}, {}, {})
        [] t = "look"   -> contract({}, {}, {})

VARIABLES
  scene,     \* the client's scene: [open, rev]
  context,   \* run.scene_context: [status, rev]
  results,   \* of the steps that have succeeded, in plan order; srev is history: the
             \* revision of the scene their client has acknowledged
  status,    \* of the steps
  work,      \* the execution at work and its StepExecutionContext, or Rest
  exec,      \* executions so far
  ledger,    \* tool_executions, by step and tool
  strayed    \* history: the worker of some execution has strayed, see Stray

vars == <<scene, context, results, status, work, exec, ledger, strayed>>

\* A row: the revision in its key, the execution that made it, the result, and what
\* the result says of the scene.  after is history: the results before it.
NoRow == [rev |-> 0, exec |-> 0, result |-> "none", named |-> FALSE, srev |-> 0, after |-> 0]
Rest  == [step |-> None]

\* What a walk over the results leaves: a fact of the context, or an effect of a step,
\* that no later step has invalidated.
TheFacts ==
  LET base == IF context.status = "opened" THEN {"scene.opened"} ELSE {"scene.none"}
      Gone(fact, i) == \E j \in (i + 1)..Len(results) : fact \in results[j].invalidates
  IN  {fact \in base : ~Gone(fact, 0)}
        \cup {fact \in Facts : \E i \in DOMAIN results :
                                 fact \in results[i].effects /\ ~Gone(fact, i)}

Init ==
  /\ scene \in [open : BOOLEAN, rev : {0}]
  /\ context = [status |-> IF scene.open THEN "opened" ELSE "none", rev |-> 0]
  /\ results = <<>>
  /\ status = [s \in Steps |-> "pending"]
  /\ work = Rest /\ exec = 0
  /\ ledger = [s \in Steps |-> [t \in Tools |-> NoRow]]
  /\ strayed = FALSE

-----------------------------------------------------------------------------
Begin(s) ==
  /\ work = Rest /\ status[s] \in {"pending", "waiting"} /\ exec < MaxExecs
  /\ exec' = exec + 1
  /\ work' = [step |-> s, facts |-> TheFacts, rev |-> context.rev, calls |-> 0,
              counts |-> [t \in Tools |-> 0], wins |-> <<>>, rows |-> <<>>,
              effects |-> {}, invalidates |-> {}, changes |-> 0, late |-> FALSE]
  /\ UNCHANGED <<scene, context, results, status, ledger, strayed>>

Won(t)   == \E i \in DOMAIN work.wins : work.wins[i] = t
Needs(t) == Contract(t).requires \subseteq work.facts
Marks(t) == Contract(t).effects \cap SceneFacts # {}

\* What the effects of a step cannot tell of the scene: two calls with effects on it in
\* an execution, one in an execution that does not succeed, or one that timed out and
\* was done.
Stray(outcome) == work.changes > 1 \/ work.late \/ (work.changes = 1 /\ outcome # "succeeded")

End(outcome) ==
  /\ status' = [status EXCEPT ![work.step] = outcome]
  /\ work' = Rest
  /\ strayed' = (strayed \/ Stray(outcome))
  /\ UNCHANGED <<scene, exec, ledger>>

-----------------------------------------------------------------------------
(* The guards before a call *)

\* NO_SCENE ends the execution; none of the tools requires any other fact.
NoScene ==
  /\ work # Rest /\ \E t \in Tools : ~Needs(t)
  /\ End("failed")
  /\ UNCHANGED <<context, results>>

\* NO_PROGRESS: too many calls, or the third of the same that did not succeed.
NoProgress ==
  /\ work # Rest
  /\ \E t \in Tools : Needs(t) /\ (work.calls = MaxCalls \/ (work.counts[t] = 2 /\ ~Won(t)))
  /\ End("failed")
  /\ UNCHANGED <<context, results>>

\* A slip: >= for >.
SendsOnceMore(t) ==
  /\ work # Rest /\ Needs(t)
  /\ work.calls <= MaxCalls /\ work.counts[t] < 2 /\ ~Won(t)

Sends(t) ==
  /\ work # Rest /\ Needs(t)
  /\ work.calls < MaxCalls /\ work.counts[t] < 2 /\ ~Won(t)

-----------------------------------------------------------------------------
(* The calls that are made *)

Row(t)      == ledger[work.step][t]
Recorded(t) == Row(t).rev = work.rev /\ Row(t).result # "none"
Begun(t)    == Row(t).rev = work.rev /\ Row(t).exec # 0
Belongs(t)  == Begun(t) => Row(t).exec = exec      \* else the answer is refused

\* What the client does (external): a call that succeeds needs a scene, or makes one.
\* Whether what is done in a scene counts as another revision of it is up to the client.
Performed(t) ==
  CASE t = "open"             -> {[open |-> TRUE, rev |-> scene.rev + 1]}
    [] t = "delete"           -> {[open |-> FALSE, rev |-> scene.rev + 1]}
    [] t \in {"look", "use"}  -> {scene}
    [] OTHER                  -> {scene, [scene EXCEPT !.rev = @ + 1]}
CanPerform(t) == t \in {"open", "look"} \/ scene.open

NewRow(t, result, after) ==
  [rev |-> work.rev, exec |-> IF Begun(t) THEN Row(t).exec ELSE exec, result |-> result,
   named |-> result # "none" /\ after.open,
   srev |-> IF result # "none" /\ after.open THEN after.rev ELSE 0,
   after |-> IF result # "none" THEN Len(results) ELSE 0]

\* A slip: the effects are taken before it is known whether the call succeeded.
ToldEagerly(t, ok, changed, late) ==
  work' = [work EXCEPT !.calls = @ + 1, !.counts[t] = @ + 1,
             !.wins = IF ok THEN Append(@, t) ELSE @,
             !.rows = IF Begun(t) THEN @ ELSE Append(@, t),
             !.effects = @ \cup Contract(t).effects,
             !.invalidates = @ \cup Contract(t).invalidates,
             !.changes = @ + (IF changed THEN 1 ELSE 0),
             !.late = @ \/ late]

\* The worker gets the result; a success leaves its effects in the execution.
Told(t, ok, changed, late) ==
  work' = [work EXCEPT !.calls = @ + 1, !.counts[t] = @ + 1,
             !.wins = IF ok THEN Append(@, t) ELSE @,
             !.rows = IF Begun(t) THEN @ ELSE Append(@, t),
             !.effects = IF ok THEN @ \cup Contract(t).effects ELSE @,
             !.invalidates = IF ok THEN @ \cup Contract(t).invalidates ELSE @,
             !.changes = @ + (IF changed THEN 1 ELSE 0),
             !.late = @ \/ late]

Replay(t) ==
  /\ Sends(t) /\ Recorded(t)
  /\ Told(t, Row(t).result = "ok", FALSE, FALSE)
  /\ UNCHANGED <<scene, context, results, status, exec, ledger, strayed>>

Perform(t) ==
  /\ Sends(t) /\ ~Recorded(t) /\ Belongs(t)
  /\ \E result \in {"ok", "bad"} :
       /\ result = "ok" => CanPerform(t)
       /\ scene' \in IF result = "ok" THEN Performed(t) ELSE {scene}
       /\ ledger' = [ledger EXCEPT ![work.step][t] = NewRow(t, result, scene')]
       /\ Told(t, result = "ok", result = "ok" /\ Marks(t), FALSE)
  /\ UNCHANGED <<context, results, status, exec, strayed>>

\* Every attempt times out.  The client may still perform the call, and its answer
\* may still be recorded.
TimesOut(t) ==
  /\ Sends(t) /\ ~Recorded(t)
  /\ \E did, known \in BOOLEAN :
       /\ did => CanPerform(t)
       /\ known => did /\ Belongs(t)
       /\ scene' \in IF did THEN Performed(t) ELSE {scene}
       /\ ledger' = [ledger EXCEPT ![work.step][t] =
                       NewRow(t, IF known THEN "ok" ELSE "none", scene')]
       /\ Told(t, FALSE, FALSE, did /\ Marks(t))
  /\ UNCHANGED <<context, results, status, exec, strayed>>

-----------------------------------------------------------------------------
(* The end of an execution *)

\* The scene as the last call of this execution reports it that names one, else the
\* result that is the step's evidence; query_scenario drops the revision there.
Unnamed == [named |-> FALSE, srev |-> 0]
Acknowledged(evidence) ==
  LET naming == {i \in DOMAIN work.rows : Row(work.rows[i]).named}
      last   == CHOOSE i \in naming : \A j \in naming : j <= i
      row    == Row(work.rows[last])
  IN  IF naming # {} THEN [named |-> TRUE, srev |-> row.srev]
      ELSE IF evidence = None \/ ~Row(evidence).named THEN Unnamed
      ELSE [named |-> TRUE, srev |-> IF evidence = "look" THEN 0 ELSE Row(evidence).srev]

Higher(m, n) == IF m > n THEN m ELSE n

\* A slip: opening a scene does not count the revision up.
ApplyEffectsSameRevision(effects, ack) ==
  IF "scene.none" \in effects THEN [status |-> "none", rev |-> context.rev + 1]
  ELSE IF "scene.opened" \in effects \/ ack.named
       THEN [status |-> "opened", rev |-> context.rev]
       ELSE context

\* Another: the revision the client acknowledges is not taken over.
ApplyEffectsUnacknowledged(effects, ack) ==
  IF "scene.none" \in effects THEN [status |-> "none", rev |-> context.rev + 1]
  ELSE IF "scene.opened" \in effects THEN [status |-> "opened", rev |-> context.rev + 1]
  ELSE IF ack.named THEN [status |-> "opened", rev |-> context.rev]
  ELSE context

\* Another: the acknowledged scene has the last word.
ApplyEffectsAckLast(effects, ack) ==
  IF ack.named THEN [status |-> "opened", rev |-> Higher(context.rev + 1, ack.srev)]
  ELSE IF "scene.none" \in effects THEN [status |-> "none", rev |-> context.rev + 1]
  ELSE IF "scene.opened" \in effects THEN [status |-> "opened", rev |-> context.rev + 1]
  ELSE context

ApplyEffects(effects, ack) ==
  LET opened == IF "scene.opened" \in effects
                THEN [status |-> "opened", rev |-> Higher(context.rev + 1, ack.srev)]
                ELSE context
  IN  IF "scene.none" \in effects THEN [status |-> "none", rev |-> opened.rev + 1]
      ELSE IF ack.named THEN [status |-> "opened", rev |-> Higher(opened.rev, ack.srev)]
      ELSE opened

Succeed(effects, invalidates, evidence, repeated) ==
  /\ LET ack == Acknowledged(evidence) IN
       /\ results' = Append(results, [step |-> work.step, effects |-> effects,
                                      invalidates |-> invalidates, repeated |-> repeated,
                                      srev |-> ack.srev])
       /\ context' = ApplyEffects(effects, ack)
  /\ End("succeeded")

\* The worker calls what has succeeded in this execution again: the step succeeds
\* on the spot, with the contract of that tool alone.
AlreadyCompleted(t) ==
  /\ work # Rest /\ Needs(t) /\ work.calls < MaxCalls /\ Won(t)
  /\ Succeed(Contract(t).effects, Contract(t).invalidates, t, TRUE)

\* status success or info
Answers ==
  /\ work # Rest
  /\ LET n == Len(work.wins) IN
       Succeed(work.effects, work.invalidates, IF n = 0 THEN None ELSE work.wins[n], FALSE)

\* No structured response, an error, or arguments are missing; a question to the
\* user, an interrupt or a requirement.  Neither has effects.
Gives(outcome) ==
  /\ work # Rest
  /\ End(outcome)
  /\ UNCHANGED <<context, results>>

Next ==
  \/ \E s \in Steps : Begin(s)
  \/ \E t \in Tools : Replay(t) \/ Perform(t) \/ TimesOut(t) \/ AlreadyCompleted(t)
  \/ NoScene \/ NoProgress \/ Answers
  \/ \E outcome \in {"failed", "waiting"} : Gives(outcome)

Spec == Init /\ [][Next]_vars

-----------------------------------------------------------------------------
TypeOK ==
  /\ scene \in [open : BOOLEAN, rev : Nat]
  /\ context \in [status : {"none", "opened"}, rev : Nat]
  /\ results \in Seq([step : Steps, effects : SUBSET Facts, invalidates : SUBSET Facts,
                      repeated : BOOLEAN, srev : Nat])
  /\ status \in [Steps -> {"pending", "waiting", "succeeded", "failed"}]
  /\ exec \in 0..MaxExecs
  /\ ledger \in [Steps -> [Tools -> [rev : Nat, exec : 0..MaxExecs, result : {"none", "ok", "bad"},
                                     named : BOOLEAN, srev : Nat, after : Nat]]]
  /\ work # Rest => /\ work.facts \subseteq Facts /\ work.calls \in 0..MaxCalls
                    /\ work.counts \in [Tools -> 0..2] /\ work.wins \in Seq(Tools)
                    /\ Len(work.rows) <= work.calls
                    /\ work.effects \subseteq Facts /\ work.invalidates \subseteq Facts

\* As long as no worker has strayed and no step ended on a repeated call, the facts
\* a step begins with, and the scene_context, are the client's scene.
FactsAreTrue ==
  work = Rest /\ ~strayed /\ ~(\E i \in DOMAIN results : results[i].repeated) =>
    /\ ("scene.opened" \in TheFacts) = scene.open
    /\ (context.status = "opened") = scene.open

\* A step has the effect of no tool that did not succeed for it: at the client, in
\* this execution or one before.
EffectsAreEarned ==
  \A i \in DOMAIN results : \A fact \in results[i].effects :
    \E t \in Tools : fact \in Contract(t).effects /\ ledger[results[i].step][t].result = "ok"

\* A step that is executed again gets no result from before a step that opened, renamed
\* or deleted the scene, or whose client has acknowledged a revision of it that the
\* result cannot have been of: the revision in the key is another one.  Entities that
\* were changed without such a revision do not count: what was shown of them is shown
\* again.
ReplaysAreFresh ==
  work = Rest => \A s \in Steps, t \in Tools :
    LET row == ledger[s][t] IN
      status[s] = "waiting" /\ row.rev = context.rev /\ row.result # "none" =>
        \A i \in (row.after + 1)..Len(results) :
          results[i].effects \cap SceneFacts = {} /\ results[i].srev <= row.rev

-----------------------------------------------------------------------------
\* The white paper: scene_context holds the facts of the environment as it is.
ContextIsCurrent ==
  work = Rest /\ ~strayed => (context.status = "opened") = scene.open
=============================================================================
