------------------------ MODULE WorkflowEngineProofs ------------------------
(***************************************************************************)
(* The safety of the workflow engine, for every plan, every worker and     *)
(* every answer, and that it implements the abstract run: what a step of   *)
(* the graph carries over from one table of steps to the next one is all   *)
(* the promise needs.  The last part shows that a node of the graph makes  *)
(* of the persisted run what RunRecord says.                               *)
(***************************************************************************)
EXTENDS EngineRefinement, EngineProgress, EngineRecord, WorkflowEngineLemmas,
        FiniteSetTheorems

\* The inductive invariant holds in every behaviour of the engine.
THEOREM Invariance == Spec => []IInv
<1>1. Init => IInv
  BY InitInv
<1>2. IInv /\ [Next]_vars => IInv'
  BY NextInv
<1> QED BY <1>1, <1>2, PTL DEF Spec

\* Every variable keeps the type of the schema, in memory as when saved.
THEOREM TypeCorrect == Spec => []TypeOK
<1>1. IInv => TypeOK
  BY DEF IInv
<1> QED BY <1>1, Invariance, PTL

\* However often requirement todos are inserted, dependencies come first.
THEOREM DependenciesFirst == Spec => []DepsPrecede
<1>1. IInv => DepsPrecede
  BY DEF IInv
<1> QED BY <1>1, Invariance, PTL

\* No step starts, asks or succeeds before everything it depends on succeeded.
THEOREM NothingStartsEarly == Spec => []DepsSucceeded
<1>1. IInv => DepsSucceeded
  BY DEF IInv, Sound, DepsSucceeded
<1> QED BY <1>1, Invariance, PTL

\* The scheduler blocks a step only behind one that failed.
THEOREM BlocksForCause == Spec => []BlockedHasCause
<1>1. IInv => BlockedHasCause
  BY DEF IInv, Sound, BlockedHasCause
<1> QED BY <1>1, Invariance, PTL

\* A graph that returned by itself never leaves a run that nobody can continue.
THEOREM NobodyStranded == Spec => []NeverStranded
<1>1. IInv => NeverStranded
  BY DEF IInv
<1> QED BY <1>1, Invariance, PTL

\* The finalizer is reached only with every step over.
THEOREM GuardAgrees == Spec => []GuardNeverRefuses
<1>1. IInv => GuardNeverRefuses
  BY DEF IInv
<1> QED BY <1>1, Invariance, PTL

\* A saved waiting context always names a step that waits for the user.
THEOREM ContextIsTrue == Spec => []WaitingIsTrue
<1>1. IInv => WaitingIsTrue
  BY DEF IInv
<1> QED BY <1>1, Invariance, PTL

\* What may happen to a run that is over: nothing, but that it is failed by the request
\* that decided it.
OverKept ==
  /\ plan' = plan /\ step' = step
  /\ \/ node = "failing" /\ node' = "end" /\ status' = "failed"
     \/ status' = status /\ waiting' = waiting

LEMMA OverStep ==
  ASSUME IInv, [Next]_vars, status \in RunTerminal
  PROVE  OverKept
<1>1. node \notin Active \ {"ending", "failing"} /\ status # "waiting_user"
  BY DEF IInv, RunOpen, RunTerminal
<1>2. CASE FailRun
  <2>1. /\ node = "failing" /\ node' = "end" /\ status' = "failed" /\ plan' = plan
        /\ step' = [i \in DOMAIN step |->
                      IF step[i].status = "running"
                      THEN Mark(step[i], "failed", "WORKFLOW_ERROR")
                      ELSE step[i]]
    BY <1>2 DEF FailRun
  <2>2. \A i \in DOMAIN step : step[i].status # "running"
    BY DEF IInv, OneRuns, RunTerminal
  <2>3. step \in Seq(Step)
    BY DEF IInv, TypeOK
  <2>4. step' = step
    BY <2>1, <2>2, <2>3
  <2> QED BY <2>1, <2>4 DEF OverKept
<1>3. CASE (Graph /\ ~FailRun) \/ Disconnect
  <2>1. run' = run
    BY <1>1, <1>3 DEF Graph, PlanNode, ValidateNode, Schedule, ScheduleExecute, ScheduleWait,
       ScheduleFinalize, ExecuteNode, Worker, WorkerSucceeds, WorkerFails, WorkerAsksUser,
       WorkerRequires, WorkerRequiresInVain, Expand, ExpandOne, ExpandFails, ExpandDone,
       FinalizeNode, GraphEnds, NodeRaises, Disconnect, Active
  <2> QED BY <2>1 DEF run, OverKept
<1>4. CASE Resume \/ CancelRun
  BY <1>1, <1>4 DEF Resume, CancelRun
<1>5. CASE Over \/ UNCHANGED vars
  BY <1>5 DEF Over, vars, run, OverKept
<1> QED BY <1>2, <1>3, <1>4, <1>5 DEF Next

\* The steps and the plan of a run that is over are never changed again, by the graph, a
\* failure or the user, and its verdict is taken back only by the request that gave it,
\* which could not tell of it: _fail_run of engine.py, after the last save of a node.
THEOREM OverForEver == Spec => OverStaysOver
<1>1. IInv /\ [Next]_vars => ((status \in RunTerminal) => OverKept)
  BY OverStep
<1>2. Spec => [][(status \in RunTerminal) => OverKept]_vars
  BY <1>1, Invariance, PTL DEF Spec
<1> QED BY <1>2 DEF OverStaysOver, OverKept

-----------------------------------------------------------------------------
(* The abstract run *)

\* No step is lost, a required one stays required, a finished one stays as it is,
\* and a new one is not finished.
Carries(s, t) ==
  /\ DOMAIN s \subseteq DOMAIN t
  /\ \A i \in DOMAIN s :
       /\ t[i].required = s[i].required
       /\ s[i].status \in StepTerminal => t[i] = s[i]
  /\ \A i \in DOMAIN t : t[i].status \in StepTerminal => i \in DOMAIN s

LEMMA CarriesItself == \A s : Carries(s, s)
BY DEF Carries

LEMMA CarriesOne ==
  ASSUME NEW s, NEW i \in DOMAIN s, NEW x,
         s[i].status \notin StepTerminal, x.required = s[i].required,
         NEW t, t = [s EXCEPT ![i] = x]
  PROVE  Carries(s, t) /\ DOMAIN t = DOMAIN s
<1>1. DOMAIN t = DOMAIN s
  OBVIOUS
<1>2. t[i] = x /\ \A j \in DOMAIN s : j # i => t[j] = s[j]
  OBVIOUS
<1> QED BY <1>1, <1>2 DEF Carries

LEMMA CarriesBlock ==
  ASSUME NEW s \in Seq(Step), NEW p, NEW B, IsBlockedSet(p, s, B), B \subseteq DOMAIN p,
         NEW t, t = Block(p, s, B)
  PROVE  Carries(s, t) /\ DOMAIN t = DOMAIN s
<1>1. DOMAIN t = DOMAIN s /\ \A i \in DOMAIN s : t[i].required = s[i].required
  BY BlockKeeps
<1>2. ASSUME NEW i \in DOMAIN s, s[i].status \in StepTerminal PROVE t[i] = s[i]
  <2>1. ASSUME NEW k \in B, p[k] = i PROVE FALSE
    <3>1. s[i].status \in Schedulable
      BY <2>1 DEF IsBlockedSet
    <3> QED BY <1>2, <3>1 DEF Schedulable, StepTerminal, StepFailed
  <2> QED BY <2>1 DEF Block
<1> QED BY <1>1, <1>2 DEF Carries

-----------------------------------------------------------------------------
(* What the actions carry *)

LEMMA CarriesScheduled ==
  ASSUME IInv, Schedule
  PROVE  Carries(step, step')
<1>0. step \in Seq(Step) /\ node = "schedule"
  BY DEF IInv, TypeOK, Schedule, ScheduleExecute, ScheduleWait, ScheduleFinalize
<1>1. CASE ScheduleWait \/ ScheduleFinalize
  <2>1. PICK B \in SUBSET DOMAIN plan :
          IsBlockedSet(plan, step, B) /\ step' = Block(plan, step, B)
    BY <1>1 DEF ScheduleWait, ScheduleFinalize
  <2> QED BY <1>0, <2>1, CarriesBlock
<1>2. CASE ScheduleExecute
  <2>1. PICK B \in SUBSET DOMAIN plan :
          /\ IsBlockedSet(plan, step, B)
          /\ \E k \in DOMAIN plan :
               /\ IsFirstDispatchable(plan, Block(plan, step, B), k)
               /\ step' = [Block(plan, step, B) EXCEPT ![plan[k]] = Ready(@)]
    BY <1>2 DEF ScheduleExecute
  <2> DEFINE b == Block(plan, step, B)
  <2>2. PICK k \in DOMAIN plan :
          /\ IsFirstDispatchable(plan, b, k)
          /\ step' = [b EXCEPT ![plan[k]] = Ready(b[plan[k]])]
    BY <2>1
  <2> DEFINE i == plan[k]
             x == Ready(b[i])
  <2>3. b \in Seq(Step) /\ DOMAIN b = DOMAIN step /\ plan \in Seq(Nat) /\ Ordered(plan, b)
    BY <1>0, <2>1, AtSchedule
  <2>4. Carries(step, b)
    BY <1>0, <2>1, CarriesBlock
  <2> HIDE DEF b
  <2>5. i \in DOMAIN b
    BY <2>3, LenProperties DEF Ordered, Permutes
  <2>6. b[i].status \notin StepTerminal
    BY <2>2 DEF IsFirstDispatchable, Dispatchable, StepTerminal, StepFailed
  <2>7. x.required = b[i].required
    BY <2>3, <2>5, StatusOf, ReadyStep
  <2> HIDE DEF i, x
  <2>8. step' = [b EXCEPT ![i] = x]
    BY <2>2 DEF i, x
  <2>9. Carries(b, step')
    BY <2>5, <2>6, <2>7, <2>8, CarriesOne
  <2> QED BY <2>3, <2>4, <2>9 DEF Carries
<1> QED BY <1>1, <1>2 DEF Schedule

\* The step at work gets another status.
LEMMA CarriesAtWork ==
  ASSUME IInv, node \in {"worker", "expand"}, NEW x, x.required = step[next].required,
         NEW s, Grown(step, s), \A i \in DOMAIN step : i # next => s[i] = step[i],
         DOMAIN step \subseteq DOMAIN s, step' = [s EXCEPT ![next] = x]
  PROVE  Carries(step, step')
<1>1. /\ next \in DOMAIN step /\ step[next].status \notin StepTerminal
  BY AtWork
<1>2. DOMAIN step' = DOMAIN s /\ step'[next] = x
      /\ \A i \in DOMAIN s : i # next => step'[i] = s[i]
  BY <1>1
<1>3. \A i \in DOMAIN s : i \notin DOMAIN step => s[i].status \notin StepTerminal
  BY DEF Grown, StepTerminal, StepFailed
<1> QED BY <1>1, <1>2, <1>3 DEF Carries

LEMMA CarriesWork ==
  ASSUME IInv, Worker \/ ExpandFails \/ ExpandDone
  PROVE  Carries(step, step')
<1>1. CASE WorkerRequires
  BY <1>1, CarriesItself DEF WorkerRequires, run
<1>2. CASE WorkerSucceeds \/ WorkerFails \/ WorkerAsksUser \/ WorkerRequiresInVain
  <2>1. node = "worker"
    BY <1>2 DEF WorkerSucceeds, WorkerFails, WorkerAsksUser, WorkerRequiresInVain
  <2>2. step[next] \in Step /\ Grown(step, step)
    BY <2>1, AtWork, LenProperties DEF Grown
  <2>3. \E st \in StepStatus, e \in ErrorCode :
          \/ step' = [step EXCEPT ![next] = WithStatus(step[next], st)]
          \/ step' = [step EXCEPT ![next] = Mark(step[next], st, e)]
    <3>1. {"succeeded", "failed", "waiting_user"} \subseteq StepStatus
          /\ {"REQUIREMENT_PLANNING_FAILED"} \cup WorkerErrors \subseteq ErrorCode
      BY DEF StepStatus, StepTerminal, StepFailed, ErrorCode
    <3>2. CASE WorkerSucceeds
      BY <3>1, <3>2 DEF WorkerSucceeds, SaveResult
    <3>3. CASE WorkerFails
      BY <3>1, <3>3 DEF WorkerFails, SaveResult
    <3>4. CASE WorkerAsksUser
      BY <3>1, <3>4 DEF WorkerAsksUser, SaveResult
    <3>5. CASE WorkerRequiresInVain
      BY <3>1, <3>5 DEF WorkerRequiresInVain, FailRequirement
    <3> QED BY <1>2, <3>2, <3>3, <3>4, <3>5
  <2>4. PICK x : step' = [step EXCEPT ![next] = x] /\ x.required = step[next].required
    BY <2>2, <2>3, WithStatusStep, MarkStep
  <2> QED BY <2>1, <2>2, <2>4, CarriesAtWork
<1>3. CASE ExpandFails \/ ExpandDone
  <2> DEFINE w == work.step
  <2>1. node = "expand"
    BY <1>3 DEF ExpandFails, ExpandDone
  <2>2. Grown(step, w) /\ DOMAIN step \subseteq DOMAIN w /\ w[next] \in Step
        /\ work.inherited \in SUBSET Nat
    BY <2>1, AtExpansion DEF Grown
  <2>3. w[next].required = step[next].required
    BY <2>1, <2>2, AtWork DEF Grown
  <2>4. \A i \in DOMAIN step : i # next => w[i] = step[i]
    BY <2>1 DEF IInv, Expanding
  <2> HIDE DEF w
  <2>5. PICK x : step' = [w EXCEPT ![next] = x] /\ x.required = w[next].required
    <3>1. "failed" \in StepStatus /\ "REQUIREMENT_PLANNING_FAILED" \in ErrorCode
      BY DEF StepStatus, StepTerminal, StepFailed, ErrorCode
    <3>2. CASE ExpandFails
      <4>1. step' = [w EXCEPT ![next] = Mark(w[next], "failed", "REQUIREMENT_PLANNING_FAILED")]
        BY <3>2 DEF ExpandFails, FailRequirement, w
      <4> QED BY <2>2, <3>1, <4>1, MarkStep
    <3>3. CASE ExpandDone
      <4>1. step' = [w EXCEPT ![next] = AwaitTodos(w[next], work.inherited)]
        BY <3>3 DEF ExpandDone, w
      <4> DEFINE y == AwaitTodos(w[next], work.inherited)
      <4>2. y.required = w[next].required
        BY <2>2, AwaitTodosStep
      <4> HIDE DEF y
      <4>3. step' = [w EXCEPT ![next] = y]
        BY <4>1 DEF y
      <4> QED BY <4>2, <4>3
    <3> QED BY <1>3, <3>2, <3>3
  <2> QED BY <2>1, <2>2, <2>3, <2>4, <2>5, CarriesAtWork
<1> QED BY <1>1, <1>2, <1>3 DEF Worker

LEMMA CarriesStart ==
  ASSUME IInv, ExecuteNode
  PROVE  Carries(step, step')
<1>1. step' = [step EXCEPT ![next] = Begin(step[next])] /\ node = "execute"
  BY DEF ExecuteNode
<1>2. next \in DOMAIN step /\ step[next].status = "ready" /\ step[next] \in Step
  BY <1>1, StatusOf DEF IInv, OneRuns, TypeOK
<1> DEFINE x == Begin(step[next])
<1>3. x.required = step[next].required
  BY <1>2, BeginStep
<1>4. step' = [step EXCEPT ![next] = x]
  BY <1>1
<1> HIDE DEF x
<1> QED BY <1>2, <1>3, <1>4, CarriesOne DEF StepTerminal, StepFailed

LEMMA CarriesResumed ==
  ASSUME IInv, Resume
  PROVE  Carries(step, step')
<1> DEFINE i == waiting.step
           x == Mark(step[i], "pending", "none")
<1>1. step' = [step EXCEPT ![i] = x] /\ waiting # NoWait
  BY DEF Resume
<1>2. i \in DOMAIN step /\ step[i].status = "waiting_user" /\ step[i] \in Step
  BY <1>1, StatusOf DEF IInv, WaitingIsTrue, TypeOK
<1>3. x.required = step[i].required
  <2>1. "pending" \in StepStatus /\ "none" \in ErrorCode
    BY DEF StepStatus, ErrorCode
  <2> HIDE DEF i
  <2> QED BY <1>2, <2>1, MarkStep
<1> HIDE DEF x, i
<1> QED BY <1>1, <1>2, <1>3, CarriesOne DEF StepTerminal, StepFailed

\* Steps given up or cancelled: none that is finished, and no step more or less.
LEMMA CarriesEnd ==
  ASSUME IInv, FailRun \/ CancelRun
  PROVE  Carries(step, step') /\ DOMAIN step' = DOMAIN step
<1>1. step \in Seq(Step)
  BY DEF IInv, TypeOK
<1>2. "failed" \in StepStatus /\ "cancelled" \in StepStatus /\ "WORKFLOW_ERROR" \in ErrorCode
  BY DEF StepStatus, StepTerminal, StepFailed, ErrorCode
<1>3. DOMAIN step' = DOMAIN step
  BY DEF FailRun, CancelRun
<1>4. ASSUME NEW i \in DOMAIN step
      PROVE  /\ step'[i].required = step[i].required
             /\ step[i].status \in StepTerminal => step'[i] = step[i]
  <2>0. step[i] \in Step
    BY <1>1, StatusOf
  <2>1. \/ step'[i] = step[i]
        \/ step'[i] = Mark(step[i], "failed", "WORKFLOW_ERROR") /\ step[i].status = "running"
        \/ step'[i] = WithStatus(step[i], "cancelled") /\ step[i].status \notin StepTerminal
    BY DEF FailRun, CancelRun
  <2>2. Mark(step[i], "failed", "WORKFLOW_ERROR").required = step[i].required
    BY <1>2, <2>0, MarkStep
  <2>3. WithStatus(step[i], "cancelled").required = step[i].required
    BY <1>2, <2>0, WithStatusStep
  <2>4. "running" \notin StepTerminal
    BY DEF StepTerminal, StepFailed
  <2> QED BY <2>1, <2>2, <2>3, <2>4
<1> QED BY <1>3, <1>4 DEF Carries

\* The plan of a new run: at least one step, and all of them pending.
LEMMA PlannedSteps ==
  ASSUME IInv, ValidateNode
  PROVE  /\ status = "planning" /\ status' = "running" /\ DOMAIN step = {} /\ DOMAIN step' # {}
         /\ \A i \in DOMAIN step' : step'[i].status = "pending"
<1> DEFINE m == Len(draft)
           t == AddSteps(<<>>, draft, NoOwner, NoKey, 0, {})
<1>1. /\ node = "validate" /\ Valid(draft, "user_intent") /\ step' = t /\ status' = "running"
  BY DEF ValidateNode
<1>2. status = "planning" /\ step = <<>>
  BY <1>1 DEF IInv, Fresh
<1>3. draft \in Seq(Todo(STRING)) /\ m \in Nat /\ m # 0
  <2>1. draft \in Drafts /\ draft # <<>>
    BY <1>1 DEF IInv, TypeOK, Valid
  <2>2. draft \in Seq(Todo(STRING))
    BY <2>1, DraftsAssumption
  <2> HIDE DEF m
  <2>3. m \in Nat /\ m # 0
    BY <2>1, <2>2, LenProperties, EmptySeq DEF m
  <2> QED BY <2>2, <2>3
<1>4. DOMAIN t = 1..m /\ \A i \in 1..m : t[i].status = "pending"
  <2>1. <<>> \in Seq(Step) /\ Len(<<>>) = 0
    OBVIOUS
  <2>2. NoOwner \in Nat /\ NoKey \in Keys \cup {NoKey} /\ 0 \in Nat /\ {} \in SUBSET Nat
    BY DEF NoOwner
  <2>3. Added(<<>>, t, draft, {})
    BY <1>1, <1>3, <2>1, <2>2, AddStepsIs
  <2> HIDE DEF t
  <2>4. Len(<<>>) + m = m
    BY <1>3, <2>1
  <2>5. DOMAIN t = 1..m /\ NewSteps(t, 0, m, {})
    BY <2>1, <2>3, <2>4 DEF Added
  <2>6. ASSUME NEW i \in 1..m PROVE t[i].status = "pending"
    <3>1. 0 + i = i
      BY <1>3
    <3> QED BY <2>5, <3>1 DEF NewSteps
  <2> QED BY <2>5, <2>6
<1> HIDE DEF t
<1>5. 1 \in DOMAIN t
  BY <1>3, <1>4
<1> QED BY <1>1, <1>2, <1>4, <1>5

LEMMA CarriesNext ==
  ASSUME IInv, [Next]_vars
  PROVE  Carries(step, step')
<1>1. CASE ValidateNode
  BY <1>1, PlannedSteps DEF Carries, StepTerminal, StepFailed
<1>2. CASE PlanNode \/ NodeRaises \/ FinalizeNode \/ GraphEnds \/ ExpandOne \/ Disconnect \/ Over \/ UNCHANGED vars
  <2>1. step' = step
    BY <1>2 DEF PlanNode, NodeRaises, FinalizeNode, GraphEnds, ExpandOne, Disconnect, Over, vars, run
  <2> QED BY <2>1, CarriesItself
<1> QED BY <1>1, <1>2, CarriesScheduled, CarriesWork, CarriesStart, CarriesResumed, CarriesEnd
        DEF Next, Graph, Expand

\* A finished step is never reopened, whatever is inserted, resumed, given up
\* or cancelled (engine.py, scheduler.py).
THEOREM FinishedForEver == Spec => FinishedStaysFinished
<1>1. IInv /\ [Next]_vars =>
        \A i \in DOMAIN step : step[i].status \in StepTerminal => step'[i] = step[i]
  BY CarriesNext DEF Carries
<1>2. Spec => [][\A i \in DOMAIN step :
                   step[i].status \in StepTerminal => step'[i] = step[i]]_vars
  BY <1>1, Invariance, PTL DEF Spec
<1> QED BY <1>2 DEF FinishedStaysFinished

-----------------------------------------------------------------------------
(* The refinement *)

LEMMA PromiseInit == Init => Promise!PInit
<1> SUFFICES ASSUME Init PROVE Promise!PInit
  OBVIOUS
<1>1. status = "planning" /\ DOMAIN step = {} /\ ~VerdictStands
  BY DEF Init, VerdictStands, RunTerminal
<1> QED BY <1>1 DEF Promise!PInit

\* An open run that stays open, and carries its steps over, works.
LEMMA PromiseWork ==
  ASSUME Carries(step, step'), status \in {"running", "waiting_user"},
         status' \in {"running", "waiting_user"}
  PROVE  Promise!Work
<1>1. ASSUME NEW i \in DOMAIN step, Succeeded(step, i) \/ Failed(step, i)
      PROVE  i \in DOMAIN step' /\ step'[i] = step[i]
  BY <1>1 DEF Carries, Succeeded, Failed, StepTerminal
<1>2. \A i \in DOMAIN step : i \in DOMAIN step' /\ step'[i].required = step[i].required
  BY DEF Carries
<1>3. \A i \in DOMAIN step' : Succeeded(step', i) \/ Failed(step', i) => i \in DOMAIN step
  BY DEF Carries, Succeeded, Failed, StepTerminal
<1> DEFINE must(s) == {i \in DOMAIN s : s[i].required}
           ok(s)   == {i \in DOMAIN s : Succeeded(s, i)}
           bad(s)  == {i \in DOMAIN s : Failed(s, i)}
<1>4. must(step') \cap DOMAIN step = must(step)
  BY <1>2
<1>5. ok(step) \subseteq ok(step') /\ bad(step) \subseteq bad(step')
  BY <1>1 DEF Succeeded, Failed
<1>6. ok(step') \cap bad(step') = {}
  BY DEF Succeeded, Failed, StepFailed
<1>7. ok(step') \cup bad(step') \subseteq DOMAIN step
  BY <1>3
<1>8. DOMAIN step \subseteq DOMAIN step'
  BY <1>2
<1>9. ~VerdictStands'
  BY DEF VerdictStands, RunTerminal
<1> QED BY <1>4, <1>5, <1>6, <1>7, <1>8, <1>9 DEF Promise!Work, Promise!Open, Succeeded, Failed

LEMMA PromiseAdopt ==
  ASSUME IInv, ValidateNode
  PROVE  Promise!Adopt
<1>1. \A i \in DOMAIN step' : ~Succeeded(step', i) /\ ~Failed(step', i)
  BY PlannedSteps DEF Succeeded, Failed, StepFailed
<1>2. ~VerdictStands'
  BY PlannedSteps DEF VerdictStands, RunTerminal
<1> QED BY <1>1, <1>2, PlannedSteps DEF Promise!Adopt, Succeeded, Failed

LEMMA PromiseConclude ==
  ASSUME IInv, FinalizeNode
  PROVE  Promise!Conclude
<1>1. /\ MayFinalize(step) /\ status' = FinalStatus(step) /\ step' = step /\ status = "running"
  BY DEF FinalizeNode, IInv, RunOpen
<1>2. \A i \in DOMAIN step : Succeeded(step, i) \/ Failed(step, i)
  BY <1>1 DEF MayFinalize, StepTerminal, Succeeded, Failed
<1> DEFINE must == {i \in DOMAIN step : step[i].required}
           ok   == {i \in DOMAIN step : Succeeded(step, i)}
           bad  == {i \in DOMAIN step : Failed(step, i)}
<1>3. ok \cup bad = DOMAIN step
  BY <1>2
<1>4. {i \in DOMAIN step : step[i].required /\ Failed(step, i)} = must \cap bad
  OBVIOUS
<1>5. status' = IF must \cap bad = {} THEN "succeeded"
                ELSE IF ok = {}       THEN "failed"
                ELSE "partially_succeeded"
  BY <1>1, <1>4 DEF FinalStatus
<1>6. ~VerdictStands'
  BY DEF FinalizeNode, VerdictStands
<1> QED BY <1>1, <1>3, <1>5, <1>6 DEF Promise!Conclude, Promise!Verdict, Succeeded, Failed

LEMMA PromiseEnd ==
  ASSUME IInv, FailRun \/ CancelRun
  PROVE  Promise!GiveUp \/ Promise!Cancel
<1>1. Carries(step, step') /\ DOMAIN step' = DOMAIN step
  BY CarriesEnd
<1>2. \A i \in DOMAIN step : Succeeded(step, i) \/ Failed(step, i) => step'[i] = step[i]
  BY <1>1 DEF Carries, Succeeded, Failed, StepTerminal
<1>3. \A i \in DOMAIN step : step'[i].required = step[i].required
  BY <1>1 DEF Carries
<1>4. CancelRun => status \in {"planning", "running", "waiting_user"}
  BY DEF CancelRun, IInv, TypeOK, RunStatus
<1>5. ASSUME NEW i \in DOMAIN step
      PROVE  /\ Succeeded(step', i) => Succeeded(step, i)
             /\ CancelRun => Succeeded(step', i) \/ Failed(step', i)
  <2>0. step[i] \in Step
    BY StatusOf DEF IInv, TypeOK
  <2>1. \/ step'[i] = step[i] /\ (CancelRun => step[i].status \in StepTerminal)
        \/ step'[i] = Mark(step[i], "failed", "WORKFLOW_ERROR")
        \/ step'[i] = WithStatus(step[i], "cancelled")
    BY DEF FailRun, CancelRun
  <2>2. /\ Mark(step[i], "failed", "WORKFLOW_ERROR").status = "failed"
        /\ WithStatus(step[i], "cancelled").status = "cancelled"
    BY <2>0, MarkStep, WithStatusStep DEF StepStatus, StepTerminal, StepFailed, ErrorCode
  <2> QED BY <2>1, <2>2 DEF Succeeded, Failed, StepTerminal, StepFailed
<1>6. \A i \in DOMAIN step : ~(Succeeded(step', i) /\ Failed(step', i))
  BY DEF Succeeded, Failed, StepFailed
<1>7. CASE FailRun
  <2>1. status' = "failed" /\ ~VerdictStands /\ VerdictStands'
    BY <1>7 DEF FailRun, VerdictStands, RunTerminal
  <2> QED BY <1>1, <1>2, <1>3, <1>5, <1>6, <2>1 DEF Promise!GiveUp, Succeeded, Failed
<1>8. CASE CancelRun
  <2>1. status' = "cancelled" /\ VerdictStands'
    BY <1>8 DEF CancelRun, VerdictStands, RunTerminal
  <2> QED BY <1>1, <1>2, <1>3, <1>4, <1>5, <1>6, <1>8, <2>1
          DEF Promise!Cancel, Promise!Open, Succeeded, Failed
<1> QED BY <1>7, <1>8

\* The run stays as it is, and its verdict may come to stand.
LEMMA PromiseSettle ==
  ASSUME UNCHANGED run, VerdictStands => VerdictStands'
  PROVE  Promise!Settle \/ UNCHANGED Promise!pvars
<1>1. CASE VerdictStands' /\ ~VerdictStands
  <2>1. status \in RunTerminal
    BY <1>1 DEF VerdictStands, run
  <2> QED BY <1>1, <2>1 DEF Promise!Settle, Promise!Open, run, RunTerminal, Succeeded, Failed
<1>2. CASE VerdictStands' <=> VerdictStands
  BY <1>2 DEF run, VerdictStands, Promise!pvars, Succeeded, Failed
<1> QED BY <1>1, <1>2

LEMMA PromiseStep ==
  ASSUME IInv, [Next]_vars
  PROVE  [Promise!PNext]_(Promise!pvars)
<1>1. CASE UNCHANGED run /\ (VerdictStands => VerdictStands')
  BY <1>1, PromiseSettle DEF Promise!PNext
<1>2. CASE ValidateNode
  BY <1>2, PromiseAdopt DEF Promise!PNext
<1>3. CASE FinalizeNode
  BY <1>3, PromiseConclude DEF Promise!PNext
<1>4. CASE FailRun \/ CancelRun
  BY <1>4, PromiseEnd DEF Promise!PNext
<1>5. CASE Schedule \/ ExecuteNode \/ Worker \/ Expand \/ Resume
  <2>1. status \in {"running", "waiting_user"}
    BY <1>5 DEF Schedule, ScheduleExecute, ScheduleWait, ScheduleFinalize, ExecuteNode,
       Worker, WorkerSucceeds, WorkerFails, WorkerAsksUser, WorkerRequires, WorkerRequiresInVain,
       Expand, ExpandOne, ExpandFails, ExpandDone, Resume,
       IInv, TypeOK, RunOpen, RunStatus, Active
  <2>2. status' \in {status, "running", "waiting_user"}
    BY <1>5 DEF Schedule, ScheduleExecute, ScheduleWait, ScheduleFinalize, ExecuteNode,
       Worker, WorkerSucceeds, WorkerFails, WorkerAsksUser, WorkerRequires, WorkerRequiresInVain,
       FailRequirement, Expand, ExpandOne, ExpandFails, ExpandDone, Resume, run
  <2> QED BY <2>1, <2>2, CarriesNext, PromiseWork DEF Promise!PNext
<1>6. CASE PlanNode \/ GraphEnds \/ NodeRaises \/ Disconnect \/ Over \/ UNCHANGED vars
  <2>1. UNCHANGED run
    BY <1>6 DEF PlanNode, GraphEnds, NodeRaises, Disconnect, Over, vars
  <2>2. VerdictStands => VerdictStands'
    BY <1>6 DEF PlanNode, GraphEnds, NodeRaises, Disconnect, Over, vars, run, VerdictStands,
                IInv, RunOpen, Fresh, Active, RunTerminal
  <2> QED BY <1>1, <2>1, <2>2
<1> QED BY <1>2, <1>3, <1>4, <1>5, <1>6 DEF Next, Graph

\* The engine implements the abstract run: whatever planner and workers answer,
\* todos are closed once and for all, a required todo stays required through
\* every insertion, the verdict speaks of all of them (white paper, 3.1), and it
\* stands, or is taken back once, before the request that gave it is over.
THEOREM EngineKeepsPromise == Spec => KeepsPromise
<1>1. Init => Promise!PInit
  BY PromiseInit
<1>2. IInv /\ [Next]_vars => [Promise!PNext]_(Promise!pvars)
  BY PromiseStep
<1>3. Spec => Promise!PInit /\ [][Promise!PNext]_(Promise!pvars)
  BY <1>1, <1>2, Invariance, PTL DEF Spec
<1> QED BY <1>3 DEF KeepsPromise, Promise!PSpec

-----------------------------------------------------------------------------
(* The order in which steps succeed *)

\* A place of an ordered list: other steps stand in front of it, and with each
\* of them everything it depends on.
LEMMA FrontOf ==
  ASSUME NEW p \in Seq(Nat), NEW s \in Seq(Step), Ordered(p, s), NEW k \in DOMAIN p
  PROVE  /\ p[k] \in DOMAIN s
         /\ \A j \in 1..(k - 1) :
              /\ j \in DOMAIN p /\ p[j] \in DOMAIN s /\ p[j] # p[k]
              /\ \A d \in s[p[j]].depends_on :
                   d \in DOMAIN s /\ \E l \in 1..(k - 1) : p[l] = d
<1> DEFINE n == Len(s)
<1>1. n \in Nat /\ DOMAIN s = 1..n /\ DOMAIN p = 1..n
  BY LenProperties DEF Ordered
<1>2. Permutes(p, n) /\ Precede(p, n, s)
  BY DEF Ordered
<1> HIDE DEF n
<1>3. ASSUME NEW j \in 1..(k - 1)
      PROVE  j \in 1..n /\ j # k /\ \A l \in 1..(j - 1) : l \in 1..(k - 1)
  BY <1>1
<1>4. ASSUME NEW j \in 1..(k - 1), NEW d \in s[p[j]].depends_on
      PROVE  d \in DOMAIN s /\ \E l \in 1..(k - 1) : p[l] = d
  <2>1. PICK l \in 1..(j - 1) : p[l] = d
    BY <1>2, <1>3 DEF Precede, Among
  <2>2. l \in 1..(k - 1) /\ l \in 1..n
    BY <1>3, <2>1
  <2> QED BY <1>1, <1>2, <2>1, <2>2 DEF Permutes
<1> QED BY <1>1, <1>2, <1>3, <1>4 DEF Permutes

\* Nothing newly succeeded, and nothing that was stuck came free.
StaysStuck(w, s, v, t) ==
  \A i \in DOMAIN s :
    /\ Succeeded(t, i) <=> Succeeded(s, i)
    /\ ~Succeeded(s, i) /\ Stuck(w, s, i) => Stuck(v, t, i)

LEMMA PassedStays ==
  ASSUME NEW p \in Seq(Nat), NEW s \in Seq(Step), NEW t, NEW w, NEW v, Ordered(p, s),
         StaysStuck(w, s, v, t)
  PROVE  /\ PassedOver(w, p, s) => PassedOver(v, p, t)
         /\ \A k \in DOMAIN p : FrontStuck(w, p, s, k) => FrontStuck(v, p, t, k)
<1>1. ASSUME NEW k \in DOMAIN p, FrontStuck(w, p, s, k) PROVE FrontStuck(v, p, t, k)
  BY <1>1, FrontOf DEF FrontStuck, StaysStuck
<1> QED BY <1>1, FrontOf DEF PassedOver, StaysStuck

\* Steps that are over or blocked at last, and a question that is dropped.
LEMMA ClosedStays ==
  ASSUME NEW p \in Seq(Nat), NEW s \in Seq(Step), NEW t, NEW w, NEW v, Ordered(p, s),
         \A i \in DOMAIN s :
           /\ t[i].depends_on = s[i].depends_on
           /\ \/ t[i].status = s[i].status
              \/ s[i].status \notin StepTerminal /\ t[i].status \in StepFailed
           /\ s[i].status = "waiting_user" /\ w.step # i => v.step # i
  PROVE  StaysStuck(w, s, v, t)
<1>1. \A i \in DOMAIN s : Succeeded(t, i) <=> Succeeded(s, i)
  BY DEF Succeeded, StepFailed, StepTerminal
<1>2. ASSUME NEW i \in DOMAIN s, Stuck(w, s, i) PROVE Stuck(v, t, i)
  <2>1. s[i].depends_on \subseteq DOMAIN s
    BY DepsKnown
  <2>2. ~AllSucceeded(s, s[i].depends_on) => ~AllSucceeded(t, t[i].depends_on)
    BY <1>1, <2>1 DEF AllSucceeded
  <2> QED BY <1>2, <2>2 DEF Stuck, StepTerminal
<1> QED BY <1>1, <1>2 DEF StaysStuck

\* One step that was not stuck takes any status but success.
LEMMA FreeStays ==
  ASSUME NEW p \in Seq(Nat), NEW s \in Seq(Step), NEW t, NEW w, NEW v, Ordered(p, s),
         NEW i \in DOMAIN s, ~Stuck(w, s, i), ~Succeeded(t, i),
         \A j \in DOMAIN s : j # i =>
           /\ t[j] = s[j]
           /\ s[j].status = "waiting_user" /\ w.step # j => v.step # j
  PROVE  StaysStuck(w, s, v, t)
<1>0. ~Succeeded(s, i)
  BY DEF Stuck, Succeeded, StepTerminal
<1>1. \A j \in DOMAIN s : Succeeded(t, j) <=> Succeeded(s, j)
  BY <1>0 DEF Succeeded
<1>2. ASSUME NEW j \in DOMAIN s, Stuck(w, s, j) PROVE Stuck(v, t, j)
  <2>0. j # i /\ t[j] = s[j]
    BY <1>2
  <2>1. s[j].depends_on \subseteq DOMAIN s
    BY DepsKnown
  <2>2. ~AllSucceeded(s, s[j].depends_on) => ~AllSucceeded(t, t[j].depends_on)
    BY <1>1, <2>0, <2>1 DEF AllSucceeded
  <2> QED BY <1>2, <2>0, <2>2 DEF Stuck
<1> QED BY <1>1, <1>2 DEF StaysStuck

\* A step succeeds that was not stuck and has only stuck ones in front of it.
LEMMA PassedOne ==
  ASSUME NEW p \in Seq(Nat), NEW s \in Seq(Step), NEW t, NEW w, Ordered(p, s),
         PassedOver(w, p, s), NEW i \in DOMAIN s, ~Stuck(w, s, i),
         \A k \in DOMAIN p : p[k] = i => FrontStuck(w, p, s, k),
         \A j \in DOMAIN s : j # i => t[j] = s[j]
  PROVE  PassedOver(w, p, t)
<1> SUFFICES ASSUME NEW k \in DOMAIN p, Succeeded(t, p[k]),
                    NEW j \in 1..(k - 1), ~Succeeded(t, p[j])
             PROVE  Stuck(w, t, p[j])
  BY DEF PassedOver, FrontStuck
<1>1. FrontStuck(w, p, s, k)
  BY FrontOf DEF PassedOver, Succeeded
<1>2. \A l \in 1..(k - 1) : p[l] # i
  <2>1. CASE p[k] = i
    BY <2>1, FrontOf
  <2>2. CASE p[k] # i
    <3>1. \A l \in 1..(k - 1) : p[l] = i => Succeeded(s, i)
      BY <1>1 DEF FrontStuck
    <3>2. ~Succeeded(s, i)
      BY DEF Stuck, Succeeded, StepTerminal
    <3> QED BY <3>1, <3>2
  <2> QED BY <2>1, <2>2
<1>3. p[j] \in DOMAIN s /\ t[p[j]] = s[p[j]]
  BY <1>2, FrontOf
<1>4. Stuck(w, s, p[j])
  BY <1>1, <1>3 DEF FrontStuck, Succeeded
<1>5. \A d \in s[p[j]].depends_on : t[d] = s[d]
  BY <1>2, FrontOf
<1> QED BY <1>3, <1>4, <1>5 DEF Stuck, AllSucceeded, Succeeded

\* No step newly succeeds.
NoneSucceeds == \A i \in DOMAIN step : Succeeded(step', i) => Succeeded(step, i)

LEMMA StaysInOrder ==
  ASSUME IInv, InOrder, plan' = plan, StaysStuck(waiting, step, waiting', step'),
         node' # "expand",
         node' \in {"execute", "worker"} => node \in {"execute", "worker"} /\ next' = next
  PROVE  InOrder' /\ NoneSucceeds
<1>1. plan \in Seq(Nat) /\ step \in Seq(Step) /\ Ordered(plan, step)
  BY DEF IInv, TypeOK, DepsPrecede
<1>2. PassedOver(waiting', plan', step')
  BY <1>1, PassedStays DEF InOrder
<1>3. node' \in {"execute", "worker"} =>
        \A k \in DOMAIN plan' : plan'[k] = next' => FrontStuck(waiting', plan', step', k)
  BY <1>1, PassedStays DEF InOrder
<1>4. NoneSucceeds
  BY DEF StaysStuck, NoneSucceeds
<1> QED BY <1>2, <1>3, <1>4
        DEF InOrder, PassedOver, FrontStuck, Stuck, AllSucceeded, Succeeded

\* The open question is the same or dropped.
LEMMA QuestionDropped ==
  ASSUME IInv, waiting' \in {waiting, NoWait}
  PROVE  \A i \in DOMAIN step : waiting.step # i => waiting'.step # i
<1>1. \A i \in DOMAIN step : i # 0
  BY LenProperties DEF IInv, TypeOK
<1> QED BY <1>1 DEF NoWait

LEMMA ClosedInOrder ==
  ASSUME IInv, InOrder, plan' = plan, waiting' \in {waiting, NoWait},
         node' \notin {"execute", "worker", "expand"},
         \A i \in DOMAIN step :
           /\ step'[i].depends_on = step[i].depends_on
           /\ \/ step'[i].status = step[i].status
              \/ step[i].status \notin StepTerminal /\ step'[i].status \in StepFailed
  PROVE  InOrder' /\ NoneSucceeds
<1>1. plan \in Seq(Nat) /\ step \in Seq(Step) /\ Ordered(plan, step)
  BY DEF IInv, TypeOK, DepsPrecede
<1>2. StaysStuck(waiting, step, waiting', step')
  BY <1>1, QuestionDropped, ClosedStays
<1> QED BY <1>2, StaysInOrder

\* The blocked steps are the only ones the first pass of the scheduler changes.
LEMMA BlockCloses ==
  ASSUME NEW p, NEW s \in Seq(Step), NEW B, IsBlockedSet(p, s, B), B \subseteq DOMAIN p,
         NEW t, t = Block(p, s, B), NEW i \in DOMAIN s
  PROVE  /\ t[i].depends_on = s[i].depends_on
         /\ \/ t[i].status = s[i].status
            \/ s[i].status \notin StepTerminal /\ t[i].status \in StepFailed
<1>1. /\ t[i].depends_on = s[i].depends_on
      /\ t[i].status = IF \E k \in B : p[k] = i THEN "blocked" ELSE s[i].status
  BY BlockKeeps
<1>2. ASSUME NEW k \in B, p[k] = i PROVE s[i].status \notin StepTerminal
  <2>1. s[i].status \in Schedulable
    BY <1>2 DEF IsBlockedSet
  <2> QED BY <2>1 DEF Schedulable, StepTerminal, StepFailed
<1> QED BY <1>1, <1>2 DEF StepFailed

LEMMA EndInOrder ==
  ASSUME IInv, InOrder, FailRun \/ CancelRun
  PROVE  InOrder' /\ NoneSucceeds
<1>1. plan' = plan /\ waiting' = NoWait /\ node' = "end"
  BY DEF FailRun, CancelRun
<1>2. ASSUME NEW i \in DOMAIN step
      PROVE  /\ step'[i].depends_on = step[i].depends_on
             /\ \/ step'[i].status = step[i].status
                \/ step[i].status \notin StepTerminal /\ step'[i].status \in StepFailed
  <2>0. step[i] \in Step
    BY StatusOf DEF IInv, TypeOK
  <2>1. \/ step'[i] = step[i]
        \/ step'[i] = Mark(step[i], "failed", "WORKFLOW_ERROR") /\ step[i].status = "running"
        \/ step'[i] = WithStatus(step[i], "cancelled") /\ step[i].status \notin StepTerminal
    BY DEF FailRun, CancelRun
  <2>2. "failed" \in StepStatus /\ "cancelled" \in StepStatus /\ "WORKFLOW_ERROR" \in ErrorCode
    BY DEF StepStatus, StepTerminal, StepFailed, ErrorCode
  <2>3. /\ Mark(step[i], "failed", "WORKFLOW_ERROR").status = "failed"
        /\ Mark(step[i], "failed", "WORKFLOW_ERROR").depends_on = step[i].depends_on
    BY <2>0, <2>2, MarkStep
  <2>4. /\ WithStatus(step[i], "cancelled").status = "cancelled"
        /\ WithStatus(step[i], "cancelled").depends_on = step[i].depends_on
    BY <2>0, <2>2, WithStatusStep
  <2>5. {"failed", "cancelled"} \subseteq StepFailed /\ "running" \notin StepTerminal
    BY DEF StepTerminal, StepFailed
  <2> QED BY <2>1, <2>3, <2>4, <2>5
<1> QED BY <1>1, <1>2, ClosedInOrder

LEMMA RestInOrder ==
  ASSUME IInv, InOrder,
         ScheduleWait \/ ScheduleFinalize \/ PlanNode \/ NodeRaises \/ FinalizeNode
           \/ GraphEnds \/ Disconnect \/ Over
  PROVE  InOrder' /\ NoneSucceeds
<1>0. step \in Seq(Step)
  BY DEF IInv, TypeOK
<1>1. CASE ScheduleWait \/ ScheduleFinalize
  <2>1. PICK B \in SUBSET DOMAIN plan :
          IsBlockedSet(plan, step, B) /\ step' = Block(plan, step, B)
    BY <1>1 DEF ScheduleWait, ScheduleFinalize
  <2>2. plan' = plan
    BY <1>1 DEF ScheduleWait, ScheduleFinalize
  <2> DEFINE b == Block(plan, step, B)
  <2>3. \A i \in DOMAIN step :
          /\ b[i].depends_on = step[i].depends_on
          /\ \/ b[i].status = step[i].status
             \/ step[i].status \notin StepTerminal /\ b[i].status \in StepFailed
    BY <1>0, <2>1, BlockCloses
  <2> HIDE DEF b
  <2>4. plan' = plan /\ step' = b
    BY <2>1, <2>2 DEF b
  <2>5. waiting' \in {waiting, NoWait} /\ node' \notin {"execute", "worker", "expand"}
    BY <1>1 DEF ScheduleWait, ScheduleFinalize
  <2> QED BY <2>3, <2>4, <2>5, ClosedInOrder
<1>2. CASE PlanNode \/ NodeRaises \/ FinalizeNode \/ GraphEnds \/ Disconnect \/ Over
  <2>1. /\ plan' = plan /\ step' = step /\ waiting' \in {waiting, NoWait}
        /\ node' \in {"validate", "failing", "ending", "end", "lost"}
    BY <1>2 DEF PlanNode, NodeRaises, FinalizeNode, GraphEnds, Disconnect, Over, run, vars
  <2> QED BY <2>1, ClosedInOrder
<1> QED BY <1>1, <1>2

\* One step that is not stuck moves on, but does not succeed.
LEMMA FreeInOrder ==
  ASSUME IInv, InOrder, plan' = plan, NEW i \in DOMAIN step, ~Stuck(waiting, step, i),
         NEW x, step' = [step EXCEPT ![i] = x], x.status # "succeeded",
         waiting' \in {waiting, NoWait} \/ waiting'.step = i,
         node' # "expand",
         node' \in {"execute", "worker"} => node \in {"execute", "worker"} /\ next' = next
  PROVE  InOrder' /\ NoneSucceeds
<1>1. plan \in Seq(Nat) /\ step \in Seq(Step) /\ Ordered(plan, step)
  BY DEF IInv, TypeOK, DepsPrecede
<1>2. ~Succeeded(step', i) /\ \A j \in DOMAIN step : j # i => step'[j] = step[j]
  BY DEF Succeeded
<1>3. ASSUME NEW j \in DOMAIN step, j # i, waiting.step # j PROVE waiting'.step # j
  BY <1>3, QuestionDropped
<1>4. StaysStuck(waiting, step, waiting', step')
  BY <1>1, <1>2, <1>3, FreeStays
<1> QED BY <1>4, StaysInOrder

LEMMA StartInOrder ==
  ASSUME IInv, InOrder, ExecuteNode
  PROVE  InOrder' /\ NoneSucceeds
<1> DEFINE x == Begin(step[next])
<1>1. /\ step' = [step EXCEPT ![next] = x] /\ node = "execute" /\ node' = "worker"
      /\ plan' = plan /\ waiting' = waiting /\ next' = next
  BY DEF ExecuteNode
<1>2. /\ next \in DOMAIN step /\ step[next].status = "ready" /\ step[next] \in Step
      /\ AllSucceeded(step, step[next].depends_on)
  BY <1>1, StatusOf DEF IInv, OneRuns, TypeOK
<1>3. ~Stuck(waiting, step, next)
  BY <1>2 DEF Stuck, StepTerminal, StepFailed
<1>4. x.status = "running"
  BY <1>2, BeginStep
<1> HIDE DEF x
<1> QED BY <1>1, <1>2, <1>3, <1>4, FreeInOrder

LEMMA AnswerInOrder ==
  ASSUME IInv, InOrder, WorkerFails \/ WorkerAsksUser \/ WorkerRequiresInVain
  PROVE  InOrder' /\ NoneSucceeds
<1>1. /\ node = "worker" /\ node' = "schedule" /\ plan' = plan
      /\ waiting' = waiting \/ waiting'.step = next
  BY DEF WorkerFails, WorkerAsksUser, WorkerRequiresInVain, SaveResult, FailRequirement
<1>2. /\ next \in DOMAIN step /\ step[next] \in Step /\ ~Stuck(waiting, step, next)
  BY <1>1, AtWork DEF Stuck
<1>3. \E st \in {"failed", "waiting_user"}, e \in ErrorCode :
        \/ step' = [step EXCEPT ![next] = WithStatus(step[next], st)]
        \/ step' = [step EXCEPT ![next] = Mark(step[next], st, e)]
  <2>1. {"REQUIREMENT_PLANNING_FAILED"} \cup WorkerErrors \subseteq ErrorCode
    BY DEF ErrorCode
  <2>2. CASE WorkerFails
    BY <2>1, <2>2 DEF WorkerFails, SaveResult
  <2>3. CASE WorkerAsksUser
    BY <2>1, <2>3 DEF WorkerAsksUser, SaveResult
  <2>4. CASE WorkerRequiresInVain
    BY <2>1, <2>4 DEF WorkerRequiresInVain, FailRequirement
  <2> QED BY <2>2, <2>3, <2>4
<1>4. PICK x : step' = [step EXCEPT ![next] = x] /\ x.status # "succeeded"
  <2>1. {"failed", "waiting_user"} \subseteq StepStatus
    BY DEF StepStatus, StepTerminal, StepFailed
  <2>2. PICK st \in {"failed", "waiting_user"}, e \in ErrorCode :
          \/ step' = [step EXCEPT ![next] = WithStatus(step[next], st)]
          \/ step' = [step EXCEPT ![next] = Mark(step[next], st, e)]
    BY <1>3
  <2>3. WithStatus(step[next], st).status = st /\ Mark(step[next], st, e).status = st
    BY <1>2, <2>1, WithStatusStep, MarkStep
  <2> QED BY <2>2, <2>3
<1> QED BY <1>1, <1>2, <1>4, FreeInOrder

\* The step of the open question is not stuck: it is asked next.
LEMMA ResumeInOrder ==
  ASSUME IInv, InOrder, Resume
  PROVE  InOrder' /\ NoneSucceeds
<1> DEFINE i == waiting.step
           x == Mark(step[i], "pending", "none")
<1>1. /\ step' = [step EXCEPT ![i] = x] /\ waiting # NoWait /\ waiting' = NoWait
      /\ plan' = plan /\ node' = "schedule"
  BY DEF Resume
<1>2. i \in DOMAIN step /\ step[i].status = "waiting_user" /\ step[i] \in Step
      /\ AllSucceeded(step, step[i].depends_on)
  BY <1>1, StatusOf DEF IInv, WaitingIsTrue, TypeOK, Sound
<1>3. ~Stuck(waiting, step, i)
  BY <1>2 DEF Stuck, StepTerminal, StepFailed
<1>4. x.status # "succeeded"
  <2>1. "pending" \in StepStatus /\ "none" \in ErrorCode
    BY DEF StepStatus, ErrorCode
  <2> HIDE DEF i
  <2> QED BY <1>2, <2>1, MarkStep
<1> HIDE DEF x, i
<1> QED BY <1>1, <1>2, <1>3, <1>4, FreeInOrder

LEMMA SuccessInOrder ==
  ASSUME IInv, InOrder, WorkerSucceeds
  PROVE  /\ InOrder'
         /\ \A i \in DOMAIN step : Succeeded(step', i) => Succeeded(step, i) \/ i = next
<1>1. /\ node = "worker" /\ node' = "schedule" /\ plan' = plan /\ waiting' = waiting
      /\ step' = [step EXCEPT ![next] = WithStatus(step[next], "succeeded")]
  BY DEF WorkerSucceeds, SaveResult
<1>2. /\ plan \in Seq(Nat) /\ step \in Seq(Step) /\ Ordered(plan, step)
      /\ next \in DOMAIN step /\ ~Stuck(waiting, step, next)
  BY <1>1, AtWork DEF Stuck
<1>3. \A j \in DOMAIN step : j # next => step'[j] = step[j]
  BY <1>1
<1>4. \A k \in DOMAIN plan : plan[k] = next => FrontStuck(waiting, plan, step, k)
  BY <1>1 DEF InOrder
<1>5. PassedOver(waiting, plan, step')
  BY <1>2, <1>3, <1>4, PassedOne DEF InOrder
<1>6. InOrder'
  BY <1>1, <1>5 DEF InOrder, PassedOver, FrontStuck, Stuck, AllSucceeded, Succeeded
<1> QED BY <1>3, <1>4, <1>6 DEF Succeeded

LEMMA DispatchInOrder ==
  ASSUME IInv, InOrder, ScheduleExecute
  PROVE  InOrder' /\ NoneSucceeds
<1>1. node = "schedule" /\ waiting' = NoWait /\ node' = "execute" /\ plan' = plan
  BY DEF ScheduleExecute
<1>2. PICK B \in SUBSET DOMAIN plan :
        /\ IsBlockedSet(plan, step, B)
        /\ \E k \in DOMAIN plan :
             /\ IsFirstDispatchable(plan, Block(plan, step, B), k)
             /\ step' = [Block(plan, step, B) EXCEPT ![plan[k]] = Ready(@)]
             /\ next' = plan[k]
  BY DEF ScheduleExecute
<1> DEFINE b == Block(plan, step, B)
<1>3. PICK k \in DOMAIN plan :
        /\ IsFirstDispatchable(plan, b, k)
        /\ step' = [b EXCEPT ![plan[k]] = Ready(b[plan[k]])]
        /\ next' = plan[k]
  BY <1>2
<1> DEFINE i == plan[k]
           x == Ready(b[i])
<1>4. /\ plan \in Seq(Nat) /\ step \in Seq(Step) /\ Ordered(plan, step)
      /\ b \in Seq(Step) /\ DOMAIN b = DOMAIN step /\ Ordered(plan, b) /\ Sound(b)
      /\ ~SomeStatus(b, "running")
  BY <1>1, <1>2, AtSchedule
<1>5. StaysStuck(waiting, step, NoWait, b)
  <2>1. \A j \in DOMAIN step :
          /\ b[j].depends_on = step[j].depends_on
          /\ \/ b[j].status = step[j].status
             \/ step[j].status \notin StepTerminal /\ b[j].status \in StepFailed
    BY <1>2, <1>4, BlockCloses
  <2>2. \A j \in DOMAIN step : waiting.step # j => NoWait.step # j
    BY <1>1, QuestionDropped
  <2> HIDE DEF b
  <2> QED BY <1>4, <2>1, <2>2, ClosedStays
<1> HIDE DEF b
<1>6. PassedOver(NoWait, plan, b)
  BY <1>4, <1>5, PassedStays DEF InOrder
<1>7. i \in DOMAIN b /\ Dispatchable(b, i)
  BY <1>3, <1>4, FrontOf DEF IsFirstDispatchable
<1>8. ~Stuck(NoWait, b, i)
  BY <1>7 DEF Stuck, Dispatchable, StepTerminal, StepFailed
<1>9. x.status = "ready"
  BY <1>4, <1>7, StatusOf, ReadyStep
<1>10. FrontStuck(NoWait, plan, b, k)
  <2> SUFFICES ASSUME NEW j \in 1..(k - 1), ~Succeeded(b, plan[j])
               PROVE  Stuck(NoWait, b, plan[j])
    BY DEF FrontStuck
  <2>1. plan[j] \in DOMAIN b /\ plan[j] # 0
    BY <1>4, FrontOf, LenProperties
  <2>2. b[plan[j]].status \in StepStatus /\ b[plan[j]].status # "running"
    BY <1>4, <2>1, StatusOf DEF SomeStatus
  <2>3. ~Dispatchable(b, plan[j])
    BY <1>3 DEF IsFirstDispatchable
  <2>4. b[plan[j]].status = "waiting_dependency" => b[plan[j]].depends_on # {}
    BY <1>4, <2>1 DEF Sound
  <2>5. NoWait.step # plan[j]
    BY <2>1 DEF NoWait
  <2> QED BY <2>2, <2>3, <2>4, <2>5 DEF Stuck, Dispatchable, StepStatus
<1> HIDE DEF i, x
<1>11. step' = [b EXCEPT ![i] = x] /\ next' = i
  BY <1>3 DEF i, x
<1>12. ~Succeeded(step', i) /\ \A j \in DOMAIN b : j # i => step'[j] = b[j]
  BY <1>7, <1>9, <1>11 DEF Succeeded
<1>13. StaysStuck(NoWait, b, NoWait, step')
  BY <1>4, <1>7, <1>8, <1>12, FreeStays
<1>14. PassedOver(NoWait, plan, step') /\ FrontStuck(NoWait, plan, step', k)
  BY <1>4, <1>6, <1>10, <1>13, PassedStays
<1>15. \A l \in DOMAIN plan : plan[l] = next' => l = k
  <2>1. DOMAIN plan = 1..Len(step) /\ Permutes(plan, Len(step))
    BY <1>4, LenProperties DEF Ordered
  <2> QED BY <1>3, <2>1 DEF Permutes
<1>16. NoneSucceeds
  BY <1>4, <1>5, <1>13 DEF NoneSucceeds, StaysStuck
<1> QED BY <1>1, <1>14, <1>15, <1>16
        DEF InOrder, PassedOver, FrontStuck, Stuck, AllSucceeded, Succeeded

-----------------------------------------------------------------------------
(* The order through an insertion *)

\* Todos inserted in front of a step that is not stuck come after all that succeeded.
LEMMA InsertPassed ==
  ASSUME NEW p \in Seq(Nat), NEW s \in Seq(Step), Ordered(p, s), NEW w, PassedOver(w, p, s),
         NEW at \in 1..Len(s), ~Stuck(w, s, p[at]), NEW m \in Nat, NEW q \in Seq(Nat),
         Inserted(p, q, Len(s), m, at), NEW t \in Seq(Step), Ordered(q, t), Len(t) = Len(s) + m,
         \A i \in DOMAIN s : t[i].status = s[i].status /\ t[i].depends_on = s[i].depends_on,
         \A j \in 1..m : t[Len(s) + j].status # "succeeded"
  PROVE  PassedOver(w, q, t)
<1> DEFINE n == Len(s)
<1>1. n \in Nat /\ DOMAIN s = 1..n /\ DOMAIN p = 1..n /\ DOMAIN q = 1..(n + m)
  BY LenProperties DEF Ordered
<1>2. Permutes(p, n) /\ Inserted(p, q, n, m, at)
  BY DEF Ordered
<1>3. \A j \in 1..m : ~Succeeded(t, n + j)
  BY DEF Succeeded
<1> HIDE DEF n
<1>4. \A i \in 1..n : Succeeded(t, p[i]) <=> Succeeded(s, p[i])
  BY <1>1, <1>2 DEF Succeeded, Permutes
<1>5. ASSUME NEW i \in at..n PROVE ~Succeeded(t, q[i + m])
  <2>1. i \in 1..n /\ q[i + m] = p[i]
    BY <1>1, <1>2, <1>5 DEF Inserted, n
  <2>2. CASE i = at
    BY <1>4, <2>1, <2>2 DEF Stuck, Succeeded, StepTerminal
  <2>3. CASE i # at
    <3>1. at \in 1..(i - 1)
      <4>1. n \in Nat /\ at \in 1..n /\ i \in at..n
        BY <1>1, <1>5 DEF n
      <4> QED BY <2>3, <4>1
    <3>2. ~Succeeded(s, p[at])
      BY DEF Stuck, Succeeded, StepTerminal
    <3>3. ~FrontStuck(w, p, s, i)
      BY <3>1, <3>2 DEF FrontStuck
    <3> QED BY <1>1, <1>4, <2>1, <3>3 DEF PassedOver
  <2> QED BY <2>2, <2>3
<1>6. ASSUME NEW k \in DOMAIN q, Succeeded(t, q[k]) PROVE k \in 1..(at - 1)
  <2>1. at \in 1..n
    BY DEF n
  <2>2. ASSUME NEW j \in 1..m, k = at + j - 1 PROVE FALSE
    BY <1>2, <1>3, <1>6, <2>2 DEF Inserted
  <2>3. ASSUME NEW i \in at..n, k = i + m PROVE FALSE
    BY <1>5, <1>6, <2>3
  <2>4. \/ k \in 1..(at - 1)
        \/ \E j \in 1..m : k = at + j - 1
        \/ \E i \in at..n : k = i + m
    <3>1. n \in Nat /\ m \in Nat /\ at \in 1..n /\ k \in 1..(n + m)
      BY <1>1, <2>1
    <3> QED BY <3>1, InsertPlaces
  <2> QED BY <2>2, <2>3, <2>4
<1>7. ASSUME NEW k \in 1..(at - 1), FrontStuck(w, p, s, k) PROVE FrontStuck(w, q, t, k)
  <2> SUFFICES ASSUME NEW j \in 1..(k - 1), ~Succeeded(t, q[j]) PROVE Stuck(w, t, q[j])
    BY DEF FrontStuck
  <2>1. j \in 1..(at - 1) /\ j \in 1..n /\ k \in 1..n
    BY <1>1 DEF n
  <2>2. q[j] = p[j] /\ p[j] \in DOMAIN s
    BY <1>1, <1>2, <2>1 DEF Inserted, Permutes
  <2>3. Stuck(w, s, p[j])
    BY <1>4, <1>7, <2>1, <2>2 DEF FrontStuck
  <2>4. s[p[j]].depends_on \subseteq DOMAIN s
    BY <2>2, DepsKnown
  <2> QED BY <2>2, <2>3, <2>4 DEF Stuck, AllSucceeded, Succeeded
<1> SUFFICES ASSUME NEW k \in DOMAIN q, Succeeded(t, q[k]) PROVE FrontStuck(w, q, t, k)
  BY DEF PassedOver
<1>8. k \in 1..(at - 1) /\ k \in 1..n /\ q[k] = p[k]
  BY <1>1, <1>2, <1>6 DEF Inserted, n
<1> QED BY <1>1, <1>4, <1>7, <1>8 DEF PassedOver

\* Inserting leaves the steps as they are, but for the memory of the one at work;
\* the todos are its own, the first one inherits, and the last ones are awaited.
LEMMA InsertedSteps ==
  ASSUME IInv, ExpandOne
  PROVE  \E m \in Nat \ {0} :
           LET n == Len(work.step)
               t == work'.step
           IN
           /\ Inserted(work.plan, work'.plan, n, m, work.at)
           /\ Len(t) = n + m
           /\ \A i \in DOMAIN work.step :
                /\ t[i].status = work.step[i].status
                /\ t[i].depends_on = work.step[i].depends_on
                /\ t[i].owner = work.step[i].owner
                /\ t[i].error = work.step[i].error
           /\ \A j \in 1..m :
                t[n + j].status = "pending" /\ t[n + j].owner = next /\ t[n + j].error = "none"
           /\ t[n + 1].depends_on = work.inherited
           /\ work'.inherited = TerminalSteps(t, (n + 1)..(n + m))
           /\ work'.at = work.at + m
<1> DEFINE key == Head(work.reqs)
           s   == work.step
           p   == work.plan
           at  == work.at
           n   == Len(s)
           inh == work.inherited
<1>1. node = "expand" /\ work.reqs # <<>>
  BY DEF ExpandOne
<1>2. PICK d \in ReqDrafts :
        /\ Delegable(d, Providers(key, s[next].worker))
        /\ work' =
             [plan      |-> Splice(p, at, [j \in 1..Len(d) |-> n + j]),
              step      |-> [AddSteps(s, d, next, key, s[next].depth + 1, inh)
                               EXCEPT ![next] = Remember(@, key)],
              at        |-> at + Len(d),
              inherited |-> TerminalSteps(AddSteps(s, d, next, key, s[next].depth + 1, inh),
                                          (n + 1)..(n + Len(d))),
              reqs      |-> Tail(work.reqs)]
  BY DEF ExpandOne
<1> DEFINE m == Len(d)
           ids == [j \in 1..m |-> n + j]
           a == AddSteps(s, d, next, key, s[next].depth + 1, inh)
           r == Remember(a[next], key)
<1>3. /\ s \in Seq(Step) /\ n \in Nat /\ DOMAIN s = 1..n /\ at \in 1..n
      /\ next \in 1..n /\ s[next] \in Step /\ key \in Keys
  BY <1>1, AtExpansion, HeadTailProperties
<1>4. m \in Nat \ {0} /\ d[1].depends_on = {}
  <2>1. d \in Seq(Todo(STRING)) /\ Valid(d, "requirement")
    BY <1>2, DraftsAssumption DEF Delegable
  <2>2. m \in Nat /\ DOMAIN d = 1..m /\ d # <<>>
    BY <2>1, LenProperties DEF Valid
  <2>3. m # 0
    BY <2>1, <2>2, EmptySeq
  <2>4. 1 \in DOMAIN d
    BY <2>2, <2>3
  <2> QED BY <2>1, <2>2, <2>3, <2>4 DEF Valid
<1>5. /\ DOMAIN a = 1..(n + m)
      /\ \A i \in 1..n : a[i] = s[i]
      /\ \A j \in 1..m :
           a[n + j].status = "pending" /\ a[n + j].owner = next /\ a[n + j].error = "none"
      /\ a[n + 1].depends_on = inh
  <2> HIDE DEF key, s, n, m, inh
  <2>1. a = [i \in 1..(n + m) |->
               IF i <= n THEN s[i]
               ELSE MakeStep(d, i - n, n, next, key, s[next].depth + 1, inh)]
    BY DEF AddSteps, n, m
  <2> HIDE DEF a
  <2>2. \A i \in 1..n : i \in 1..(n + m) /\ i <= n
    BY <1>3, <1>4
  <2>3. \A j \in 1..m : n + j \in 1..(n + m) /\ ~(n + j <= n)
    BY <1>3, <1>4
  <2>4. a[n + 1] = MakeStep(d, 1, n, next, key, s[next].depth + 1, inh)
    <3>1. n + 1 \in 1..(n + m) /\ ~(n + 1 <= n) /\ (n + 1) - n = 1
      BY <1>3, <1>4
    <3> QED BY <2>1, <3>1
  <2>5. a[n + 1].depends_on = inh
    BY <1>4, <2>4 DEF MakeStep
  <2> QED BY <2>1, <2>2, <2>3, <2>5 DEF MakeStep
<1>6. Len(ids) = m /\ \A j \in 1..m : ids[j] = n + j
  BY <1>3, <1>4, FcnSeq
<1>7. /\ work'.step = [a EXCEPT ![next] = r] /\ work'.plan = Splice(p, at, ids)
      /\ work'.at = at + m /\ work'.inherited = TerminalSteps(a, (n + 1)..(n + m))
  BY <1>2
<1> HIDE DEF a, ids, key
<1>8. /\ r.status = s[next].status /\ r.depends_on = s[next].depends_on
      /\ r.owner = s[next].owner /\ r.error = s[next].error
  BY <1>3, <1>5 DEF Remember, Step
<1> HIDE DEF s, p, at, n, m, r, inh
<1>9. /\ DOMAIN work'.step = 1..(n + m)
      /\ work'.step[next] = r /\ \A i \in 1..(n + m) : i # next => work'.step[i] = a[i]
  BY <1>3, <1>4, <1>5, <1>7
<1>10. ASSUME NEW i \in 1..n
       PROVE  /\ work'.step[i].status = s[i].status
              /\ work'.step[i].depends_on = s[i].depends_on
              /\ work'.step[i].owner = s[i].owner
              /\ work'.step[i].error = s[i].error
  <2>1. i \in 1..(n + m) /\ a[i] = s[i]
    BY <1>3, <1>4, <1>5
  <2> QED BY <1>8, <1>9, <2>1
<1>11. \A i \in (n + 1)..(n + m) : work'.step[i] = a[i]
  <2>1. \A i \in (n + 1)..(n + m) : i \in 1..(n + m) /\ i # next
    BY <1>3, <1>4
  <2> QED BY <1>9, <2>1
<1>12. /\ \A j \in 1..m : /\ work'.step[n + j].status = "pending"
                          /\ work'.step[n + j].owner = next
                          /\ work'.step[n + j].error = "none"
       /\ work'.step[n + 1].depends_on = inh
  <2>1. n + 1 \in (n + 1)..(n + m) /\ \A j \in 1..m : n + j \in (n + 1)..(n + m)
    BY <1>3, <1>4
  <2> QED BY <1>5, <1>11, <2>1
<1>13. work'.inherited = TerminalSteps(work'.step, (n + 1)..(n + m))
  BY <1>7, <1>11 DEF TerminalSteps
<1>14. Inserted(p, work'.plan, n, m, at)
  <2> DEFINE q == [k \in 1..(Len(p) + m) |-> IF k < at THEN p[k]
                                    ELSE IF k < at + m THEN ids[k - at + 1]
                                    ELSE p[k - m]]
  <2>1. Len(p) = n
    BY <1>1, AtExpansion DEF Ordered, p, n, s
  <2>2. work'.plan = q
    BY <1>6, <1>7 DEF Splice
  <2>3. \A k \in 1..(at - 1) : q[k] = p[k]
    BY <1>3, <1>4, <2>1
  <2>4. \A j \in 1..m : q[at + j - 1] = n + j
    <3> SUFFICES ASSUME NEW j \in 1..m PROVE q[at + j - 1] = n + j
      OBVIOUS
    <3>1. at + j - 1 \in 1..(n + m) /\ ~(at + j - 1 < at) /\ at + j - 1 < at + m
          /\ (at + j - 1) - at + 1 = j
      BY <1>3, <1>4
    <3> QED BY <1>6, <2>1, <3>1
  <2>5. \A k \in at..n : q[k + m] = p[k]
    <3> SUFFICES ASSUME NEW k \in at..n PROVE q[k + m] = p[k]
      OBVIOUS
    <3>1. k + m \in 1..(n + m) /\ ~(k + m < at) /\ ~(k + m < at + m) /\ (k + m) - m = k
      BY <1>3, <1>4
    <3> QED BY <2>1, <3>1
  <2> QED BY <2>2, <2>3, <2>4, <2>5 DEF Inserted
<1>15. Len(work'.step) = n + m
  <2>1. work'.step \in Seq(Step)
    BY ExpandOneInv DEF IInv, TypeOK
  <2>2. Len(work'.step) \in Nat /\ DOMAIN work'.step = 1..Len(work'.step)
    BY <2>1, LenProperties
  <2>3. n + m \in Nat
    BY <1>3, <1>4
  <2> QED BY <1>9, <2>2, <2>3
<1> QED BY <1>3, <1>4, <1>7, <1>10, <1>12, <1>13, <1>14, <1>15 DEF s, p, at, n, inh

\* The step at work is not stuck in the run that is grown in memory either.
LEMMA AtWorkFree ==
  ASSUME IInv, node = "expand"
  PROVE  /\ work.plan \in Seq(Nat) /\ work.step \in Seq(Step)
         /\ Ordered(work.plan, work.step)
         /\ next \in DOMAIN work.step /\ work.step[next] \in Step
         /\ ~Stuck(waiting, work.step, next)
<1>1. /\ work.plan \in Seq(Nat) /\ work.step \in Seq(Step)
      /\ Ordered(work.plan, work.step)
      /\ next \in DOMAIN work.step /\ work.step[next] \in Step
      /\ work.step[next].status = "running" /\ Sound(work.step)
  BY AtExpansion
<1>2. AllSucceeded(work.step, work.step[next].depends_on)
  BY <1>1 DEF Sound
<1> QED BY <1>1, <1>2 DEF Stuck, StepTerminal, StepFailed

LEMMA ExpandOneInOrder ==
  ASSUME IInv, InOrder, ExpandOne
  PROVE  InOrder' /\ NoneSucceeds
<1>1. /\ node = "expand" /\ node' = "expand"
      /\ plan' = plan /\ step' = step /\ waiting' = waiting
  BY DEF ExpandOne, run
<1> DEFINE p == work.plan
           s == work.step
           n == Len(s)
           at == work.at
           q == work'.plan
           t == work'.step
<1>2. /\ p \in Seq(Nat) /\ s \in Seq(Step) /\ Ordered(p, s) /\ at \in 1..Len(s)
      /\ ~Stuck(waiting, s, p[at]) /\ PassedOver(waiting, p, s)
  BY <1>1, AtWorkFree, AtExpansion DEF InOrder
<1>3. q \in Seq(Nat) /\ t \in Seq(Step) /\ Ordered(q, t)
  BY <1>1, ExpandOneInv DEF IInv, TypeOK, Expanding, Ordered, Permutes, Precede, Among
<1>4. PICK m \in Nat \ {0} :
        /\ Inserted(p, q, n, m, at) /\ Len(t) = n + m
        /\ \A i \in DOMAIN s : t[i].status = s[i].status /\ t[i].depends_on = s[i].depends_on
        /\ \A j \in 1..m : t[n + j].status = "pending"
  BY InsertedSteps
<1>5. \A j \in 1..m : t[n + j].status # "succeeded"
  BY <1>4
<1> HIDE DEF p, s, at, q, t
<1>6. PassedOver(waiting, q, t)
  BY <1>2, <1>3, <1>4, <1>5, InsertPassed
<1>7. InOrder'
  BY <1>1, <1>6 DEF InOrder, PassedOver, FrontStuck, Stuck, AllSucceeded, Succeeded, q, t
<1> QED BY <1>1, <1>7 DEF NoneSucceeds

LEMMA ExpandedInOrder ==
  ASSUME IInv, InOrder, ExpandFails \/ ExpandDone
  PROVE  InOrder' /\ NoneSucceeds
<1> DEFINE p == work.plan
           s == work.step
<1>1. node = "expand" /\ plan' = p /\ waiting' = waiting /\ node' = "schedule"
  BY DEF ExpandFails, ExpandDone, FailRequirement
<1>2. /\ p \in Seq(Nat) /\ s \in Seq(Step) /\ Ordered(p, s) /\ next \in DOMAIN s
      /\ s[next] \in Step /\ ~Stuck(waiting, s, next) /\ PassedOver(waiting, p, s)
      /\ Grown(step, s) /\ work.inherited \in SUBSET Nat
  BY <1>1, AtWorkFree, AtExpansion DEF InOrder
<1>3. PICK x : step' = [s EXCEPT ![next] = x] /\ x.status # "succeeded"
  <2>1. CASE ExpandFails
    <3>1. step' = [s EXCEPT ![next] = Mark(s[next], "failed", "REQUIREMENT_PLANNING_FAILED")]
      BY <2>1 DEF ExpandFails, FailRequirement
    <3>2. Mark(s[next], "failed", "REQUIREMENT_PLANNING_FAILED").status = "failed"
      BY DEF Mark
    <3> QED BY <3>1, <3>2
  <2>2. CASE ExpandDone
    <3>1. step' = [s EXCEPT ![next] = AwaitTodos(s[next], work.inherited)]
      BY <2>2 DEF ExpandDone
    <3>2. AwaitTodos(s[next], work.inherited).status = "waiting_dependency"
      BY <1>2, AwaitTodosStep
    <3> QED BY <3>1, <3>2
  <2> QED BY <2>1, <2>2
<1> HIDE DEF p, s
<1>4. ~Succeeded(step', next) /\ \A j \in DOMAIN s : j # next => step'[j] = s[j]
  BY <1>2, <1>3 DEF Succeeded
<1>5. StaysStuck(waiting, s, waiting, step')
  BY <1>2, <1>4, FreeStays
<1>6. PassedOver(waiting, p, step')
  BY <1>2, <1>5, PassedStays
<1>7. InOrder'
  BY <1>1, <1>6 DEF InOrder, PassedOver, FrontStuck, Stuck, AllSucceeded, Succeeded
<1>8. \A i \in DOMAIN step : i \in DOMAIN s /\ (Succeeded(step, i) <=> Succeeded(s, i))
  <2>1. step \in Seq(Step) /\ Len(step) <= Len(s)
    BY <1>2 DEF IInv, TypeOK, Grown
  <2>2. DOMAIN step \subseteq DOMAIN s
    BY <1>2, <2>1, LenProperties
  <2> QED BY <1>2, <2>2 DEF Grown, Succeeded
<1> QED BY <1>5, <1>7, <1>8 DEF StaysStuck, NoneSucceeds

LEMMA InOrderInit == Init => InOrder
BY DEF Init, InOrder, PassedOver

LEMMA InOrderNext ==
  ASSUME IInv, InOrder, [Next]_vars
  PROVE  /\ InOrder'
         /\ \/ NoneSucceeds
            \/ /\ \A i \in DOMAIN step : Succeeded(step', i) => Succeeded(step, i) \/ i = next
               /\ ~Stuck(waiting, step, next)
<1>1. CASE UNCHANGED vars
  BY <1>1 DEF vars, run, InOrder, PassedOver, FrontStuck, Stuck, AllSucceeded, Succeeded,
              NoneSucceeds
<1>2. CASE ValidateNode
  <2>1. \A i \in DOMAIN step' : ~Succeeded(step', i)
    BY <1>2, PlannedSteps DEF Succeeded
  <2>2. DOMAIN step = {} /\ node' = "schedule"
    BY <1>2, PlannedSteps DEF ValidateNode
  <2>3. plan' \in Seq(Nat) /\ step' \in Seq(Step) /\ Ordered(plan', step')
    BY <1>2, ValidateNodeInv DEF IInv, TypeOK, DepsPrecede, Ordered, Permutes, Precede, Among
  <2>4. PassedOver(waiting', plan', step')
    BY <2>1, <2>3, FrontOf DEF PassedOver
  <2> QED BY <2>2, <2>4
          DEF InOrder, NoneSucceeds, PassedOver, FrontStuck, Stuck, AllSucceeded, Succeeded
<1>3. CASE WorkerRequires
  <2>1. /\ UNCHANGED run /\ work'.plan = plan /\ work'.step = step /\ node' = "expand"
    BY <1>3 DEF WorkerRequires
  <2> QED BY <2>1 DEF run, InOrder, NoneSucceeds, PassedOver, FrontStuck, Stuck, AllSucceeded,
                      Succeeded
<1>4. CASE WorkerSucceeds
  <2>1. ~Stuck(waiting, step, next)
    BY <1>4, AtWork DEF WorkerSucceeds, Stuck
  <2> QED BY <1>4, <2>1, SuccessInOrder
<1> QED BY <1>1, <1>2, <1>3, <1>4, RestInOrder, EndInOrder, StartInOrder, AnswerInOrder,
           ResumeInOrder, DispatchInOrder, ExpandOneInOrder, ExpandedInOrder
        DEF Next, Graph, Schedule, Worker, Expand

\* Steps succeed in the order of the plan, through questions, insertions and
\* blocked branches: what the executor's replay of earlier results counts on.
THEOREM OrderOfSuccess == Spec => SucceedsInPlanOrder
<1>1. IInv /\ InOrder /\ [Next]_vars => InOrder'
  BY InOrderNext
<1>2. Spec => []InOrder
  BY <1>1, InOrderInit, Invariance, PTL DEF Spec
<1>3. IInv /\ InOrder /\ [Next]_vars =>
        \A j, k \in DOMAIN plan :
          j < k /\ ~Succeeded(step, plan[j]) /\ Succeeded(step', plan[j])
            => ~Succeeded(step, plan[k])
  <2> SUFFICES ASSUME IInv, InOrder, [Next]_vars, NEW j \in DOMAIN plan, NEW k \in DOMAIN plan,
                      j < k, ~Succeeded(step, plan[j]), Succeeded(step', plan[j])
               PROVE  ~Succeeded(step, plan[k])
    OBVIOUS
  <2>1. /\ plan \in Seq(Nat) /\ step \in Seq(Step) /\ Ordered(plan, step)
    BY DEF IInv, TypeOK, DepsPrecede
  <2>2. plan[j] \in DOMAIN step /\ j \in 1..(k - 1)
    BY <2>1, FrontOf, LenProperties
  <2>3. plan[j] = next /\ ~Stuck(waiting, step, plan[j])
    BY <2>2, InOrderNext DEF NoneSucceeds
  <2>4. ~FrontStuck(waiting, plan, step, k)
    BY <2>2, <2>3 DEF FrontStuck
  <2> QED BY <2>4 DEF InOrder, PassedOver
<1>4. Spec => [][\A j, k \in DOMAIN plan :
                   j < k /\ ~Succeeded(step, plan[j]) /\ Succeeded(step', plan[j])
                     => ~Succeeded(step, plan[k])]_vars
  BY <1>2, <1>3, Invariance, PTL DEF Spec
<1> QED BY <1>4 DEF SucceedsInPlanOrder

-----------------------------------------------------------------------------
(* The todos generated for a step *)

\* Every step keeps its owner and dependencies, and one that is given up has failed.
Alike(s, t) ==
  /\ DOMAIN t = DOMAIN s
  /\ \A i \in DOMAIN s :
       /\ t[i].owner = s[i].owner /\ t[i].depends_on = s[i].depends_on
       /\ GivenUp(s, i) => GivenUp(t, i)
       /\ GivenUp(t, i) => t[i].status = "failed"

LEMMA AlikeFamily ==
  ASSUME IInv, Family, plan' = plan, Alike(step, step'), node' # "expand"
  PROVE  Family'
<1>1. plan \in Seq(Nat) /\ step \in Seq(Step) /\ Ordered(plan, step)
  BY DEF IInv, TypeOK, DepsPrecede
<1>2. \A k \in DOMAIN plan : plan[k] \in DOMAIN step
  BY <1>1, FrontOf
<1>3. GivenUpIsFailed(step')
  BY DEF Alike, GivenUpIsFailed
<1>4. OwnerBehind(plan, step') /\ Nested(plan, step')
  BY <1>2 DEF Alike, Family, OwnerBehind, Nested
<1>5. Served(plan, step')
  BY <1>2 DEF Alike, Family, Served
<1> QED BY <1>3, <1>4, <1>5
        DEF Family, GivenUpIsFailed, OwnerBehind, Nested, Served, GivenUp

\* What the actions do to a step that stays in its place.
Touched(r, x) ==
  /\ x.owner = r.owner /\ x.depends_on = r.depends_on
  /\ x.error = r.error \/ x.error # "REQUIREMENT_PLANNING_FAILED" \/ x.status = "failed"

LEMMA TouchedFamily ==
  ASSUME IInv, Family, [Next]_vars, plan' = plan, DOMAIN step' = DOMAIN step, node' # "expand",
         \A i \in DOMAIN step : Touched(step[i], step'[i])
  PROVE  Family'
<1>1. ASSUME NEW i \in DOMAIN step, GivenUp(step, i)
      PROVE  step'[i] = step[i] /\ step[i].status = "failed"
  <2>1. step[i].status = "failed"
    BY <1>1 DEF Family, GivenUpIsFailed
  <2> QED BY <2>1, CarriesNext DEF Carries, StepTerminal, StepFailed
<1>2. \A i \in DOMAIN step : GivenUp(step', i) => step'[i].status = "failed"
  BY <1>1 DEF Touched, GivenUp
<1>3. Alike(step, step')
  BY <1>1, <1>2 DEF Alike, Touched, GivenUp
<1> QED BY <1>3, AlikeFamily

LEMMA RecordsTouched ==
  ASSUME NEW s \in Step
  PROVE  /\ \A st, e : e # "REQUIREMENT_PLANNING_FAILED" \/ st = "failed"
                         => Touched(s, Mark(s, st, e))
         /\ \A st : Touched(s, WithStatus(s, st))
         /\ Touched(s, Begin(s)) /\ Touched(s, Ready(s)) /\ Touched(s, s)
<1>1. ASSUME NEW st, NEW e
      PROVE  /\ Mark(s, st, e).owner = s.owner /\ Mark(s, st, e).depends_on = s.depends_on
             /\ Mark(s, st, e).error = e /\ Mark(s, st, e).status = st
  BY DEF Mark, Step
<1>2. ASSUME NEW st PROVE Touched(s, WithStatus(s, st))
  BY DEF WithStatus, Step, Touched
<1>3. Touched(s, Begin(s))
  BY DEF Begin, Step, Touched
<1>4. Touched(s, Ready(s)) /\ Touched(s, s)
  BY <1>1 DEF Ready, Touched
<1> QED BY <1>1, <1>2, <1>3, <1>4 DEF Touched

\* Everything but planning and inserting touches steps in their places.
LEMMA TouchedOne ==
  ASSUME NEW s \in Seq(Step), NEW i \in DOMAIN s, NEW x, NEW t, t = [s EXCEPT ![i] = x],
         Touched(s[i], x)
  PROVE  DOMAIN t = DOMAIN s /\ \A j \in DOMAIN s : Touched(s[j], t[j])
<1>1. \A j \in DOMAIN s : Touched(s[j], s[j])
  BY StatusOf, RecordsTouched
<1> QED BY <1>1

LEMMA ScheduleFamily ==
  ASSUME IInv, Family, Schedule
  PROVE  Family'
<1>1. plan' = plan /\ node' # "expand" /\ step \in Seq(Step) /\ [Next]_vars
  BY DEF Schedule, ScheduleExecute, ScheduleWait, ScheduleFinalize, IInv, TypeOK, Next, Graph
<1>2. PICK B \in SUBSET DOMAIN plan :
        LET b == Block(plan, step, B) IN
        \/ step' = b
        \/ \E k \in DOMAIN plan : /\ IsFirstDispatchable(plan, b, k)
                                  /\ step' = [b EXCEPT ![plan[k]] = Ready(@)]
  BY DEF Schedule, ScheduleExecute, ScheduleWait, ScheduleFinalize
<1> DEFINE b == Block(plan, step, B)
<1>3. b \in Seq(Step) /\ DOMAIN b = DOMAIN step
  BY <1>1, BlockKeeps
<1>4. \A i \in DOMAIN step : Touched(step[i], b[i])
  <2> SUFFICES ASSUME NEW i \in DOMAIN step PROVE Touched(step[i], b[i])
    OBVIOUS
  <2>1. b[i] = step[i] \/ b[i] = Mark(step[i], "blocked", "DEPENDENCY_FAILED")
    BY DEF Block
  <2>2. step[i] \in Step
    BY <1>1, StatusOf
  <2>3. Touched(step[i], step[i]) /\ Touched(step[i], Mark(step[i], "blocked", "DEPENDENCY_FAILED"))
    BY <2>2, RecordsTouched
  <2> QED BY <2>1, <2>3
<1>5. CASE step' = b
  BY <1>1, <1>3, <1>4, <1>5, TouchedFamily
<1>6. ASSUME NEW k \in DOMAIN plan, IsFirstDispatchable(plan, b, k),
             step' = [b EXCEPT ![plan[k]] = Ready(b[plan[k]])]
      PROVE  Family'
  <2> DEFINE i == plan[k]
  <2>1. i \in DOMAIN step
    BY <1>1, <1>3, FrontOf DEF IInv, TypeOK, DepsPrecede
  <2>2. b[i] = step[i]
    <3>1. b[i] = step[i] \/ b[i] = Mark(step[i], "blocked", "DEPENDENCY_FAILED")
      BY <2>1 DEF Block
    <3>2. Mark(step[i], "blocked", "DEPENDENCY_FAILED").status = "blocked"
      <4>1. step[i] \in Step
        BY <1>1, <2>1, StatusOf
      <4> QED BY <4>1 DEF Mark, Step
    <3>3. b[i].status # "blocked"
      BY <1>6 DEF IsFirstDispatchable, Dispatchable
    <3> QED BY <3>1, <3>2, <3>3
  <2>3. Touched(step[i], Ready(b[i]))
    BY <1>1, <2>1, <2>2, StatusOf, RecordsTouched
  <2> HIDE DEF b, i
  <2>4. step' = [b EXCEPT ![i] = Ready(b[i])]
    BY <1>6 DEF i
  <2>5. DOMAIN step' = DOMAIN step /\ \A j \in DOMAIN step : Touched(step[j], step'[j])
    BY <1>3, <1>4, <2>1, <2>3, <2>4
  <2> QED BY <1>1, <2>5, TouchedFamily
<1> QED BY <1>2, <1>5, <1>6

LEMMA WorkerFamily ==
  ASSUME IInv, Family,
         WorkerSucceeds \/ WorkerFails \/ WorkerAsksUser \/ WorkerRequiresInVain \/ ExecuteNode
  PROVE  Family'
<1>1. plan' = plan /\ node' # "expand" /\ [Next]_vars
  BY DEF WorkerSucceeds, WorkerFails, WorkerAsksUser, WorkerRequiresInVain, ExecuteNode,
         SaveResult, FailRequirement, Next, Graph, Worker
<1>2. next \in DOMAIN step /\ step[next] \in Step /\ step \in Seq(Step)
  <2>1. node \in {"execute", "worker"}
    BY DEF WorkerSucceeds, WorkerFails, WorkerAsksUser, WorkerRequiresInVain, ExecuteNode
  <2> QED BY <2>1, StatusOf DEF IInv, OneRuns, TypeOK
<1> DEFINE r == step[next]
<1>3. \E x : step' = [step EXCEPT ![next] = x] /\ Touched(r, x)
  <2>1. CASE WorkerSucceeds
    <3>1. step' = [step EXCEPT ![next] = WithStatus(r, "succeeded")]
      BY <2>1 DEF WorkerSucceeds, SaveResult
    <3> QED BY <1>2, <3>1, RecordsTouched
  <2>2. CASE WorkerFails
    <3>1. PICK code \in WorkerErrors : step' = [step EXCEPT ![next] = Mark(r, "failed", code)]
      BY <2>2 DEF WorkerFails, SaveResult
    <3> QED BY <1>2, <3>1, RecordsTouched
  <2>3. CASE WorkerAsksUser
    <3>1. step' = [step EXCEPT ![next] = WithStatus(r, "waiting_user")]
      BY <2>3 DEF WorkerAsksUser, SaveResult
    <3> QED BY <1>2, <3>1, RecordsTouched
  <2>4. CASE WorkerRequiresInVain
    <3>1. step' = [step EXCEPT ![next] = Mark(r, "failed", "REQUIREMENT_PLANNING_FAILED")]
      BY <2>4 DEF WorkerRequiresInVain, FailRequirement
    <3> QED BY <1>2, <3>1, RecordsTouched
  <2>5. CASE ExecuteNode
    <3>1. step' = [step EXCEPT ![next] = Begin(r)]
      BY <2>5 DEF ExecuteNode
    <3> QED BY <1>2, <3>1, RecordsTouched
  <2> QED BY <2>1, <2>2, <2>3, <2>4, <2>5
<1>4. DOMAIN step' = DOMAIN step /\ \A j \in DOMAIN step : Touched(step[j], step'[j])
  BY <1>2, <1>3, TouchedOne
<1> QED BY <1>1, <1>4, TouchedFamily

LEMMA UserFamily ==
  ASSUME IInv, Family, Resume \/ FailRun \/ CancelRun
  PROVE  Family'
<1>1. plan' = plan /\ node' # "expand" /\ step \in Seq(Step) /\ [Next]_vars
  BY DEF Resume, FailRun, CancelRun, IInv, TypeOK, Next, Graph
<1>2. DOMAIN step' = DOMAIN step
  BY DEF Resume, FailRun, CancelRun
<1>3. ASSUME NEW i \in DOMAIN step PROVE Touched(step[i], step'[i])
  <2> DEFINE r == step[i]
  <2>1. \/ step'[i] = r \/ step'[i] = Mark(r, "pending", "none")
        \/ step'[i] = Mark(r, "failed", "WORKFLOW_ERROR")
        \/ step'[i] = WithStatus(r, "cancelled")
    BY DEF Resume, FailRun, CancelRun
  <2>2. r \in Step
    BY <1>1, StatusOf
  <2> HIDE DEF r
  <2>3. /\ Touched(r, r) /\ Touched(r, Mark(r, "pending", "none"))
        /\ Touched(r, Mark(r, "failed", "WORKFLOW_ERROR"))
        /\ Touched(r, WithStatus(r, "cancelled"))
    BY <2>2, RecordsTouched
  <2>4. Touched(r, step'[i])
    BY <2>1, <2>3 DEF r
  <2> QED BY <2>4 DEF r
<1> QED BY <1>1, <1>2, <1>3, TouchedFamily

LEMMA QuietFamily ==
  ASSUME IInv, Family, PlanNode \/ NodeRaises \/ FinalizeNode \/ GraphEnds \/ Disconnect \/ Over
  PROVE  Family'
<1>1. step' = step /\ plan' = plan /\ node' # "expand"
  BY DEF PlanNode, NodeRaises, FinalizeNode, GraphEnds, Disconnect, Over, run, vars
<1> QED BY <1>1 DEF Family, GivenUpIsFailed, OwnerBehind, Nested, Served, GivenUp

\* The steps of a new plan have no owner.
LEMMA PlannedFamily ==
  ASSUME IInv, ValidateNode
  PROVE  Family'
<1> DEFINE m == Len(draft)
           t == AddSteps(<<>>, draft, NoOwner, NoKey, 0, {})
<1>1. step' = t /\ node' = "schedule"
  BY DEF ValidateNode
<1>2. plan' \in Seq(Nat) /\ step' \in Seq(Step) /\ Ordered(plan', step')
  BY ValidateNodeInv DEF IInv, TypeOK, DepsPrecede, Ordered, Permutes, Precede, Among
<1>3. ASSUME NEW i \in DOMAIN t PROVE t[i].owner = NoOwner /\ t[i].error = "none"
  <2>1. m \in Nat
    <3>1. draft \in Seq(Todo(STRING))
      BY DraftsAssumption DEF ValidateNode, IInv, TypeOK, Valid
    <3> QED BY <3>1, LenProperties
  <2> HIDE DEF m
  <2>2. t = [j \in 1..m |-> MakeStep(draft, j, 0, NoOwner, NoKey, 0, {})]
    <3>1. Len(<<>>) = 0 /\ 0 + m = m
      BY <2>1
    <3>2. \A j \in 1..m : ~(j <= 0) /\ j - 0 = j
      BY <2>1
    <3> QED BY <3>1, <3>2 DEF AddSteps, m
  <2> HIDE DEF t
  <2>3. t[i] = MakeStep(draft, i, 0, NoOwner, NoKey, 0, {})
    BY <1>3, <2>2
  <2> QED BY <2>3 DEF MakeStep
<1>4. \A k \in DOMAIN plan' : plan'[k] \in DOMAIN step' /\ plan'[k] # NoOwner
  BY <1>2, FrontOf, LenProperties DEF NoOwner
<1> HIDE DEF t
<1>5. /\ GivenUpIsFailed(step') /\ OwnerBehind(plan', step')
      /\ Nested(plan', step') /\ Served(plan', step')
  BY <1>1, <1>3, <1>4 DEF GivenUpIsFailed, GivenUp, OwnerBehind, Nested, Served
<1> QED BY <1>1, <1>5
        DEF Family, GivenUpIsFailed, OwnerBehind, Nested, Served, GivenUp

LEMMA RequiresFamily ==
  ASSUME IInv, Family, WorkerRequires
  PROVE  Family'
<1>1. PICK at \in DOMAIN plan :
        /\ plan[at] = next /\ work'.plan = plan /\ work'.step = step /\ work'.at = at
        /\ work'.inherited = step[next].depends_on
  BY DEF WorkerRequires
<1>2. plan' = plan /\ step' = step /\ node' = "expand"
  BY DEF WorkerRequires, run
<1>3. ServedSoon(plan, step, at, step[next].depends_on)
  BY <1>1 DEF Family, Served, ServedSoon
<1> QED BY <1>1, <1>2, <1>3
        DEF Family, GivenUpIsFailed, OwnerBehind, Nested, Served, ServedSoon, GivenUp

\* Where an insertion of m todos moves a place of the list.
Shifted(at, m, z) == IF z < at THEN z ELSE z + m

LEMMA ShiftedPlaces ==
  ASSUME NEW n \in Nat, NEW m \in Nat, NEW at \in 1..n, NEW p, NEW q,
         Inserted(p, q, n, m, at)
  PROVE  /\ \A z \in 1..n : Shifted(at, m, z) \in 1..(n + m) /\ q[Shifted(at, m, z)] = p[z]
         /\ \A k \in 1..(n + m) :
              (\E z \in 1..n : k = Shifted(at, m, z)) \/ \E j \in 1..m : k = at + j - 1
         /\ \A y, z \in 1..n :
              /\ Shifted(at, m, y) < Shifted(at, m, z) <=> y < z
              /\ Shifted(at, m, y) <= Shifted(at, m, z) <=> y <= z
         /\ \A j \in 1..m : /\ at + j - 1 \in 1..(n + m) /\ q[at + j - 1] = n + j
                            /\ \A z \in 1..n : /\ at + j - 1 < Shifted(at, m, z) <=> at <= z
                                               /\ Shifted(at, m, z) < at + j - 1 <=> z < at
         /\ Shifted(at, m, at) = at + m
<1>1. ASSUME NEW z \in 1..n
      PROVE  Shifted(at, m, z) \in 1..(n + m) /\ q[Shifted(at, m, z)] = p[z]
  <2>1. CASE z < at
    <3>1. z \in 1..(at - 1) /\ z \in 1..(n + m)
      BY <2>1
    <3> QED BY <2>1, <3>1 DEF Shifted, Inserted
  <2>2. CASE ~(z < at)
    <3>1. z \in at..n /\ z + m \in 1..(n + m)
      BY <2>2
    <3> QED BY <2>2, <3>1 DEF Shifted, Inserted
  <2> QED BY <2>1, <2>2
<1>2. ASSUME NEW k \in 1..(n + m)
      PROVE  (\E z \in 1..n : k = Shifted(at, m, z)) \/ \E j \in 1..m : k = at + j - 1
  <2>1. CASE k \in 1..(at - 1)
    <3>1. k \in 1..n /\ k < at
      BY <2>1
    <3> QED BY <3>1 DEF Shifted
  <2>2. ASSUME NEW i \in at..n, k = i + m PROVE \E z \in 1..n : k = Shifted(at, m, z)
    <3>1. i \in 1..n /\ ~(i < at)
      BY <2>2
    <3> QED BY <2>2, <3>1 DEF Shifted
  <2> QED BY <2>1, <2>2, InsertPlaces
<1>3. \A y, z \in 1..n :
        /\ Shifted(at, m, y) < Shifted(at, m, z) <=> y < z
        /\ Shifted(at, m, y) <= Shifted(at, m, z) <=> y <= z
  BY DEF Shifted
<1>4. ASSUME NEW j \in 1..m
      PROVE  /\ at + j - 1 \in 1..(n + m) /\ q[at + j - 1] = n + j
             /\ \A z \in 1..n : /\ at + j - 1 < Shifted(at, m, z) <=> at <= z
                                /\ Shifted(at, m, z) < at + j - 1 <=> z < at
  <2>1. at + j - 1 \in 1..(n + m) /\ q[at + j - 1] = n + j
    BY DEF Inserted
  <2>2. \A z \in 1..n : /\ at + j - 1 < Shifted(at, m, z) <=> at <= z
                        /\ Shifted(at, m, z) < at + j - 1 <=> z < at
    BY DEF Shifted
  <2> QED BY <2>1, <2>2
<1>5. Shifted(at, m, at) = at + m
  BY DEF Shifted
<1> QED BY <1>1, <1>2, <1>3, <1>4, <1>5

LEMMA ExpandOneFamily ==
  ASSUME IInv, Family, ExpandOne
  PROVE  Family'
<1> DEFINE p == work.plan
           s == work.step
           n == Len(s)
           at == work.at
           inh == work.inherited
           q == work'.plan
           t == work'.step
           new == work'.inherited
<1>1. /\ node = "expand" /\ node' = "expand" /\ plan' = plan /\ step' = step
  BY DEF ExpandOne, run
<1>2. PICK m \in Nat \ {0} :
        /\ Inserted(p, q, n, m, at)
        /\ Len(t) = n + m
        /\ \A i \in DOMAIN s : /\ t[i].status = s[i].status
                               /\ t[i].depends_on = s[i].depends_on
                               /\ t[i].owner = s[i].owner
                               /\ t[i].error = s[i].error
        /\ \A j \in 1..m :
             t[n + j].status = "pending" /\ t[n + j].owner = next /\ t[n + j].error = "none"
        /\ t[n + 1].depends_on = inh
        /\ new = TerminalSteps(t, (n + 1)..(n + m))
        /\ work'.at = at + m
  BY InsertedSteps
<1>3. /\ n \in Nat /\ DOMAIN s = 1..n /\ DOMAIN p = 1..n /\ at \in 1..n
      /\ p[at] = next /\ next \in 1..n /\ \A z \in 1..n : p[z] \in 1..n
  <2>1. /\ p \in Seq(Nat) /\ Ordered(p, s) /\ n \in Nat /\ DOMAIN s = 1..n
        /\ at \in 1..n /\ p[at] = next
    BY <1>1, AtExpansion
  <2> HIDE DEF p, s, at
  <2>2. Len(p) = n /\ Permutes(p, n)
    BY <2>1 DEF Ordered
  <2>3. DOMAIN p = 1..n
    BY <2>1, <2>2, LenProperties
  <2> QED BY <2>1, <2>2, <2>3 DEF Permutes
<1>3a. \A y, z \in 1..n : p[y] = p[z] => y = z
  BY <1>1, AtExpansion DEF Ordered, Permutes
<1>4. /\ q \in Seq(Nat) /\ t \in Seq(Step) /\ Ordered(q, t)
  BY <1>1, ExpandOneInv DEF IInv, TypeOK, Expanding, Ordered, Permutes, Precede, Among
<1>5. DOMAIN t = 1..(n + m) /\ DOMAIN q = 1..(n + m) /\ n + m \in Nat
  BY <1>2, <1>3, <1>4, LenProperties DEF Ordered
<1>6. /\ GivenUpIsFailed(s) /\ OwnerBehind(p, s) /\ Nested(p, s) /\ ServedSoon(p, s, at, inh)
  BY <1>1 DEF Family
<1> HIDE DEF p, s, n, at, inh, q, t, new
<1> DEFINE sh(z) == Shifted(at, m, z)
           N == n + m
<1>7. /\ \A z \in 1..n : sh(z) \in 1..N /\ q[sh(z)] = p[z]
      /\ \A k \in 1..N : (\E z \in 1..n : k = sh(z)) \/ \E j \in 1..m : k = at + j - 1
      /\ \A y, z \in 1..n : (sh(y) < sh(z) <=> y < z) /\ (sh(y) <= sh(z) <=> y <= z)
      /\ \A j \in 1..m : /\ at + j - 1 \in 1..N /\ q[at + j - 1] = n + j
                         /\ \A z \in 1..n : /\ at + j - 1 < sh(z) <=> at <= z
                                            /\ sh(z) < at + j - 1 <=> z < at
      /\ sh(at) = at + m
  <2>1. Inserted(p, q, n, m, at) /\ n \in Nat /\ m \in Nat /\ at \in 1..n
    BY <1>2, <1>3
  <2> QED BY <2>1, ShiftedPlaces
<1> HIDE DEF sh, N
<1>7a. q[sh(at)] = next /\ \A j \in 1..m : at + j - 1 < sh(at)
  <2>1. at <= at
    BY <1>3
  <2> QED BY <1>3, <1>7, <2>1
<1>8. /\ \A z \in 1..n : t[q[sh(z)]].owner = s[p[z]].owner
      /\ \A j \in 1..m : t[q[at + j - 1]].owner = next
  BY <1>2, <1>3, <1>7
\* An owner is an old step.
<1>9. ASSUME NEW k \in 1..N, NEW c \in 1..N, t[q[k]].owner = q[c]
      PROVE  \E z \in 1..n : c = sh(z) /\ q[c] = p[z]
  <2>1. \A j \in 1..m : n + j \notin 1..n /\ n + j # NoOwner
    BY <1>3 DEF NoOwner
  <2>2. t[q[k]].owner \in 1..n \cup {NoOwner}
    <3>1. ASSUME NEW z \in 1..n PROVE s[p[z]].owner \in 1..n \cup {NoOwner}
      <4>1. DOMAIN p = 1..n /\ \A c1 \in 1..n : p[c1] \in 1..n
        BY <1>3
      <4> QED BY <1>6, <4>1 DEF OwnerBehind
    <3>2. CASE \E z \in 1..n : k = sh(z)
      BY <1>8, <3>1, <3>2
    <3>3. CASE \E j \in 1..m : k = at + j - 1
      BY <1>3, <1>8, <3>3
    <3> QED BY <1>7, <3>2, <3>3
  <2> QED BY <1>7, <1>9, <2>1, <2>2
<1>10. GivenUpIsFailed(t)
  <2> SUFFICES ASSUME NEW i \in 1..N, GivenUp(t, i) PROVE t[i].status = "failed"
    BY <1>5 DEF GivenUpIsFailed, N
  <2>1. CASE i \in 1..n
    BY <1>2, <1>3, <1>6, <2>1 DEF GivenUpIsFailed, GivenUp
  <2>2. CASE i \notin 1..n
    <3>1. i - n \in 1..m /\ n + (i - n) = i
      BY <1>2, <1>3, <2>2 DEF N
    <3> QED BY <1>2, <3>1 DEF GivenUp
  <2> QED BY <2>1, <2>2
<1>11. OwnerBehind(q, t)
  <2> SUFFICES ASSUME NEW k \in 1..N, t[q[k]].owner # NoOwner
               PROVE  \E c \in 1..N : k < c /\ q[c] = t[q[k]].owner
    BY <1>5 DEF OwnerBehind, N
  <2>1. ASSUME NEW j \in 1..m, k = at + j - 1 PROVE k < sh(at) /\ q[sh(at)] = t[q[k]].owner
    BY <1>7a, <1>8, <2>1
  <2>2. ASSUME NEW z \in 1..n, k = sh(z)
        PROVE  \E c \in 1..n : k < sh(c) /\ q[sh(c)] = t[q[k]].owner
    <3>1. PICK c \in 1..n : z < c /\ p[c] = s[p[z]].owner
      BY <1>3, <1>6, <1>8, <2>2 DEF OwnerBehind
    <3> QED BY <1>7, <1>8, <2>2, <3>1
  <2> QED BY <1>3, <1>7, <2>1, <2>2
<1>12. Nested(q, t)
  <2> SUFFICES ASSUME NEW a \in 1..N, NEW b \in 1..N, NEW c \in 1..N, a < b, b < c,
                      t[q[a]].owner = q[c]
               PROVE  \E e \in 1..N : b < e /\ e <= c /\ t[q[b]].owner = q[e]
    BY <1>5 DEF Nested, N
  <2>1. PICK z \in 1..n : c = sh(z) /\ q[c] = p[z]
    BY <1>9
  <2>2. ASSUME NEW j \in 1..m, b = at + j - 1
        PROVE  b < sh(at) /\ sh(at) <= c /\ t[q[b]].owner = q[sh(at)]
    <3>1. at <= z
      BY <1>7, <2>1, <2>2
    <3>2. sh(at) <= sh(z)
      BY <1>3, <1>7, <3>1
    <3> QED BY <1>7a, <1>8, <2>1, <2>2, <3>2
  <2>3. ASSUME NEW y \in 1..n, b = sh(y), NEW x \in 1..n, a = sh(x)
        PROVE  \E e \in 1..n : b < sh(e) /\ sh(e) <= c /\ t[q[b]].owner = q[sh(e)]
    <3>1. x < y /\ y < z /\ s[p[x]].owner = p[z]
      BY <1>7, <1>8, <2>1, <2>3
    <3>2. PICK e \in 1..n : y < e /\ e <= z /\ s[p[y]].owner = p[e]
      <4>1. DOMAIN p = 1..n /\ Nested(p, s)
        BY <1>3, <1>6
      <4> QED BY <3>1, <4>1 DEF Nested
    <3> QED BY <1>7, <1>8, <2>1, <2>3, <3>2
  <2>4. ASSUME NEW y \in 1..n, b = sh(y), NEW j \in 1..m, a = at + j - 1 PROVE FALSE
    <3>1. p[z] = p[at]
      BY <1>3, <1>8, <2>1, <2>4
    <3>2. z = at
      BY <1>3, <1>3a, <3>1
    <3>3. at <= y /\ y < at
      BY <1>3, <1>7, <2>1, <2>4, <3>2
    <3> QED BY <1>3, <3>3
  <2> QED BY <1>3, <1>7, <2>2, <2>3, <2>4
<1>13. ServedSoon(q, t, at + m, new)
  <2> SUFFICES ASSUME NEW a \in 1..N, NEW c \in 1..N, t[q[a]].owner = q[c]
               PROVE  \/ GivenUp(t, q[c])
                      \/ \E b \in 1..N : b # at + m /\ b <= c /\ q[a] \in t[q[b]].depends_on
                      \/ /\ q[a] \in new /\ at + m <= c
                         /\ q[a] \in t[q[at + m]].depends_on \/ c = at + m
    BY <1>5 DEF ServedSoon, N
  <2>1. PICK z \in 1..n : c = sh(z) /\ q[c] = p[z]
    BY <1>9
  <2>2. ASSUME NEW j \in 1..m, a = at + j - 1
        PROVE  \/ \E b \in 1..N : b # at + m /\ b <= c /\ q[a] \in t[q[b]].depends_on
               \/ q[a] \in new /\ c = at + m
    <3>1. c = at + m
      <4>1. p[z] = p[at]
        BY <1>3, <1>8, <2>1, <2>2
      <4>2. z = at
        BY <1>3, <1>3a, <4>1
      <4> QED BY <1>7, <2>1, <4>2
    <3>2. q[a] = n + j /\ n + j \in (n + 1)..(n + m)
      BY <1>3, <1>7, <2>2
    <3>3. CASE n + j \in new
      BY <3>1, <3>2, <3>3
    <3>4. CASE n + j \notin new
      <4>1. PICK i \in (n + 1)..(n + m) : n + j \in t[i].depends_on
        BY <1>2, <3>2, <3>4 DEF TerminalSteps
      <4>2. i - n \in 1..m /\ n + (i - n) = i
        <5>1. n \in Nat /\ m \in Nat
          BY <1>3
        <5> QED BY <5>1
      <4>3. at + (i - n) - 1 \in 1..N /\ q[at + (i - n) - 1] = i
        BY <1>7, <4>2
      <4>4. at + (i - n) - 1 # at + m /\ at + (i - n) - 1 <= c
        BY <1>2, <1>3, <3>1, <4>2
      <4> QED BY <3>2, <4>1, <4>3, <4>4
    <3> QED BY <3>3, <3>4
  <2>3. ASSUME NEW x \in 1..n, a = sh(x)
        PROVE  \/ GivenUp(t, q[c])
               \/ \E b \in 1..N : b # at + m /\ b <= c /\ q[a] \in t[q[b]].depends_on
    <3>1. q[a] = p[x] /\ s[p[x]].owner = p[z]
      BY <1>7, <1>8, <2>1, <2>3
    <3>2. CASE GivenUp(s, p[z])
      BY <1>2, <1>3, <2>1, <3>2 DEF GivenUp
    <3>3. ASSUME NEW b \in 1..n, b # at, b <= z, p[x] \in s[p[b]].depends_on
          PROVE  sh(b) \in 1..N /\ sh(b) # at + m /\ sh(b) <= c /\ q[a] \in t[q[sh(b)]].depends_on
      <4>1. sh(b) \in 1..N /\ sh(b) <= c /\ q[sh(b)] = p[b]
        BY <1>7, <2>1, <3>3
      <4>2. sh(b) # at + m
        <5>1. b < at \/ at < b
          BY <1>3, <3>3
        <5>2. sh(b) < sh(at) \/ sh(at) < sh(b)
          BY <1>3, <1>7, <5>1
        <5> QED BY <1>3, <1>7, <4>1, <5>2 DEF N
      <4>3. t[p[b]].depends_on = s[p[b]].depends_on
        BY <1>2, <1>3
      <4> QED BY <3>1, <3>3, <4>1, <4>2, <4>3
    <3>4. CASE p[x] \in inh /\ at <= z
      <4>1. 1 \in 1..m /\ at + 1 - 1 = at
        BY <1>2, <1>3
      <4>2. at \in 1..N /\ q[at] = n + 1 /\ (at < sh(z) <=> at <= z)
        BY <1>7, <4>1
      <4>3. at # at + m /\ at <= c
        BY <1>2, <1>3, <2>1, <3>4, <4>2
      <4> QED BY <1>2, <3>1, <3>4, <4>2, <4>3
    <3>5. \/ GivenUp(s, p[z])
          \/ \E b \in 1..n : b # at /\ b <= z /\ p[x] \in s[p[b]].depends_on
          \/ p[x] \in inh /\ at <= z
      BY <1>3, <1>6, <3>1 DEF ServedSoon
    <3> QED BY <3>2, <3>3, <3>4, <3>5
  <2>4. at + m <= at + m
    BY <1>3
  <2> QED BY <1>7, <2>2, <2>3, <2>4
<1>14. /\ GivenUpIsFailed(step) /\ OwnerBehind(plan, step) /\ Nested(plan, step)
       /\ Served(plan, step)
  BY DEF Family
<1>15. work'.plan = q /\ work'.step = t /\ work'.inherited = new /\ work'.at = at + m
  BY <1>2 DEF q, t, new
<1> QED BY <1>1, <1>10, <1>11, <1>12, <1>13, <1>14, <1>15
        DEF Family, GivenUpIsFailed, OwnerBehind, Nested, Served, ServedSoon, GivenUp

LEMMA ExpandDoneFamily ==
  ASSUME IInv, Family, ExpandDone
  PROVE  Family'
<1> DEFINE p == work.plan
           s == work.step
           at == work.at
           inh == work.inherited
           x == AwaitTodos(s[next], inh)
<1>1. node = "expand" /\ plan' = p /\ step' = [s EXCEPT ![next] = x] /\ node' = "schedule"
  BY DEF ExpandDone
<1>2. /\ s[next] \in Step /\ next \in DOMAIN s /\ s[next].status = "running"
      /\ \A k \in DOMAIN p : p[k] \in DOMAIN s
      /\ at \in DOMAIN p /\ p[at] = next
  <2>1. /\ p \in Seq(Nat) /\ s \in Seq(Step) /\ Ordered(p, s) /\ DOMAIN s = 1..Len(s)
        /\ s[next] \in Step /\ next \in DOMAIN s /\ s[next].status = "running"
        /\ at \in 1..Len(s) /\ p[at] = next
    BY <1>1, AtExpansion
  <2> HIDE DEF p, s, at
  <2>2. DOMAIN p = 1..Len(s)
    BY <2>1, LenProperties DEF Ordered
  <2> QED BY <2>1, <2>2, FrontOf
<1>3. /\ GivenUpIsFailed(s) /\ OwnerBehind(p, s) /\ Nested(p, s) /\ ServedSoon(p, s, at, inh)
  BY <1>1 DEF Family
<1>4. /\ x.owner = s[next].owner /\ x.error = s[next].error /\ x.depends_on = inh
  BY <1>2 DEF AwaitTodos, Step
<1> HIDE DEF p, s, at, inh, x
<1>5. /\ DOMAIN step' = DOMAIN s /\ step'[next] = x
      /\ \A i \in DOMAIN s : i # next => step'[i] = s[i]
  BY <1>1, <1>2
<1>6. /\ \A k \in DOMAIN p : step'[p[k]].owner = s[p[k]].owner
      /\ \A i \in DOMAIN s : GivenUp(step', i) <=> GivenUp(s, i)
  BY <1>2, <1>4, <1>5 DEF GivenUp
<1>7. GivenUpIsFailed(step')
  BY <1>2, <1>3, <1>5, <1>6 DEF GivenUpIsFailed
<1>8. OwnerBehind(p, step') /\ Nested(p, step')
  BY <1>3, <1>6 DEF OwnerBehind, Nested
<1>9. Served(p, step')
  <2> SUFFICES ASSUME NEW a \in DOMAIN p, NEW c \in DOMAIN p, step'[p[a]].owner = p[c],
                      ~GivenUp(step', p[c])
               PROVE  \E b \in DOMAIN p : b <= c /\ p[a] \in step'[p[b]].depends_on
    BY DEF Served
  <2>1. \/ \E b \in DOMAIN p : b # at /\ b <= c /\ p[a] \in s[p[b]].depends_on
        \/ p[a] \in inh /\ at <= c
    BY <1>2, <1>3, <1>6 DEF ServedSoon
  <2>2. ASSUME NEW b \in DOMAIN p, b # at, p[a] \in s[p[b]].depends_on
        PROVE  p[a] \in step'[p[b]].depends_on
    <3>1. p[b] # next
      <4>1. p \in Seq(Nat) /\ Ordered(p, s)
        BY <1>1, AtWorkFree DEF p, s
      <4>2. DOMAIN p = 1..Len(s)
        BY <4>1, LenProperties DEF Ordered
      <4> QED BY <1>2, <2>2, <4>1, <4>2 DEF Ordered, Permutes
    <3> QED BY <1>2, <1>5, <2>2, <3>1
  <2>3. step'[p[at]].depends_on = inh
    BY <1>2, <1>4, <1>5
  <2> QED BY <1>2, <2>1, <2>2, <2>3
<1> QED BY <1>1, <1>7, <1>8, <1>9
        DEF Family, GivenUpIsFailed, OwnerBehind, Nested, Served, GivenUp

\* The step at work is given up; what was generated for others in front of it is
\* needed as before.
LEMMA ExpandFailsFamily ==
  ASSUME IInv, Family, ExpandFails
  PROVE  Family'
<1> DEFINE p == work.plan
           s == work.step
           at == work.at
           inh == work.inherited
           x == Mark(s[next], "failed", "REQUIREMENT_PLANNING_FAILED")
<1>1. node = "expand" /\ plan' = p /\ step' = [s EXCEPT ![next] = x] /\ node' = "schedule"
  BY DEF ExpandFails, FailRequirement
<1>2. /\ s[next] \in Step /\ next \in DOMAIN s
      /\ \A k \in DOMAIN p : p[k] \in DOMAIN s
      /\ at \in DOMAIN p /\ p[at] = next
  <2>1. /\ p \in Seq(Nat) /\ s \in Seq(Step) /\ Ordered(p, s) /\ DOMAIN s = 1..Len(s)
        /\ s[next] \in Step /\ next \in DOMAIN s
        /\ at \in 1..Len(s) /\ p[at] = next
    BY <1>1, AtExpansion
  <2> HIDE DEF p, s, at
  <2>2. DOMAIN p = 1..Len(s)
    BY <2>1, LenProperties DEF Ordered
  <2> QED BY <2>1, <2>2, FrontOf
<1>3. /\ GivenUpIsFailed(s) /\ OwnerBehind(p, s) /\ Nested(p, s) /\ ServedSoon(p, s, at, inh)
  BY <1>1 DEF Family
<1>4. /\ x.owner = s[next].owner /\ x.depends_on = s[next].depends_on /\ x.status = "failed"
      /\ x.error = "REQUIREMENT_PLANNING_FAILED"
  BY <1>2 DEF Mark, Step
<1> HIDE DEF p, s, at, inh, x
<1>5. /\ DOMAIN step' = DOMAIN s /\ step'[next] = x
      /\ \A i \in DOMAIN s : i # next => step'[i] = s[i]
  BY <1>1, <1>2
<1>6. /\ \A k \in DOMAIN p : /\ step'[p[k]].owner = s[p[k]].owner
                             /\ step'[p[k]].depends_on = s[p[k]].depends_on
      /\ GivenUp(step', next)
      /\ \A i \in DOMAIN s : i # next => (GivenUp(step', i) <=> GivenUp(s, i))
  BY <1>2, <1>4, <1>5 DEF GivenUp
<1>7. GivenUpIsFailed(step')
  BY <1>2, <1>3, <1>4, <1>5, <1>6 DEF GivenUpIsFailed
<1>8. OwnerBehind(p, step') /\ Nested(p, step')
  BY <1>3, <1>6 DEF OwnerBehind, Nested
<1>9. Served(p, step')
  <2> SUFFICES ASSUME NEW a \in DOMAIN p, NEW c \in DOMAIN p, step'[p[a]].owner = p[c],
                      ~GivenUp(step', p[c])
               PROVE  \E b \in DOMAIN p : b <= c /\ p[a] \in step'[p[b]].depends_on
    BY DEF Served
  <2>1. p[c] # next /\ ~GivenUp(s, p[c]) /\ c # at
    BY <1>2, <1>6
  <2>2. \/ \E b \in DOMAIN p : b # at /\ b <= c /\ p[a] \in s[p[b]].depends_on
        \/ p[a] \in s[p[at]].depends_on /\ at <= c
    BY <1>2, <1>3, <1>6, <2>1 DEF ServedSoon
  <2> QED BY <1>2, <1>6, <2>2
<1> QED BY <1>1, <1>7, <1>8, <1>9
        DEF Family, GivenUpIsFailed, OwnerBehind, Nested, Served, GivenUp

LEMMA FamilyInit == Init => Family
BY DEF Init, Family, GivenUpIsFailed, OwnerBehind, Nested, Served

LEMMA FamilyNext ==
  ASSUME IInv, Family, [Next]_vars
  PROVE  Family'
<1>1. CASE UNCHANGED vars
  BY <1>1 DEF vars, run, Family, GivenUpIsFailed, OwnerBehind, Nested, Served, ServedSoon, GivenUp
<1> QED BY <1>1, ScheduleFamily, WorkerFamily, UserFamily, QuietFamily, PlannedFamily,
           RequiresFamily, ExpandOneFamily, ExpandFailsFamily, ExpandDoneFamily
        DEF Next, Graph, Worker, Expand

LEMMA FamilyInvariance == Spec => []Family
BY FamilyInit, FamilyNext, Invariance, PTL DEF Spec

\* No requirement todo is ever left that nobody waits for, but those of a step
\* that was given up (engine.py, planner.py).
THEOREM TodosServe == Spec => []PrerequisitesServe
<1>1. IInv /\ Family => PrerequisitesServe
  <2> SUFFICES ASSUME IInv, Family, NEW g \in DOMAIN step, step[g].owner # NoOwner
               PROVE  \/ GivenUp(step, step[g].owner)
                      \/ \E k \in DOMAIN step : g \in step[k].depends_on
    BY DEF PrerequisitesServe, GivenUp
  <2>1. plan \in Seq(Nat) /\ step \in Seq(Step) /\ Ordered(plan, step)
    BY DEF IInv, TypeOK, DepsPrecede
  <2>2. PICK a \in DOMAIN plan : plan[a] = g
    BY <2>1, LenProperties DEF Ordered, Permutes
  <2>3. PICK c \in DOMAIN plan : plan[c] = step[g].owner
    BY <2>2 DEF Family, OwnerBehind
  <2>4. GivenUp(step, plan[c]) \/ \E b \in DOMAIN plan : g \in step[plan[b]].depends_on
    BY <2>2, <2>3 DEF Family, Served
  <2> QED BY <2>1, <2>3, <2>4, FrontOf
<1> QED BY <1>1, FamilyInvariance, Invariance, PTL

\* When a step has succeeded, so has all that was generated for it: the last todo of
\* its family that had not would be needed by a later one of the family, or by the step.
LEMMA FamilySucceeds ==
  ASSUME IInv, Family, NEW g \in DOMAIN step, step[g].owner # NoOwner,
         Succeeded(step, step[g].owner)
  PROVE  Succeeded(step, g)
<1> SUFFICES ASSUME ~Succeeded(step, g) PROVE FALSE
  OBVIOUS
<1>1. /\ plan \in Seq(Nat) /\ step \in Seq(Step) /\ Ordered(plan, step) /\ Sound(step)
      /\ DOMAIN plan \subseteq Nat
  BY LenProperties DEF IInv, TypeOK, DepsPrecede
<1>2. PICK a \in DOMAIN plan : plan[a] = g
  BY <1>1, LenProperties DEF Ordered, Permutes
<1>3. PICK c \in DOMAIN plan : a < c /\ plan[c] = step[g].owner
  BY <1>2 DEF Family, OwnerBehind
<1> DEFINE T == {x \in DOMAIN plan : a <= x /\ x < c /\ ~Succeeded(step, plan[x])}
<1>4. PICK x \in T : \A y \in T : y <= x
  <2> DEFINE D == {c - y : y \in T}
  <2>1. D \in SUBSET Nat
    BY <1>1
  <2>2. a \in T
    BY <1>1, <1>2, <1>3
  <2>3. D # {}
    BY <2>2
  <2> HIDE DEF D
  <2>4. PICK z \in D : \A y \in D : z <= y
    BY <2>1, <2>3, LeastNat
  <2>5. PICK x \in T : z = c - x
    BY <2>4 DEF D
  <2>6. ASSUME NEW y \in T PROVE y <= x
    <3>1. c - x <= c - y
      BY <2>4, <2>5 DEF D
    <3> QED BY <1>1, <3>1
  <2> QED BY <2>6
<1>5. x \in DOMAIN plan /\ a <= x /\ x < c /\ ~Succeeded(step, plan[x])
  OBVIOUS
<1>6. ASSUME NEW y \in DOMAIN plan, x < y, y <= c PROVE Succeeded(step, plan[y])
  <2>1. CASE y = c
    BY <1>3, <2>1
  <2>2. CASE y # c
    <3>1. y \notin T /\ a <= y /\ y < c
      BY <1>1, <1>4, <1>5, <1>6, <2>2
    <3> QED BY <3>1
  <2> QED BY <2>1, <2>2
<1> HIDE DEF T
<1>7. PICK e \in DOMAIN plan : x < e /\ e <= c /\ step[plan[x]].owner = plan[e]
  <2>1. CASE x = a
    BY <1>1, <1>2, <1>3, <1>5, <2>1
  <2>2. CASE x # a
    <3>1. a < x
      BY <1>1, <1>5, <2>2
    <3> QED BY <1>2, <1>3, <1>5, <3>1 DEF Family, Nested
  <2> QED BY <2>1, <2>2
<1>8. ~GivenUp(step, plan[e])
  <2>1. Succeeded(step, plan[e]) /\ plan[e] \in DOMAIN step
    BY <1>1, <1>6, <1>7, FrontOf
  <2> QED BY <2>1 DEF Family, GivenUpIsFailed, Succeeded
<1>9. PICK b \in DOMAIN plan : b <= e /\ plan[x] \in step[plan[b]].depends_on
  BY <1>5, <1>7, <1>8 DEF Family, Served
<1>10. x < b /\ b <= c /\ plan[b] \in DOMAIN step
  <2>0. DOMAIN plan = 1..Len(step) /\ Len(step) \in Nat
    BY <1>1, LenProperties DEF Ordered
  <2>1. PICK l \in 1..(b - 1) : plan[l] = plan[x]
    BY <1>1, <1>9, <2>0 DEF Ordered, Precede, Among
  <2>2. l \in 1..Len(step) /\ l < b
    BY <2>0
  <2>3. l = x
    BY <1>1, <1>5, <2>0, <2>1, <2>2 DEF Ordered, Permutes
  <2>4. b <= c
    BY <1>1, <1>7, <1>9
  <2> QED BY <1>1, <2>2, <2>3, <2>4, FrontOf
<1>11. AllSucceeded(step, step[plan[b]].depends_on)
  BY <1>1, <1>6, <1>10 DEF Sound, Succeeded
<1> QED BY <1>5, <1>9, <1>11 DEF AllSucceeded

\* A run that succeeded has every required step succeeded, and no step succeeded
\* without all the todos generated for it (scheduler.py, engine.py).
THEOREM SuccessIsComplete == Spec => []SuccessIsTotal
<1>1. IInv /\ Family => SuccessIsTotal
  BY FamilySucceeds DEF SuccessIsTotal, IInv, VerdictTrue
<1> QED BY <1>1, FamilyInvariance, Invariance, PTL

-----------------------------------------------------------------------------
(* The end of the graph *)

\* Statuses of a step that the graph has done with, until the user answers.
Idle == StepTerminal \cup {"waiting_user"}

\* What a node does to a step that stays in its place.
Trims(r, x) ==
  /\ x.depth = r.depth /\ r.expanded \subseteq x.expanded
  /\ x.status \in Idle \/ r.status \notin Idle

\* What it does to a step it is done with, for now or for one more requirement.
UsesUp(r, x) ==
  /\ r.status \notin Idle
  /\ x.status \in Idle \/ \E key \in Keys : key \notin r.expanded /\ key \in x.expanded

LEMMA LeftShrinks ==
  ASSUME NEW s, NEW t, NEW depth,
         \A i \in DOMAIN s : Trims(s[i], t[i]),
         \A i \in DOMAIN t : i \notin DOMAIN s => t[i].depth # depth
  PROVE  Left(t, depth) \subseteq Left(s, depth)
<1> SUFFICES ASSUME NEW x \in Left(t, depth) PROVE x \in Left(s, depth)
  OBVIOUS
<1>1. /\ x \in (DOMAIN t) \X (Keys \cup {NoKey}) /\ x[1] \in DOMAIN t /\ x[2] \in Keys \cup {NoKey}
      /\ t[x[1]].depth = depth /\ t[x[1]].status \notin Idle /\ x[2] \notin t[x[1]].expanded
  BY DEF Left, Idle
<1>2. x[1] \in DOMAIN s
  BY <1>1
<1>3. /\ s[x[1]].depth = depth /\ s[x[1]].status \notin Idle /\ x[2] \notin s[x[1]].expanded
  BY <1>1, <1>2 DEF Trims
<1>4. x \in (DOMAIN s) \X (Keys \cup {NoKey})
  BY <1>1, <1>2
<1> QED BY <1>3, <1>4 DEF Left, Idle

LEMMA LeftLess ==
  ASSUME NEW s \in Seq(Step), NEW t, NEW i \in DOMAIN s,
         s[i].depth \in 0..MaxDepth, UsesUp(s[i], t[i]),
         \A j \in DOMAIN s : Trims(s[j], t[j]),
         \A j \in DOMAIN t : j \notin DOMAIN s => t[j].depth > s[i].depth
  PROVE  LessLeft(s, t)
<1> DEFINE depth == s[i].depth
<1>1. ASSUME NEW e \in 0..depth PROVE Left(t, e) \subseteq Left(s, e)
  <2>1. \A j \in DOMAIN t : j \notin DOMAIN s => t[j].depth # e
    <3>1. \A d : d > depth => d # e
      OBVIOUS
    <3> QED BY <3>1
  <2> QED BY <2>1, LeftShrinks
<1>2. \E x : x \in Left(s, depth) /\ x \notin Left(t, depth)
  <2>1. s[i] \in Step /\ s[i].expanded \subseteq Keys /\ NoKey \notin Keys
    BY StatusOf, DraftsAssumption DEF Step
  <2>2. CASE t[i].status \in Idle
    <3>1. <<i, NoKey>> \in Left(s, depth)
      BY <2>1 DEF Left, UsesUp, Idle
    <3>2. <<i, NoKey>> \notin Left(t, depth)
      BY <2>2 DEF Left, Idle
    <3> QED BY <3>1, <3>2
  <2>3. CASE \E key \in Keys : key \notin s[i].expanded /\ key \in t[i].expanded
    <3>1. PICK key \in Keys : key \notin s[i].expanded /\ key \in t[i].expanded
      BY <2>3
    <3>2. <<i, key>> \in Left(s, depth)
      BY <3>1 DEF Left, UsesUp, Idle
    <3>3. <<i, key>> \notin Left(t, depth)
      BY <3>1 DEF Left
    <3> QED BY <3>2, <3>3
  <2> QED BY <2>2, <2>3 DEF UsesUp
<1>3. depth \in 0..MaxDepth
  OBVIOUS
<1> HIDE DEF depth
<1> QED BY <1>1, <1>2, <1>3 DEF LessLeft

LEMMA LeftKept ==
  ASSUME NEW s, NEW t, DOMAIN t \subseteq DOMAIN s, \A j \in DOMAIN s : Trims(s[j], t[j])
  PROVE  NoMoreLeft(s, t)
BY LeftShrinks DEF NoMoreLeft

\* What may be left is finite: one can only go down so often.
LEMMA LeftIsFinite ==
  ASSUME IsFiniteSet(Keys), NEW s \in Seq(Step), NEW depth
  PROVE  IsFiniteSet(Left(s, depth))
<1>1. IsFiniteSet(DOMAIN s)
  <2>1. DOMAIN s = 1..Len(s) /\ Len(s) \in Nat
    BY LenProperties
  <2> QED BY <2>1, FS_Interval
<1>2. IsFiniteSet(Keys \cup {NoKey})
  BY FS_AddElement
<1>3. IsFiniteSet((DOMAIN s) \X (Keys \cup {NoKey}))
  BY <1>1, <1>2, FS_Product
<1> QED BY <1>3, FS_Subset DEF Left

LEMMA RecordsTrimmed ==
  ASSUME NEW s \in Step
  PROVE  /\ Trims(s, s)
         /\ \A st, e : st \in Idle \/ s.status \notin Idle => Trims(s, Mark(s, st, e))
         /\ \A st : st \in Idle \/ s.status \notin Idle => Trims(s, WithStatus(s, st))
         /\ s.status \notin Idle => Trims(s, Begin(s)) /\ Trims(s, Ready(s))
         /\ \A key : Trims(s, Remember(s, key))
         /\ \A ids : s.status \notin Idle => Trims(s, AwaitTodos(s, ids))
<1>1. Trims(s, s)
  BY DEF Trims
<1>2. ASSUME NEW st, NEW e, st \in Idle \/ s.status \notin Idle PROVE Trims(s, Mark(s, st, e))
  BY <1>2 DEF Trims, Mark, Step
<1>3. ASSUME NEW st, st \in Idle \/ s.status \notin Idle PROVE Trims(s, WithStatus(s, st))
  BY <1>3 DEF Trims, WithStatus, Step
<1>4. s.status \notin Idle => Trims(s, Begin(s))
  BY DEF Trims, Begin, Step
<1>5. s.status \notin Idle => Trims(s, Ready(s))
  BY <1>2 DEF Ready
<1>6. ASSUME NEW key PROVE Trims(s, Remember(s, key))
  BY DEF Trims, Remember, Step
<1>7. ASSUME NEW ids, s.status \notin Idle PROVE Trims(s, AwaitTodos(s, ids))
  BY <1>7 DEF Trims, AwaitTodos, Step
<1> QED BY <1>1, <1>2, <1>3, <1>4, <1>5, <1>6, <1>7

\* The step at work in the place of i, and what it becomes.
LEMMA OneTrims ==
  ASSUME NEW s \in Seq(Step), NEW i \in DOMAIN s, NEW x, Trims(s[i], x),
         NEW t, t = [s EXCEPT ![i] = x]
  PROVE  /\ DOMAIN t = DOMAIN s /\ t[i] = x
         /\ \A j \in DOMAIN s : Trims(s[j], t[j])
<1>1. \A j \in DOMAIN s : Trims(s[j], s[j])
  BY DEF Trims
<1> QED BY <1>1

LEMMA OneUsesUp ==
  ASSUME NEW s \in Seq(Step), NEW i \in DOMAIN s, NEW x, Trims(s[i], x), UsesUp(s[i], x),
         s[i].depth \in 0..MaxDepth, NEW t, t = [s EXCEPT ![i] = x]
  PROVE  LessLeft(s, t)
<1>1. DOMAIN t = DOMAIN s /\ t[i] = x /\ \A j \in DOMAIN s : Trims(s[j], t[j])
  BY OneTrims
<1> QED BY <1>1, LeftLess

-----------------------------------------------------------------------------
(* The depth of requirements *)

Depths(s) == \A i \in DOMAIN s : s[i].depth \in 0..MaxDepth

\* A requirement is met only for a step that is not at the greatest depth.
Shallow ==
  /\ Depths(step)
  /\ node = "expand" => Depths(work.step) /\ work.step[next].depth < MaxDepth


LEMMA RecordsDeep ==
  ASSUME NEW s \in Step
  PROVE  /\ \A st, e : Mark(s, st, e).depth = s.depth
         /\ \A st : WithStatus(s, st).depth = s.depth
         /\ Begin(s).depth = s.depth /\ Ready(s).depth = s.depth
         /\ \A key : Remember(s, key).depth = s.depth
         /\ \A ids : AwaitTodos(s, ids).depth = s.depth
BY DEF Mark, WithStatus, Begin, Ready, Remember, AwaitTodos, Step

LEMMA ScheduleTrims ==
  ASSUME IInv, Schedule
  PROVE  DOMAIN step' = DOMAIN step /\ \A i \in DOMAIN step : Trims(step[i], step'[i])
<1>1. step \in Seq(Step)
  BY DEF IInv, TypeOK
<1>2. PICK B \in SUBSET DOMAIN plan :
        LET b == Block(plan, step, B) IN
        \/ step' = b
        \/ \E k \in DOMAIN plan : /\ IsFirstDispatchable(plan, b, k)
                                  /\ step' = [b EXCEPT ![plan[k]] = Ready(@)]
  BY DEF Schedule, ScheduleExecute, ScheduleWait, ScheduleFinalize
<1> DEFINE b == Block(plan, step, B)
<1>3. b \in Seq(Step) /\ DOMAIN b = DOMAIN step
  BY <1>1, BlockKeeps
<1>4. \A i \in DOMAIN step : Trims(step[i], b[i])
  <2> SUFFICES ASSUME NEW i \in DOMAIN step PROVE Trims(step[i], b[i])
    OBVIOUS
  <2>1. b[i] = step[i] \/ b[i] = Mark(step[i], "blocked", "DEPENDENCY_FAILED")
    BY DEF Block
  <2>2. step[i] \in Step
    BY <1>1, StatusOf
  <2>3. "blocked" \in Idle
    BY DEF Idle, StepTerminal, StepFailed
  <2>4. Trims(step[i], step[i]) /\ Trims(step[i], Mark(step[i], "blocked", "DEPENDENCY_FAILED"))
    BY <2>2, <2>3, RecordsTrimmed
  <2> QED BY <2>1, <2>4
<1>5. CASE step' = b
  BY <1>3, <1>4, <1>5
<1>6. ASSUME NEW k \in DOMAIN plan, IsFirstDispatchable(plan, b, k),
             step' = [b EXCEPT ![plan[k]] = Ready(b[plan[k]])]
      PROVE  DOMAIN step' = DOMAIN step /\ \A i \in DOMAIN step : Trims(step[i], step'[i])
  <2> DEFINE j == plan[k]
  <2>1. j \in DOMAIN b
    BY <1>1, <1>3, FrontOf DEF IInv, TypeOK, DepsPrecede
  <2>2. b[j].status \notin Idle
    BY <1>6 DEF IsFirstDispatchable, Dispatchable, Idle, StepTerminal, StepFailed
  <2> HIDE DEF b, j
  <2>3. Trims(b[j], Ready(b[j]))
    BY <1>3, <2>1, <2>2, StatusOf, RecordsTrimmed
  <2>4. step' = [b EXCEPT ![j] = Ready(b[j])]
    BY <1>6 DEF j
  <2>5. DOMAIN step' = DOMAIN b /\ \A i \in DOMAIN b : Trims(b[i], step'[i])
    BY <1>3, <2>1, <2>3, <2>4, OneTrims
  <2> QED BY <1>3, <1>4, <2>5 DEF Trims
<1> QED BY <1>2, <1>5, <1>6

\* The step a worker is done with.
LEMMA WorkerUsesUp ==
  ASSUME IInv, WorkerSucceeds \/ WorkerFails \/ WorkerAsksUser \/ WorkerRequiresInVain
  PROVE  \E x : /\ step' = [step EXCEPT ![next] = x]
                /\ Trims(step[next], x) /\ UsesUp(step[next], x)
<1> DEFINE r == step[next]
<1>1. node = "worker"
  BY DEF WorkerSucceeds, WorkerFails, WorkerAsksUser, WorkerRequiresInVain
<1>2. r \in Step /\ r.status = "running"
  BY <1>1, AtWork
<1>3. {"succeeded", "failed", "waiting_user"} \subseteq Idle /\ "running" \notin Idle
  BY DEF Idle, StepTerminal, StepFailed
<1>4. \E st \in {"succeeded", "failed", "waiting_user"} :
         \/ step' = [step EXCEPT ![next] = WithStatus(r, st)]
         \/ \E e : step' = [step EXCEPT ![next] = Mark(r, st, e)]
  <2>1. CASE WorkerSucceeds
    BY <2>1 DEF WorkerSucceeds, SaveResult
  <2>2. CASE WorkerFails
    BY <2>2 DEF WorkerFails, SaveResult
  <2>3. CASE WorkerAsksUser
    BY <2>3 DEF WorkerAsksUser, SaveResult
  <2>4. CASE WorkerRequiresInVain
    BY <2>4 DEF WorkerRequiresInVain, FailRequirement
  <2> QED BY <2>1, <2>2, <2>3, <2>4
<1>5. PICK st \in {"succeeded", "failed", "waiting_user"} :
         \/ step' = [step EXCEPT ![next] = WithStatus(r, st)]
         \/ \E e : step' = [step EXCEPT ![next] = Mark(r, st, e)]
  BY <1>4
<1> HIDE DEF r
<1>6. CASE step' = [step EXCEPT ![next] = WithStatus(r, st)]
  <2>1. Trims(r, WithStatus(r, st)) /\ WithStatus(r, st).status = st
    BY <1>2, <1>3, RecordsTrimmed DEF WithStatus, Step
  <2>2. UsesUp(r, WithStatus(r, st))
    BY <1>2, <1>3, <2>1 DEF UsesUp
  <2> QED BY <1>6, <2>1, <2>2 DEF r
<1>7. ASSUME NEW e, step' = [step EXCEPT ![next] = Mark(r, st, e)]
      PROVE  \E x : /\ step' = [step EXCEPT ![next] = x]
                    /\ Trims(step[next], x) /\ UsesUp(step[next], x)
  <2>1. Trims(r, Mark(r, st, e)) /\ Mark(r, st, e).status = st
    BY <1>2, <1>3, RecordsTrimmed DEF Mark, Step
  <2>2. UsesUp(r, Mark(r, st, e))
    BY <1>2, <1>3, <2>1 DEF UsesUp
  <2> QED BY <1>7, <2>1, <2>2 DEF r
<1> QED BY <1>5, <1>6, <1>7

\* A requirement is met: the step at work may not meet it again, and the new todos
\* stand one deeper.
LEMMA ExpandOneLess ==
  ASSUME IInv, Shallow, ExpandOne
  PROVE  /\ LessLeft(work.step, work'.step)
         /\ Depths(work'.step) /\ work'.step[next].depth < MaxDepth
<1> DEFINE key == Head(work.reqs)
           s   == work.step
           n   == Len(s)
           inh == work.inherited
<1>1. node = "expand" /\ work.reqs # <<>>
  BY DEF ExpandOne
<1>2. PICK d \in ReqDrafts :
        /\ Delegable(d, Providers(key, s[next].worker))
        /\ work'.step = [AddSteps(s, d, next, key, s[next].depth + 1, inh)
                           EXCEPT ![next] = Remember(@, key)]
  BY DEF ExpandOne
<1>3. key \notin s[next].expanded
  BY DEF ExpandOne, CanExpand
<1> DEFINE m == Len(d)
           a == AddSteps(s, d, next, key, s[next].depth + 1, inh)
           t == work'.step
           r == Remember(a[next], key)
<1>4. /\ s \in Seq(Step) /\ n \in Nat /\ DOMAIN s = 1..n
      /\ next \in 1..n /\ s[next] \in Step /\ s[next].status = "running" /\ key \in Keys
  BY <1>1, AtExpansion, HeadTailProperties
<1>5. m \in Nat
  BY <1>2, DraftsAssumption, LenProperties DEF Delegable
<1>6. /\ DOMAIN a = 1..(n + m)
      /\ \A i \in 1..n : a[i] = s[i]
      /\ \A i \in 1..(n + m) : i \notin 1..n => a[i].depth = s[next].depth + 1
  <2> HIDE DEF key, s, n, m, inh
  <2>1. a = [i \in 1..(n + m) |->
               IF i <= n THEN s[i]
               ELSE MakeStep(d, i - n, n, next, key, s[next].depth + 1, inh)]
    BY DEF AddSteps, n, m
  <2> HIDE DEF a
  <2>2. \A i \in 1..n : i \in 1..(n + m) /\ i <= n
    BY <1>4, <1>5
  <2>3. \A i \in 1..(n + m) : i \notin 1..n => ~(i <= n)
    BY <1>4, <1>5
  <2> QED BY <2>1, <2>2, <2>3 DEF MakeStep
<1>7. t = [a EXCEPT ![next] = r]
  BY <1>2
<1> HIDE DEF a, key, t
<1>8. /\ Trims(s[next], r) /\ UsesUp(s[next], r) /\ r.depth = s[next].depth
  <2>1. r.expanded = s[next].expanded \cup {key} /\ r.depth = s[next].depth
        /\ r.status = s[next].status
    BY <1>4, <1>6 DEF Remember, Step
  <2>2. "running" \notin Idle
    BY DEF Idle, StepTerminal, StepFailed
  <2> HIDE DEF r, s
  <2> QED BY <1>3, <1>4, <2>1, <2>2 DEF Trims, UsesUp
<1>9. s[next].depth \in 0..MaxDepth /\ s[next].depth < MaxDepth /\ MaxDepth \in Nat
  BY <1>1, <1>4, DraftsAssumption DEF Shallow, Depths
<1>10. \A i \in DOMAIN s : s[i].depth \in 0..MaxDepth
  BY <1>1 DEF Shallow, Depths
<1> HIDE DEF s, n, m, r
<1>11. /\ DOMAIN t = 1..(n + m) /\ t[next] = r
       /\ \A i \in 1..n : i # next => t[i] = s[i]
       /\ \A i \in 1..(n + m) : i \notin 1..n => t[i].depth = s[next].depth + 1
  <2>1. next \in 1..(n + m)
    BY <1>4, <1>5
  <2>2. \A i \in 1..n : i \in 1..(n + m)
    BY <1>4, <1>5
  <2> QED BY <1>4, <1>6, <1>7, <2>1, <2>2
<1>12. \A i \in DOMAIN s : Trims(s[i], t[i])
  <2>1. \A i \in DOMAIN s : Trims(s[i], s[i])
    BY DEF Trims
  <2> QED BY <1>4, <1>8, <1>11, <2>1
<1>13. \A i \in DOMAIN t : i \notin DOMAIN s => t[i].depth > s[next].depth
  BY <1>4, <1>9, <1>11
<1>14. LessLeft(s, t)
  BY <1>4, <1>8, <1>9, <1>11, <1>12, <1>13, LeftLess
<1>15. Depths(t)
  <2> SUFFICES ASSUME NEW i \in DOMAIN t PROVE t[i].depth \in 0..MaxDepth
    BY DEF Depths
  <2>1. CASE i \in DOMAIN s
    BY <1>10, <1>12, <2>1 DEF Trims
  <2>2. CASE i \notin DOMAIN s
    BY <1>4, <1>9, <1>11, <2>2
  <2> QED BY <2>1, <2>2
<1>16. t[next].depth < MaxDepth
  BY <1>8, <1>9, <1>11
<1> QED BY <1>14, <1>15, <1>16 DEF s, t

\* The step at work is given up, or waits for its todos.
LEMMA ExpandEndTrims ==
  ASSUME IInv, ExpandFails \/ ExpandDone
  PROVE  \E x : /\ step' = [work.step EXCEPT ![next] = x]
                /\ Trims(work.step[next], x)
                /\ ExpandFails => UsesUp(work.step[next], x)
<1> DEFINE r == work.step[next]
<1>1. r \in Step /\ r.status = "running"
  BY AtExpansion DEF ExpandFails, ExpandDone
<1>2. "failed" \in Idle /\ "running" \notin Idle
  BY DEF Idle, StepTerminal, StepFailed
<1>3. CASE ExpandFails
  <2> DEFINE x == Mark(r, "failed", "REQUIREMENT_PLANNING_FAILED")
  <2>1. step' = [work.step EXCEPT ![next] = x]
    BY <1>3 DEF ExpandFails, FailRequirement
  <2>2. Trims(r, x) /\ x.status = "failed"
    BY <1>1, <1>2, RecordsTrimmed DEF Mark, Step
  <2>3. UsesUp(r, x)
    BY <1>1, <1>2, <2>2 DEF UsesUp
  <2> QED BY <2>1, <2>2, <2>3
<1>4. CASE ~ExpandFails
  <2> DEFINE x == AwaitTodos(r, work.inherited)
  <2>1. step' = [work.step EXCEPT ![next] = x]
    BY <1>4 DEF ExpandDone
  <2>2. Trims(r, x)
    BY <1>1, <1>2, RecordsTrimmed
  <2> QED BY <1>4, <2>1, <2>2
<1> QED BY <1>3, <1>4

-----------------------------------------------------------------------------
(* Every action keeps the depths *)

LEMMA TrimsDeep ==
  ASSUME NEW s, NEW t, Depths(s), DOMAIN t \subseteq DOMAIN s, \A i \in DOMAIN s : Trims(s[i], t[i])
  PROVE  Depths(t)
BY DEF Depths, Trims

LEMMA ShallowInit == Init => Shallow
BY DEF Init, Shallow, Depths

LEMMA ShallowNext ==
  ASSUME IInv, Shallow, [Next]_vars
  PROVE  Shallow'
<1>0. step \in Seq(Step) /\ MaxDepth \in Nat
  BY DraftsAssumption DEF IInv, TypeOK
<1>1. CASE PlanNode \/ NodeRaises \/ FinalizeNode \/ GraphEnds \/ Disconnect \/ Over \/ UNCHANGED vars
  <2>1. step' = step /\ (node' = "expand" => node = "expand" /\ work' = work /\ next' = next)
    BY <1>1 DEF PlanNode, NodeRaises, FinalizeNode, GraphEnds, Disconnect, Over, run, vars
  <2> QED BY <2>1 DEF Shallow, Depths
<1>2. CASE ValidateNode
  <2> DEFINE m == Len(draft)
             t == AddSteps(<<>>, draft, NoOwner, NoKey, 0, {})
  <2>1. step' = t /\ node' = "schedule"
    BY <1>2 DEF ValidateNode
  <2>2. m \in Nat
    <3>1. draft \in Seq(Todo(STRING))
      BY <1>2, DraftsAssumption DEF ValidateNode, IInv, TypeOK, Valid
    <3> QED BY <3>1, LenProperties
  <2>3. ASSUME NEW i \in DOMAIN t PROVE t[i].depth = 0
    <3> HIDE DEF m
    <3>1. t = [j \in 1..m |-> MakeStep(draft, j, 0, NoOwner, NoKey, 0, {})]
      <4>1. Len(<<>>) = 0 /\ 0 + m = m
        BY <2>2
      <4>2. \A j \in 1..m : ~(j <= 0) /\ j - 0 = j
        BY <2>2
      <4> QED BY <4>1, <4>2 DEF AddSteps, m
    <3> HIDE DEF t
    <3>2. t[i] = MakeStep(draft, i, 0, NoOwner, NoKey, 0, {})
      BY <2>3, <3>1
    <3> QED BY <3>2 DEF MakeStep
  <2> HIDE DEF t
  <2> QED BY <1>0, <2>1, <2>3 DEF Shallow, Depths
<1>3. CASE Schedule
  <2>1. node' # "expand"
    BY <1>3 DEF Schedule, ScheduleExecute, ScheduleWait, ScheduleFinalize
  <2>2. Depths(step')
    BY <1>3, ScheduleTrims, TrimsDeep DEF Shallow
  <2> QED BY <2>1, <2>2 DEF Shallow, Depths
<1>4. CASE ExecuteNode \/ WorkerSucceeds \/ WorkerFails \/ WorkerAsksUser \/ WorkerRequiresInVain
  <2>1. node' # "expand" /\ next \in DOMAIN step
    <3>1. node \in {"execute", "worker"}
      BY <1>4 DEF ExecuteNode, WorkerSucceeds, WorkerFails, WorkerAsksUser, WorkerRequiresInVain
    <3> QED BY <1>4, <3>1 DEF ExecuteNode, WorkerSucceeds, WorkerFails, WorkerAsksUser,
         WorkerRequiresInVain, SaveResult, FailRequirement, IInv, OneRuns
  <2>2. PICK x : step' = [step EXCEPT ![next] = x] /\ x.depth = step[next].depth
    <3>1. CASE ExecuteNode
      <4>1. step[next] \in Step
        BY <1>0, <2>1, StatusOf
      <4> QED BY <3>1, <4>1, RecordsDeep DEF ExecuteNode
    <3>2. CASE ~ExecuteNode
      BY <1>4, <3>2, WorkerUsesUp DEF Trims
    <3> QED BY <3>1, <3>2
  <2>3. Depths(step')
    BY <2>1, <2>2 DEF Shallow, Depths
  <2> QED BY <2>1, <2>3 DEF Shallow, Depths
<1>5. CASE WorkerRequires
  <2>1. /\ step' = step /\ next' = next /\ work'.step = step /\ step[next].depth < MaxDepth
    BY <1>5 DEF WorkerRequires, run
  <2> QED BY <2>1 DEF Shallow, Depths
<1>6. CASE ExpandOne
  <2>1. step' = step /\ next' = next /\ Depths(work'.step) /\ work'.step[next].depth < MaxDepth
    BY <1>6, ExpandOneLess DEF ExpandOne, run
  <2> QED BY <2>1 DEF Shallow, Depths
<1>7. CASE ExpandFails \/ ExpandDone
  <2>1. node = "expand" /\ node' # "expand" /\ next \in DOMAIN work.step /\ work.step \in Seq(Step)
    BY <1>7, AtExpansion DEF ExpandFails, ExpandDone, FailRequirement
  <2>2. PICK x : step' = [work.step EXCEPT ![next] = x] /\ Trims(work.step[next], x)
    BY <1>7, ExpandEndTrims
  <2>3. DOMAIN step' = DOMAIN work.step /\ \A i \in DOMAIN work.step : Trims(work.step[i], step'[i])
    BY <2>1, <2>2, OneTrims
  <2>4. Depths(step')
    BY <2>1, <2>3, TrimsDeep DEF Shallow
  <2> QED BY <2>1, <2>4 DEF Shallow, Depths
<1>8. CASE FailRun \/ Resume \/ CancelRun
  <2>1. node' # "expand" /\ DOMAIN step' = DOMAIN step
    BY <1>8 DEF FailRun, Resume, CancelRun
  <2>2. ASSUME NEW i \in DOMAIN step PROVE step'[i].depth = step[i].depth
    <3> DEFINE r == step[i]
    <3>1. \/ step'[i] = r \/ step'[i] = Mark(r, "pending", "none")
          \/ step'[i] = Mark(r, "failed", "WORKFLOW_ERROR")
          \/ step'[i] = WithStatus(r, "cancelled")
      BY <1>8 DEF Resume, FailRun, CancelRun
    <3>2. r \in Step
      BY <1>0, StatusOf
    <3> HIDE DEF r
    <3>3. step'[i].depth = r.depth
      BY <3>1, <3>2, RecordsDeep
    <3> QED BY <3>3 DEF r
  <2>3. Depths(step')
    BY <2>1, <2>2 DEF Shallow, Depths
  <2> QED BY <2>1, <2>3 DEF Shallow, Depths
<1> QED BY <1>1, <1>2, <1>3, <1>4, <1>5, <1>6, <1>7, <1>8 DEF Next, Graph, Worker, Expand

\* Requirements of requirements stop, however many the workers name.
THEOREM RequirementsStop == Spec => []DepthBounded
<1>1. Spec => []Shallow
  <2>1. Init => Shallow
    BY ShallowInit
  <2>2. IInv /\ Shallow /\ [Next]_vars => Shallow'
    BY ShallowNext
  <2> QED BY <2>1, <2>2, Invariance, PTL DEF Spec
<1>2. Shallow => DepthBounded
  BY DEF Shallow, Depths, DepthBounded, InMemory
<1> QED BY <1>1, <1>2, PTL

-----------------------------------------------------------------------------
(* Every node comes nearer to the end *)

Descends ==
  /\ node' \notin {"plan", "validate"}
  /\ \/ node' = "end"
     \/ node' = "failing" /\ node # "failing"
     \/ node' = "ending" /\ node \notin {"ending", "failing"}
     \/ LessLeft(InMemory, InMemory')
     \/ NoMoreLeft(InMemory, InMemory') /\ Distance' < Distance

LEMMA StepDescends ==
  ASSUME IInv, Shallow, Graph, node \notin {"plan", "validate"}
  PROVE  Descends
<1>0. step \in Seq(Step) /\ Depths(step)
  BY DEF IInv, TypeOK, Shallow
<1>1. CASE Schedule
  <2>1. /\ node = "schedule" /\ node' \in {"execute", "ending", "finalize"}
    BY <1>1 DEF Schedule, ScheduleExecute, ScheduleWait, ScheduleFinalize
  <2>2. NoMoreLeft(step, step')
    BY <1>1, ScheduleTrims, LeftKept
  <2>3. InMemory = step /\ (node' # "ending" => InMemory' = step')
    BY <2>1 DEF InMemory
  <2>4. node' # "ending" => Distance' < Distance
    BY <2>1 DEF Distance
  <2> QED BY <2>1, <2>2, <2>3, <2>4 DEF Descends
<1>2. CASE ExecuteNode
  <2>1. node = "execute" /\ node' = "worker" /\ step' = [step EXCEPT ![next] = Begin(step[next])]
    BY <1>2 DEF ExecuteNode
  <2>2. next \in DOMAIN step /\ step[next] \in Step /\ step[next].status = "ready"
    BY <1>0, <2>1, StatusOf DEF IInv, OneRuns
  <2> DEFINE x == Begin(step[next])
  <2>3. Trims(step[next], x)
    BY <2>2, RecordsTrimmed DEF Idle, StepTerminal, StepFailed
  <2>4. step' = [step EXCEPT ![next] = x]
    BY <2>1
  <2> HIDE DEF x
  <2>5. NoMoreLeft(step, step')
    BY <1>0, <2>2, <2>3, <2>4, OneTrims, LeftKept
  <2>6. InMemory = step /\ InMemory' = step' /\ Distance' < Distance
    BY <2>1 DEF InMemory, Distance
  <2> QED BY <2>1, <2>5, <2>6 DEF Descends
<1>3. CASE WorkerSucceeds \/ WorkerFails \/ WorkerAsksUser \/ WorkerRequiresInVain
  <2>1. node = "worker" /\ node' = "schedule"
    BY <1>3 DEF WorkerSucceeds, WorkerFails, WorkerAsksUser, WorkerRequiresInVain,
                SaveResult, FailRequirement
  <2>2. next \in DOMAIN step
    BY <2>1, AtWork
  <2>3. PICK x : /\ step' = [step EXCEPT ![next] = x]
                 /\ Trims(step[next], x) /\ UsesUp(step[next], x)
    BY <1>3, WorkerUsesUp
  <2>4. LessLeft(step, step')
    BY <1>0, <2>2, <2>3, OneUsesUp DEF Depths
  <2>5. InMemory = step /\ InMemory' = step'
    BY <2>1 DEF InMemory
  <2> QED BY <2>1, <2>4, <2>5 DEF Descends
<1>4. CASE WorkerRequires
  <2>1. /\ node = "worker" /\ node' = "expand" /\ work'.step = step
        /\ \E reqs \in ReqLists : work'.reqs = reqs
    BY <1>4 DEF WorkerRequires
  <2>2. work'.reqs # <<>>
    <3>1. PICK reqs \in ReqLists : work'.reqs = reqs
      BY <2>1
    <3>2. PICK n \in 1..MaxReqs : reqs \in [1..n -> Keys]
      BY DEF ReqLists
    <3>3. 1 \in DOMAIN reqs
      BY <3>2, DraftsAssumption
    <3> QED BY <3>1, <3>3
  <2>3. InMemory = step /\ InMemory' = step
    BY <2>1 DEF InMemory
  <2>4. NoMoreLeft(InMemory, InMemory')
    BY <2>3 DEF NoMoreLeft
  <2>5. Distance' < Distance
    BY <2>1, <2>2 DEF Distance
  <2> QED BY <2>1, <2>4, <2>5 DEF Descends
<1>5. CASE ExpandOne
  <2>1. node = "expand" /\ node' = "expand"
    BY <1>5 DEF ExpandOne
  <2>2. LessLeft(work.step, work'.step)
    BY <1>5, ExpandOneLess
  <2>3. InMemory = work.step /\ InMemory' = work'.step
    BY <2>1 DEF InMemory
  <2> QED BY <2>1, <2>2, <2>3 DEF Descends
<1>6. CASE ExpandFails \/ ExpandDone
  <2> DEFINE s == work.step
  <2>1. /\ node = "expand" /\ node' = "schedule" /\ s \in Seq(Step) /\ next \in DOMAIN s
        /\ Depths(s)
    BY <1>6, AtExpansion DEF ExpandFails, ExpandDone, FailRequirement, Shallow
  <2>2. InMemory = s /\ InMemory' = step'
    BY <2>1 DEF InMemory
  <2>3. PICK x : /\ step' = [s EXCEPT ![next] = x] /\ Trims(s[next], x)
                 /\ ExpandFails => UsesUp(s[next], x)
    BY <1>6, ExpandEndTrims
  <2> HIDE DEF s
  <2>4. CASE ExpandFails
    <3>1. LessLeft(s, step')
      BY <2>1, <2>3, <2>4, OneUsesUp DEF Depths
    <3> QED BY <2>1, <2>2, <3>1 DEF Descends
  <2>5. CASE ExpandDone
    <3>1. NoMoreLeft(s, step')
      BY <2>1, <2>3, OneTrims, LeftKept
    <3>2. Distance' < Distance
      BY <2>1, <2>5 DEF ExpandDone, Distance
    <3> QED BY <2>1, <2>2, <3>1, <3>2 DEF Descends
  <2> QED BY <1>6, <2>4, <2>5
<1>7. CASE FinalizeNode \/ GraphEnds \/ FailRun
  BY <1>7 DEF FinalizeNode, GraphEnds, FailRun, Descends
<1>8. CASE NodeRaises
  BY <1>8 DEF NodeRaises, Descends
<1>9. ~PlanNode /\ ~ValidateNode
  BY DEF PlanNode, ValidateNode
<1> QED BY <1>1, <1>2, <1>3, <1>4, <1>5, <1>6, <1>7, <1>8, <1>9 DEF Graph, Worker, Expand

\* For every plan, every depth and every number of requirements the graph comes nearer
\* to its end with every node.
THEOREM GraphComesDown == Spec => GraphDescends
<1>1. Spec => []Shallow
  <2>1. Init => Shallow
    BY ShallowInit
  <2>2. IInv /\ Shallow /\ [Next]_vars => Shallow'
    BY ShallowNext
  <2> QED BY <2>1, <2>2, Invariance, PTL DEF Spec
<1>2. IInv /\ Shallow =>
        (Graph /\ node \notin {"plan", "validate"} => Descends)
  BY StepDescends
<1>3. Spec => [][Graph /\ node \notin {"plan", "validate"} => Descends]_vars
  BY <1>1, <1>2, Invariance, PTL DEF Spec
<1> QED BY <1>3 DEF GraphDescends, Descends

-----------------------------------------------------------------------------
(* The walk of the scheduler *)

\* What the walk makes of place k, when it has blocked B before it.
Blocks(p, s, B, k) ==
  /\ s[p[k]].status \in Schedulable
  /\ \E d \in s[p[k]].depends_on :
        \/ Failed(s, d)
        \/ \E j \in 1..(k - 1) : j \in B /\ p[j] = d

LEMMA BlocksAlike ==
  ASSUME NEW p, NEW s, NEW B, NEW C, NEW k, \A j \in 1..(k - 1) : j \in B <=> j \in C
  PROVE  Blocks(p, s, B, k) <=> Blocks(p, s, C, k)
BY DEF Blocks

LEMMA WalkIsUnique ==
  ASSUME NEW p \in Seq(Nat), NEW s, NEW B \in SUBSET DOMAIN p, NEW C \in SUBSET DOMAIN p,
         IsBlockedSet(p, s, B), IsBlockedSet(p, s, C)
  PROVE  B = C
<1> DEFINE T == {k \in DOMAIN p : ~(k \in B <=> k \in C)}
<1>1. DOMAIN p = 1..Len(p) /\ Len(p) \in Nat
  BY LenProperties
<1>2. CASE T # {}
  <2>1. T \in SUBSET Nat
    BY <1>1
  <2>2. PICK k \in T : \A y \in T : k <= y
    BY <1>2, <2>1, LeastNat
  <2>3. \A j \in 1..(k - 1) : j \in B <=> j \in C
    <3>1. \A j \in 1..(k - 1) : j \in DOMAIN p /\ ~(k <= j)
      BY <1>1, <2>2
    <3> QED BY <2>2, <3>1
  <2>4. k \in DOMAIN p /\ (k \in B <=> Blocks(p, s, B, k)) /\ (k \in C <=> Blocks(p, s, C, k))
    BY <2>2 DEF IsBlockedSet, Blocks
  <2>5. k \in B <=> k \in C
    BY <2>3, <2>4, BlocksAlike
  <2> QED BY <2>2, <2>5
<1>3. CASE T = {}
  BY <1>3
<1> QED BY <1>2, <1>3

LEMMA WalkReturns ==
  ASSUME NEW p \in Seq(Nat), NEW s
  PROVE  \E B \in SUBSET DOMAIN p : IsBlockedSet(p, s, B)
<1> DEFINE Walked(n) == \E B \in SUBSET (1..n) : \A k \in 1..n : k \in B <=> Blocks(p, s, B, k)
           T == {n \in 0..Len(p) : ~Walked(n)}
<1>1. DOMAIN p = 1..Len(p) /\ Len(p) \in Nat
  BY LenProperties
<1>2. CASE T # {}
  <2>1. T \in SUBSET Nat
    BY <1>1
  <2>2. PICK n \in T : \A y \in T : n <= y
    BY <1>2, <2>1, LeastNat
  <2>3. Walked(0)
    <3>1. \A k \in 1..0 : FALSE
      OBVIOUS
    <3>2. {} \in SUBSET (1..0)
      OBVIOUS
    <3> QED BY <3>1, <3>2
  <2>4. n \in Nat /\ n # 0 /\ n - 1 \in 0..Len(p) /\ ~(n <= n - 1)
    <3>1. n \in 0..Len(p) /\ ~Walked(n)
      BY <2>2
    <3> HIDE DEF Walked, T
    <3>2. n # 0
      BY <2>3, <3>1
    <3> QED BY <1>1, <3>1, <3>2
  <2>5. Walked(n - 1)
    BY <2>2, <2>4
  <2>6. PICK B \in SUBSET (1..(n - 1)) :
          \A k \in 1..(n - 1) : k \in B <=> Blocks(p, s, B, k)
    BY <2>5
  <2> DEFINE C == {k \in 1..n : k \in B \/ (k = n /\ Blocks(p, s, B, n))}
  <2>7. \A k \in 1..n : \A j \in 1..(k - 1) : j \in 1..(n - 1) /\ j # n
    BY <2>4
  <2>8. \A k \in 1..n : \A j \in 1..(k - 1) : j \in B <=> j \in C
    BY <2>4, <2>7
  <2>9. \A k \in 1..n : Blocks(p, s, B, k) <=> Blocks(p, s, C, k)
    BY <2>8, BlocksAlike
  <2>10. n \notin B /\ \A k \in 1..n : k = n \/ k \in 1..(n - 1)
    BY <2>4, <2>6
  <2>11. \A k \in 1..n : k \in C <=> Blocks(p, s, B, k)
    BY <2>6, <2>10
  <2>12. C \in SUBSET (1..n)
    OBVIOUS
  <2> HIDE DEF C
  <2>13. Walked(n)
    BY <2>9, <2>11, <2>12
  <2> QED BY <2>2, <2>13
<1>3. CASE T = {}
  <2>1. Walked(Len(p))
    <3>1. Len(p) \in 0..Len(p)
      BY <1>1
    <3> QED BY <1>3, <3>1
  <2>2. PICK B \in SUBSET (1..Len(p)) : \A k \in 1..Len(p) : k \in B <=> Blocks(p, s, B, k)
    BY <2>1
  <2> QED BY <1>1, <2>2 DEF IsBlockedSet, Blocks
<1> QED BY <1>2, <1>3

\* If anything can be dispatched and nothing runs, the second loop finds the first.
LEMMA FirstIsFound ==
  ASSUME NEW p \in Seq(Nat), NEW s \in Seq(Step), Ordered(p, s), ~NothingToDispatch(s)
  PROVE  \E k \in DOMAIN p : IsFirstDispatchable(p, s, k)
<1> DEFINE T == {k \in DOMAIN p : Dispatchable(s, p[k])}
<1>1. DOMAIN p = 1..Len(p) /\ Len(p) \in Nat /\ DOMAIN s = 1..Len(s) /\ Len(s) = Len(p)
  BY LenProperties DEF Ordered
<1>2. PICK i \in DOMAIN s : Dispatchable(s, i)
  BY DEF NothingToDispatch
<1>3. T # {}
  <2>1. PICK k \in 1..Len(s) : p[k] = i
    BY <1>1, <1>2 DEF Ordered, Permutes
  <2> QED BY <1>1, <1>2, <2>1
<1>4. T \in SUBSET Nat
  BY <1>1
<1>5. PICK k \in T : \A y \in T : k <= y
  BY <1>3, <1>4, LeastNat
<1>6. \A j \in 1..(k - 1) : j \in DOMAIN p /\ ~(k <= j)
  BY <1>1, <1>5
<1>7. \A j \in 1..(k - 1) : ~Dispatchable(s, p[j])
  BY <1>5, <1>6
<1> QED BY <1>5, <1>7 DEF IsFirstDispatchable, NothingToDispatch

\* The scheduler always answers, and in one way.
THEOREM SchedulerDecides == Spec => []ScheduleDecides
<1>1. IInv => ScheduleDecides
  <2> SUFFICES ASSUME IInv, node = "schedule" PROVE ScheduleDecides
    BY DEF ScheduleDecides
  <2>1. plan \in Seq(Nat) /\ step \in Seq(Step) /\ Ordered(plan, step)
    BY DEF IInv, TypeOK, DepsPrecede
  <2>2. PICK B \in SUBSET DOMAIN plan : IsBlockedSet(plan, step, B)
    BY <2>1, WalkReturns
  <2>3. \A C \in SUBSET DOMAIN plan : IsBlockedSet(plan, step, C) <=> C = B
    BY <2>1, <2>2, WalkIsUnique
  <2> DEFINE b == Block(plan, step, B)
  <2>4. b \in Seq(Step) /\ SameDeps(step, b)
    BY <2>1, <2>2, BlockKeeps, BlockMovesOn
  <2>5. Ordered(plan, b)
    BY <2>1, <2>4, OrderedKept
  <2>6. NothingToDispatch(b) \/ \E k \in DOMAIN plan : IsFirstDispatchable(plan, b, k)
    BY <2>1, <2>4, <2>5, FirstIsFound
  <2> QED BY <2>3, <2>6 DEF ScheduleDecides
<1> QED BY <1>1, Invariance, PTL

-----------------------------------------------------------------------------
(* The run as the requests of a conversation see it (EngineRecord) *)

\* The steps of a row, and some of them turned to a state.
States(s) == [i \in DOMAIN s |-> StateOf(s[i])]

Turning(f, S, x) == [i \in DOMAIN f |-> IF i \in S THEN x ELSE f[i]]

AllOpen(n) == [i \in 1..n |-> "open"]

Rows == [status : RunStatus, rev : Nat, step : Seq(Record!StepState), waiting : Nat]

IsRow(r, a, f, w) == r \in Rows /\ r.status = a /\ r.rev = 0 /\ r.step = f /\ r.waiting = w

LEMMA SameRow ==
  ASSUME NEW r, NEW t, NEW a, NEW f, NEW w, IsRow(r, a, f, w), IsRow(t, a, f, w)
  PROVE  r = t
BY SMT DEF Rows, IsRow

LEMMA TurningIs ==
  ASSUME NEW f \in Seq(Record!StepState), NEW S, NEW x \in Record!StepState
  PROVE  Turning(f, S, x) \in Seq(Record!StepState) /\ DOMAIN Turning(f, S, x) = DOMAIN f
<1>1. DOMAIN f = 1..Len(f) /\ Len(f) \in Nat
  BY LenProperties
<1>2. Turning(f, S, x) \in [1..Len(f) -> Record!StepState]
  BY <1>1 DEF Turning
<1> QED BY <1>1, <1>2

LEMMA OpenedIs ==
  ASSUME NEW n \in Nat
  PROVE  AllOpen(n) \in Seq(Record!StepState)
<1>1. AllOpen(n) \in [1..n -> Record!StepState]
  BY DEF AllOpen, Record!StepState
<1> QED BY <1>1

LEMMA RowTurned ==
  ASSUME NEW r, NEW a, NEW f, NEW w, IsRow(r, a, f, w), NEW S, NEW x \in Record!StepState
  PROVE  IsRow(Record!Turned(r, S, x), a, Turning(f, S, x), w)
<1>1. f \in Seq(Record!StepState)
  BY DEF IsRow, Rows
<1>2. Turning(f, S, x) \in Seq(Record!StepState)
  BY <1>1, TurningIs
<1> DEFINE g == Turning(f, S, x)
           t == [r EXCEPT !.step = g]
<1> HIDE DEF g
<1>3. t \in Rows /\ t.status = a /\ t.rev = 0 /\ t.step = g /\ t.waiting = w
  BY <1>2 DEF IsRow, Rows, g
<1>4. Record!Turned(r, S, x) = t
  BY DEF Record!Turned, IsRow, g, Turning
<1> QED BY <1>3, <1>4 DEF IsRow, g

LEMMA RowGrown ==
  ASSUME NEW r, NEW a, NEW f, NEW w, IsRow(r, a, f, w), NEW n \in Nat
  PROVE  IsRow(Record!Grown(r, n), a, f \o AllOpen(n), w)
<1>1. f \in Seq(Record!StepState)
  BY DEF IsRow, Rows
<1> DEFINE g == f \o AllOpen(n)
           t == [r EXCEPT !.step = g]
<1>2. g \in Seq(Record!StepState)
  BY <1>1, OpenedIs
<1> HIDE DEF g
<1>3. t \in Rows /\ t.status = a /\ t.rev = 0 /\ t.step = g /\ t.waiting = w
  BY <1>2 DEF IsRow, Rows
<1>4. Record!Grown(r, n) = t
  BY DEF Record!Grown, IsRow, g, AllOpen
<1> QED BY <1>3, <1>4 DEF IsRow, g

LEMMA RowMarked ==
  ASSUME NEW r, NEW a, NEW f, NEW w, IsRow(r, a, f, w), NEW b \in RunStatus, NEW v \in Nat,
         NEW g \in Seq(Record!StepState)
  PROVE  /\ IsRow([r EXCEPT !.status = b, !.waiting = v], b, f, v)
         /\ IsRow([r EXCEPT !.status = b], b, f, w)
         /\ IsRow([r EXCEPT !.status = b, !.step = g], b, g, w)
BY DEF IsRow, Rows

LEMMA RowTyped ==
  ASSUME NEW r, NEW a, NEW f, NEW w, IsRow(r, a, f, w)
  PROVE  a \in RunStatus /\ f \in Seq(Record!StepState) /\ w \in Nat
BY DEF IsRow, Rows

LEMMA RowStepsIn ==
  ASSUME NEW r, NEW a, NEW f, NEW w, IsRow(r, a, f, w)
  PROVE  /\ \A x : Record!StepsIn(r, x) = {i \in DOMAIN f : f[i] = x}
         /\ Record!MayDecide(r) <=> \A i \in DOMAIN f : f[i] = "over"
BY DEF IsRow, Record!StepsIn, Record!MayDecide

\* What the requests see of a step.
LEMMA StateIs ==
  ASSUME NEW s, s.status \in StepStatus
  PROVE  /\ StateOf(s) = "open" <=> s.status \in Schedulable
         /\ StateOf(s) = "running" <=> s.status = "running"
         /\ StateOf(s) = "asking" <=> s.status = "waiting_user"
         /\ StateOf(s) = "over" <=> s.status \in StepTerminal
BY DEF StateOf, StepStatus, StepTerminal, StepFailed, Schedulable

LEMMA OpenState == \A s : s.status \in Schedulable => StateOf(s) = "open"
BY DEF StateOf, Schedulable, StepTerminal, StepFailed

LEMMA OverState == \A s : s.status \in StepTerminal => StateOf(s) = "over"
BY DEF StateOf, Schedulable, StepTerminal, StepFailed

LEMMA SameState == \A s, t : s.status = t.status => StateOf(s) = StateOf(t)
BY DEF StateOf

LEMMA StatesAre ==
  ASSUME NEW s \in Seq(Step)
  PROVE  /\ DOMAIN States(s) = DOMAIN s /\ DOMAIN s = 1..Len(s) /\ Len(s) \in Nat
         /\ States(s) \in Seq(Record!StepState)
         /\ \A i \in DOMAIN s :
              /\ States(s)[i] = "open" <=> s[i].status \in Schedulable
              /\ States(s)[i] = "running" <=> s[i].status = "running"
              /\ States(s)[i] = "asking" <=> s[i].status = "waiting_user"
              /\ States(s)[i] = "over" <=> s[i].status \in StepTerminal
<1>1. DOMAIN s = 1..Len(s) /\ Len(s) \in Nat
  BY LenProperties
<1>2. \A i \in DOMAIN s : s[i].status \in StepStatus
  BY StatusOf
<1>3. ASSUME NEW i \in DOMAIN s
      PROVE  StateOf(s[i]) \in Record!StepState
  BY <1>2 DEF StateOf, StepStatus, StepTerminal, StepFailed, Schedulable,
     Record!StepState
<1>4. States(s) \in [1..Len(s) -> Record!StepState]
  BY <1>1, <1>3 DEF States
<1>5. States(s) \in Seq(Record!StepState) /\ DOMAIN States(s) = DOMAIN s
  BY <1>1, <1>4
<1> QED BY <1>1, <1>2, <1>5, StateIs DEF States

LEMMA RowIs ==
  ASSUME IInv
  PROVE  IsRow(Row, status, States(step), waiting.step)
<1>1. status \in RunStatus /\ waiting.step \in Nat /\ step \in Seq(Step)
  BY DEF IInv, TypeOK, WaitingContext
<1>2. States(step) \in Seq(Record!StepState)
  BY <1>1, StatesAre
<1> QED BY <1>1, <1>2 DEF Row, IsRow, Rows, States

LEMMA RowIsNext ==
  ASSUME IInv'
  PROVE  IsRow(Row', status', States(step'), waiting'.step)
<1>1. status' \in RunStatus /\ waiting'.step \in Nat /\ step' \in Seq(Step)
  BY DEF IInv, TypeOK, WaitingContext
<1>2. States(step') \in Seq(Record!StepState)
  BY <1>1, StatesAre
<1> QED BY <1>1, <1>2 DEF Row, IsRow, Rows, States

\* The steps the scheduler blocks are open ones, and what it blocks is over.
LEMMA RowBlocked ==
  ASSUME IInv, NEW B \in SUBSET DOMAIN plan, IsBlockedSet(plan, step, B)
  PROVE  \E S \in SUBSET Record!StepsIn(Row, "open") :
           IsRow(Record!Turned(Row, S, "over"), status, States(Block(plan, step, B)),
                 waiting.step)
<1> DEFINE S == {i \in DOMAIN step : \E k \in B : plan[k] = i}
           b == Block(plan, step, B)
<1>1. step \in Seq(Step)
  BY DEF IInv, TypeOK
<1>2. /\ b \in Seq(Step) /\ DOMAIN b = DOMAIN step
      /\ \A i \in DOMAIN step : b[i].status = IF i \in S THEN "blocked" ELSE step[i].status
  BY <1>1, BlockKeeps
<1> HIDE DEF b
<1>3. \A i \in S : i \in DOMAIN step /\ step[i].status \in Schedulable
  BY DEF IsBlockedSet
<1> HIDE DEF S
<1>4. /\ DOMAIN States(step) = DOMAIN step /\ DOMAIN States(b) = DOMAIN step
      /\ \A i \in DOMAIN step :
           /\ States(step)[i] = "open" <=> step[i].status \in Schedulable
           /\ States(b)[i] = "over" <=> b[i].status \in StepTerminal
  BY <1>1, <1>2, StatesAre
<1>5. S \in SUBSET Record!StepsIn(Row, "open")
  BY <1>3, <1>4, RowIs, RowStepsIn
<1>6. States(b) = Turning(States(step), S, "over")
  <2>1. ASSUME NEW i \in DOMAIN step PROVE States(b)[i] = Turning(States(step), S, "over")[i]
    <3>1. CASE i \in S
      BY <1>2, <1>4, <3>1 DEF Turning, StepTerminal, StepFailed
    <3>2. CASE i \notin S
      BY <1>2, <1>4, <3>2, SameState DEF Turning, States
    <3> QED BY <3>1, <3>2
  <2> QED BY <1>4, <2>1 DEF Turning, States
<1>7. "over" \in Record!StepState
  BY DEF Record!StepState
<1>8. IsRow(Record!Turned(Row, S, "over"), status, States(b), waiting.step)
  BY <1>6, <1>7, RowIs, RowTurned
<1> QED BY <1>5, <1>8 DEF b

LEMMA Scheduling ==
  ASSUME NEW r, NEW S \in SUBSET Record!StepsIn(r, "open"),
         NEW to \in Record!Decisions(Record!Turned(r, S, "over"))
  PROVE  to \in Record!Scheduled(r)
BY DEF Record!Scheduled

LEMMA DispatchMakes ==
  ASSUME IInv, IInv', ScheduleExecute
  PROVE  NodeMakes
<1>1. PICK B \in SUBSET DOMAIN plan :
        /\ IsBlockedSet(plan, step, B)
        /\ \E k \in DOMAIN plan :
             /\ IsFirstDispatchable(plan, Block(plan, step, B), k)
             /\ step' = [Block(plan, step, B) EXCEPT ![plan[k]] = Ready(@)]
             /\ next' = plan[k]
  BY DEF ScheduleExecute
<1> DEFINE b == Block(plan, step, B)
<1>2. PICK k \in DOMAIN plan :
        /\ IsFirstDispatchable(plan, b, k)
        /\ step' = [b EXCEPT ![plan[k]] = Ready(b[plan[k]])] /\ next' = plan[k]
  BY <1>1
<1>3. node = "schedule" /\ step \in Seq(Step)
  BY DEF ScheduleExecute, IInv, TypeOK
<1>4. b \in Seq(Step) /\ DOMAIN b = DOMAIN step /\ plan \in Seq(Nat) /\ Ordered(plan, b)
  BY <1>1, <1>3, AtSchedule
<1>5. PICK S \in SUBSET Record!StepsIn(Row, "open") :
        IsRow(Record!Turned(Row, S, "over"), status, States(b), waiting.step)
  BY <1>1, RowBlocked
<1> DEFINE t == Record!Turned(Row, S, "over")
           i == plan[k]
           x == Ready(b[i])
<1> HIDE DEF b
<1>6. i \in DOMAIN b
  BY <1>4, LenProperties DEF Ordered, Permutes
<1>7. b[i] \in Step /\ b[i].status \in Schedulable /\ ~SomeStatus(b, "running")
  BY <1>2, <1>4, <1>6, StatusOf DEF IsFirstDispatchable, Dispatchable, Schedulable
<1>8. x.status = "ready"
  BY <1>7 DEF Ready, Mark, Step
<1> HIDE DEF i, x, t
<1>9. step' = [b EXCEPT ![i] = x] /\ next' = i
  BY <1>2 DEF i, x
<1>10. DOMAIN step' = DOMAIN b /\ step'[i] = x /\ \A j \in DOMAIN b : j # i => step'[j] = b[j]
  BY <1>6, <1>9
<1>11. States(step') = States(b)
  <2>1. ASSUME NEW j \in DOMAIN b PROVE StateOf(step'[j]) = StateOf(b[j])
    <3>1. CASE j = i
      BY <1>7, <1>8, <1>10, <3>1, OpenState DEF Schedulable
    <3>2. CASE j # i
      BY <1>10, <3>2
    <3> QED BY <3>1, <3>2
  <2> QED BY <1>10, <2>1 DEF States
<1>12. /\ DOMAIN States(b) = DOMAIN b /\ States(b)[i] = "open"
       /\ \A j \in DOMAIN b : States(b)[j] # "running"
  BY <1>4, <1>6, <1>7, StatesAre DEF SomeStatus
<1>13. IsRow(t, status, States(b), waiting.step)
  BY <1>5 DEF t
<1>14. i \in Record!StepsIn(t, "open") /\ Record!StepsIn(t, "running") = {} /\ ~Record!MayDecide(t)
  BY <1>6, <1>12, <1>13, RowStepsIn
<1>15. Record!To(Record!Dispatched(t), "execute", i) \in Record!Decisions(t)
  BY <1>14 DEF Record!Decisions
<1>16. /\ IsRow(Record!Dispatched(t), "running", States(b), 0)
  <2>1. "running" \in RunStatus /\ 0 \in Nat
    BY DEF RunStatus
  <2> QED BY <1>13, <2>1, RowMarked, RowTyped DEF Record!Dispatched
<1>17. IsRow(Row', "running", States(b), 0)
  <2>1. status' = "running" /\ waiting'.step = 0
    BY DEF ScheduleExecute, NoWait
  <2> QED BY <1>11, <2>1, RowIsNext
<1>18. Row' = Record!Dispatched(t)
  BY <1>16, <1>17, SameRow
<1>19. Place = "schedule" /\ Place' = "execute"
  BY <1>3 DEF ScheduleExecute, Place
<1> DEFINE to == Record!To(Record!Dispatched(t), "execute", i)
<1>20. to.run = Record!Dispatched(t) /\ to.place = "execute" /\ to.next = i
  BY DEF Record!To
<1> HIDE DEF to
<1>21. to \in Record!Scheduled(Row)
  BY <1>5, <1>15, Scheduling DEF to, t
<1> QED BY <1>9, <1>18, <1>19, <1>20, <1>21 DEF NodeMakes

LEMMA StopMakes ==
  ASSUME IInv, IInv', ScheduleWait \/ ScheduleFinalize
  PROVE  NodeMakes
<1>1. PICK B \in SUBSET DOMAIN plan :
        IsBlockedSet(plan, step, B) /\ step' = Block(plan, step, B)
  BY DEF ScheduleWait, ScheduleFinalize
<1>2. PICK S \in SUBSET Record!StepsIn(Row, "open") :
        IsRow(Record!Turned(Row, S, "over"), status, States(step'), waiting.step)
  BY <1>1, RowBlocked
<1> DEFINE t == Record!Turned(Row, S, "over")
<1>3. node = "schedule" /\ waiting' = waiting /\ step' \in Seq(Step) /\ status \notin RunTerminal
  BY DEF ScheduleWait, ScheduleFinalize, IInv, TypeOK, RunOpen, Active
<1>4. node' \in {"ending", "finalize"}
  BY DEF ScheduleWait, ScheduleFinalize
<1>5. \A i \in DOMAIN step' : step'[i].status # "running"
  BY <1>4 DEF IInv, OneRuns
<1> HIDE DEF t
<1>6. IsRow(t, status, States(step'), waiting.step)
  BY <1>2 DEF t
<1>7. /\ DOMAIN States(step') = DOMAIN step'
      /\ \A i \in DOMAIN step' :
           /\ States(step')[i] = "running" <=> step'[i].status = "running"
           /\ States(step')[i] = "asking" <=> step'[i].status = "waiting_user"
           /\ States(step')[i] = "over" <=> step'[i].status \in StepTerminal
  BY <1>3, StatesAre
<1>8. Record!StepsIn(t, "running") = {}
  BY <1>5, <1>6, <1>7, RowStepsIn
<1>9. IsRow(Row', status', States(step'), waiting.step)
  BY <1>3, RowIsNext
<1>10. CASE ScheduleWait
  <2>1. node' = "ending" /\ status' \in {status, "waiting_user"}
    BY <1>10 DEF ScheduleWait
  <2>2. status' = "waiting_user" /\ SomeStatus(step', "waiting_user")
    BY <1>3, <2>1 DEF IInv, NeverStranded, RunTerminal
  <2>3. PICK i \in DOMAIN step' : step'[i].status = "waiting_user"
    BY <2>2 DEF SomeStatus
  <2>4. i \in Record!StepsIn(t, "asking") /\ ~Record!MayDecide(t)
    <3>1. States(step')[i] = "asking"
      BY <1>7, <2>3
    <3> QED BY <1>6, <1>7, <2>3, <3>1, RowStepsIn
  <2> DEFINE to == Record!To(Record!Paused(t), "ending", 0)
  <2>5. to \in Record!Decisions(t)
    BY <1>8, <2>4 DEF Record!Decisions
  <2>6. to.run = Record!Paused(t) /\ to.place = "ending"
    BY DEF Record!To
  <2> HIDE DEF to
  <2>7. to \in Record!Scheduled(Row)
    BY <1>2, <2>5, Scheduling DEF t
  <2>8. IsRow(Record!Paused(t), "waiting_user", States(step'), waiting.step)
    <3>1. "waiting_user" \in RunStatus /\ 0 \in Nat
      BY DEF RunStatus
    <3> QED BY <1>6, <3>1, RowMarked, RowTyped DEF Record!Paused
  <2>9. Row' = Record!Paused(t)
    BY <1>9, <2>2, <2>8, SameRow
  <2>10. Place = "schedule" /\ Place' = "ending"
    BY <1>3, <2>1 DEF Place
  <2> QED BY <2>6, <2>7, <2>9, <2>10 DEF NodeMakes
<1>11. CASE ScheduleFinalize
  <2>1. node' = "finalize" /\ status' = status
    BY <1>11 DEF ScheduleFinalize
  <2>2. \A i \in DOMAIN step' : step'[i].status \in StepTerminal
    BY <2>1 DEF IInv, GuardNeverRefuses, MayFinalize
  <2>3. Record!MayDecide(t)
    BY <1>6, <1>7, <2>2, RowStepsIn
  <2> DEFINE to == Record!To(t, "finalize", 0)
  <2>4. to \in Record!Decisions(t)
    BY <1>8, <2>3 DEF Record!Decisions
  <2>5. to.run = t /\ to.place = "finalize"
    BY DEF Record!To
  <2> HIDE DEF to
  <2>6. to \in Record!Scheduled(Row)
    BY <1>2, <2>4, Scheduling DEF t
  <2>7. Row' = t
    BY <1>6, <1>9, <2>1, SameRow
  <2>8. Place = "schedule" /\ Place' = "finalize"
    BY <1>3, <2>1 DEF Place
  <2> QED BY <2>5, <2>6, <2>7, <2>8 DEF NodeMakes
<1> QED BY <1>10, <1>11

\* One step gets another status, and the todos behind are new.
LEMMA StatesTurned ==
  ASSUME NEW s \in Seq(Step), NEW t \in Seq(Step), NEW i \in DOMAIN s, NEW x \in Record!StepState,
         Len(s) <= Len(t), StateOf(t[i]) = x,
         \A j \in DOMAIN s : j # i => t[j].status = s[j].status,
         \A j \in DOMAIN t : j \notin DOMAIN s => t[j].status = "pending"
  PROVE  States(t) = Turning(States(s), {i}, x) \o AllOpen(Len(t) - Len(s))
<1> DEFINE f == Turning(States(s), {i}, x)
           m == Len(t) - Len(s)
           h == AllOpen(m)
           g == f \o h
<1>1. /\ Len(s) \in Nat /\ DOMAIN s = 1..Len(s) /\ Len(t) \in Nat /\ DOMAIN t = 1..Len(t)
      /\ m \in Nat /\ DOMAIN States(s) = DOMAIN s /\ States(s) \in Seq(Record!StepState)
  BY LenProperties, StatesAre
<1>2. f \in Seq(Record!StepState) /\ DOMAIN f = 1..Len(s)
  BY <1>1, TurningIs
<1>3. /\ h \in Seq(Record!StepState) /\ Len(h) = m
      /\ \A j \in 1..m : h[j] = "open"
  <2>1. AllOpen(m) \in [1..m -> Record!StepState]
    BY <1>1 DEF AllOpen, Record!StepState
  <2> QED BY <1>1, <2>1 DEF AllOpen
<1>4. /\ \A j \in DOMAIN s : f[j] = IF j = i THEN x ELSE StateOf(s[j])
  BY <1>1 DEF Turning, States
<1> HIDE DEF f, m, h
<1>5. Len(f) = Len(s)
  BY <1>1, <1>2, LenProperties
<1>6. /\ g \in Seq(Record!StepState) /\ Len(g) = Len(s) + m
      /\ \A j \in 1..(Len(s) + m) : g[j] = IF j <= Len(s) THEN f[j] ELSE h[j - Len(s)]
  <2>1. f \in Seq(Record!StepState) /\ h \in Seq(Record!StepState)
    BY <1>2, <1>3
  <2>2. /\ g \in Seq(Record!StepState) /\ Len(g) = Len(f) + Len(h)
        /\ \A j \in 1..(Len(f) + Len(h)) : g[j] = IF j <= Len(f) THEN f[j] ELSE h[j - Len(f)]
    BY <2>1, ConcatProperties
  <2> HIDE DEF g
  <2> QED BY <1>3, <1>5, <2>2
<1> HIDE DEF g
<1>7. DOMAIN g = 1..(Len(s) + m) /\ g \in [1..(Len(s) + m) -> Record!StepState]
  BY <1>6, LenProperties
<1>8. ASSUME NEW j \in 1..(Len(s) + m), ~(j <= Len(s)) PROVE g[j] = "open"
  <2>1. j - Len(s) \in 1..m
    BY <1>1, <1>8
  <2> QED BY <1>3, <1>6, <1>8, <2>1
<1>9. Len(s) + m = Len(t)
  BY <1>1 DEF m
<1>10. ASSUME NEW j \in DOMAIN t PROVE StateOf(t[j]) = g[j]
  <2>1. CASE j \in DOMAIN s
    <3>1. CASE j = i
      BY <1>1, <1>4, <1>6, <1>9, <1>7, <2>1, <3>1
    <3>2. CASE j # i
      BY <1>1, <1>4, <1>6, <1>9, <2>1, <3>2, SameState
    <3> QED BY <3>1, <3>2
  <2>2. CASE j \notin DOMAIN s
    <3>1. t[j].status \in Schedulable
      BY <2>2 DEF Schedulable
    <3> QED BY <1>1, <1>9, <1>8, <2>2, <3>1, OpenState
  <2> QED BY <2>1, <2>2
<1>11. States(t) = g
  BY <1>1, <1>9, <1>10, <1>7 DEF States
<1> QED BY <1>11 DEF g, f, m, h

\* While todos are inserted there is one as soon as there are no requirements left.
Planted == node = "expand" /\ work.reqs = <<>> => Len(step) < Len(work.step)

LEMMA PlantedNext ==
  ASSUME IInv, Planted, [Next]_vars
  PROVE  Planted'
<1>1. CASE WorkerRequires
  <2>1. PICK reqs \in ReqLists : work'.reqs = reqs
    BY <1>1 DEF WorkerRequires
  <2>2. PICK n \in 1..MaxReqs : reqs \in [1..n -> Keys]
    BY DEF ReqLists
  <2>3. 1 \in DOMAIN reqs /\ DOMAIN <<>> = {}
    BY <2>2
  <2> QED BY <2>1, <2>3 DEF Planted
<1>2. CASE ExpandOne
  <2>1. PICK m \in Nat \ {0} : Len(work'.step) = Len(work.step) + m
    BY <1>2, InsertedSteps
  <2>2. /\ Len(step) <= Len(work.step) /\ step' = step
        /\ Len(step) \in Nat /\ Len(work.step) \in Nat
    BY <1>2, LenProperties DEF ExpandOne, run, IInv, TypeOK, Expanding, Grown
  <2> QED BY <2>1, <2>2 DEF Planted
<1>3. CASE UNCHANGED vars
  BY <1>3 DEF vars, run, Planted
<1>4. CASE Next /\ ~WorkerRequires /\ ~ExpandOne
  <2>1. node' # "expand"
    BY <1>4 DEF Next, Graph, PlanNode, ValidateNode, Schedule, ScheduleExecute, ScheduleWait,
       ScheduleFinalize, ExecuteNode, Worker, WorkerSucceeds, WorkerFails, WorkerAsksUser,
       SaveResult, WorkerRequiresInVain, FailRequirement, Expand, ExpandFails, ExpandDone,
       FinalizeNode, GraphEnds, NodeRaises, FailRun, Disconnect, Resume, CancelRun, Over, vars
  <2> QED BY <2>1 DEF Planted
<1> QED BY <1>1, <1>2, <1>3, <1>4

\* Some steps get another status.
LEMMA StatesTogether ==
  ASSUME NEW s, NEW t, NEW S, NEW x, DOMAIN t = DOMAIN s,
         \A j \in DOMAIN s : IF j \in S THEN StateOf(t[j]) = x ELSE t[j].status = s[j].status
  PROVE  States(t) = Turning(States(s), S, x)
<1>1. \A j \in DOMAIN s : StateOf(t[j]) = IF j \in S THEN x ELSE StateOf(s[j])
  BY SameState
<1> QED BY <1>1 DEF States, Turning

\* The step at work is closed, or waits for the todos behind the last step.
LEMMA ReturnMakes ==
  ASSUME IInv, IInv', node \in {"worker", "expand"}, node' = "schedule",
         status' = status, waiting' = waiting, NEW x \in {"over", "open"},
         StateOf(step'[next]) = x, Len(step) <= Len(step'),
         x = "open" => Len(step) # Len(step'),
         \A j \in DOMAIN step : j # next => step'[j].status = step[j].status,
         \A j \in DOMAIN step' : j \notin DOMAIN step => step'[j].status = "pending"
  PROVE  NodeMakes
<1> DEFINE n == Len(step') - Len(step)
           t == Record!Turned(Row, {next}, x)
           f == Turning(States(step), {next}, x)
<1>1. /\ step \in Seq(Step) /\ step' \in Seq(Step) /\ next \in DOMAIN step
      /\ Len(step) \in Nat /\ Len(step') \in Nat
  BY AtWork, LenProperties DEF IInv, TypeOK
<1>2. x \in Record!StepState
  BY DEF Record!StepState
<1>3. n \in 0..n /\ n \in Nat /\ (x = "open" => n # 0)
  BY <1>1
<1>4. States(step') = f \o AllOpen(n)
  BY <1>1, <1>2, StatesTurned
<1>5. IsRow(t, status, f, waiting.step)
  BY <1>2, RowIs, RowTurned
<1> HIDE DEF f, t, n
<1>6. IsRow(Record!Grown(t, n), status, f \o AllOpen(n), waiting.step)
  BY <1>3, <1>5, RowGrown
<1>7. IsRow(Row', status, f \o AllOpen(n), waiting.step)
  BY <1>4, RowIsNext
<1>8. Row' = Record!Grown(t, n)
  BY <1>6, <1>7, SameRow
<1>9. Row' \in Record!Returned(Row, next, 0..n)
  BY <1>3, <1>8 DEF Record!Returned, Record!Closed, t
<1>10. Place = "worker" /\ Place' = "schedule"
  BY DEF Place
<1> QED BY <1>9, <1>10 DEF NodeMakes, From, n

LEMMA WorkerMakes ==
  ASSUME IInv, IInv', WorkerSucceeds \/ WorkerFails \/ WorkerRequiresInVain
  PROVE  NodeMakes
<1>1. node = "worker" /\ node' = "schedule" /\ status' = status /\ waiting' = waiting
  BY DEF WorkerSucceeds, WorkerFails, WorkerRequiresInVain, SaveResult, FailRequirement
<1>2. next \in DOMAIN step /\ step[next] \in Step /\ step \in Seq(Step)
  BY <1>1, AtWork
<1>3. PICK s : s.status \in StepTerminal /\ step' = [step EXCEPT ![next] = s]
  <2>1. CASE WorkerSucceeds
    <3>1. step' = [step EXCEPT ![next] = WithStatus(step[next], "succeeded")]
      BY <2>1 DEF WorkerSucceeds, SaveResult
    <3>2. WithStatus(step[next], "succeeded").status = "succeeded"
      BY <1>2 DEF WithStatus, Step
    <3> QED BY <3>1, <3>2 DEF StepTerminal
  <2>2. CASE WorkerFails \/ WorkerRequiresInVain
    <3>1. PICK code : step' = [step EXCEPT ![next] = Mark(step[next], "failed", code)]
      BY <2>2 DEF WorkerFails, SaveResult, WorkerRequiresInVain, FailRequirement
    <3>2. Mark(step[next], "failed", code).status = "failed"
      BY <1>2 DEF Mark, Step
    <3> QED BY <3>1, <3>2 DEF StepTerminal, StepFailed
  <2> QED BY <2>1, <2>2
<1>4. /\ Len(step') = Len(step) /\ DOMAIN step' = DOMAIN step /\ step'[next] = s
      /\ \A j \in DOMAIN step : j # next => step'[j] = step[j]
  BY <1>2, <1>3
<1>5. StateOf(step'[next]) = "over"
  BY <1>3, <1>4, OverState
<1>6. Len(step) \in Nat
  BY <1>2, LenProperties
<1> QED BY <1>1, <1>4, <1>5, <1>6, ReturnMakes

LEMMA ExpansionMakes ==
  ASSUME IInv, IInv', Planted, ExpandFails \/ ExpandDone
  PROVE  NodeMakes
<1>1. node = "expand" /\ node' = "schedule" /\ status' = status /\ waiting' = waiting
  BY DEF ExpandFails, FailRequirement, ExpandDone
<1>2. /\ work.step \in Seq(Step) /\ next \in DOMAIN work.step /\ work.step[next] \in Step
  BY <1>1, AtWorkFree
<1>3. /\ Len(step) <= Len(work.step)
      /\ \A j \in DOMAIN step : work.step[j].status = step[j].status
      /\ \A j \in DOMAIN work.step : j \notin DOMAIN step => work.step[j].status = "pending"
  BY <1>1 DEF IInv, Expanding, Grown
<1>4. next \in DOMAIN step /\ DOMAIN step \subseteq DOMAIN work.step
  <2>1. /\ DOMAIN step = 1..Len(step) /\ DOMAIN work.step = 1..Len(work.step)
        /\ Len(step) \in Nat /\ Len(work.step) \in Nat
    BY <1>2, LenProperties DEF IInv, TypeOK
  <2>2. next \in DOMAIN step
    BY <1>1, AtWork
  <2> QED BY <1>3, <2>1, <2>2
<1>5. ASSUME NEW s, step' = [work.step EXCEPT ![next] = s], NEW x \in {"over", "open"},
             StateOf(s) = x, x = "open" => Len(step) # Len(work.step)
      PROVE  NodeMakes
  <2>1. /\ Len(step') = Len(work.step) /\ DOMAIN step' = DOMAIN work.step /\ step'[next] = s
        /\ \A j \in DOMAIN work.step : j # next => step'[j] = work.step[j]
    BY <1>2, <1>5
  <2>2. /\ \A j \in DOMAIN step : j # next => step'[j].status = step[j].status
        /\ \A j \in DOMAIN step' : j \notin DOMAIN step => step'[j].status = "pending"
    BY <1>3, <1>4, <2>1
  <2> QED BY <1>1, <1>3, <1>5, <2>1, <2>2, ReturnMakes
<1>6. CASE ExpandFails
  <2> DEFINE s == Mark(work.step[next], "failed", "REQUIREMENT_PLANNING_FAILED")
  <2>1. s.status \in StepTerminal
    BY <1>2 DEF Mark, Step, StepTerminal, StepFailed
  <2>2. step' = [work.step EXCEPT ![next] = s]
    BY <1>6 DEF ExpandFails, FailRequirement
  <2> HIDE DEF s
  <2> QED BY <1>5, <2>1, <2>2, OverState
<1>7. CASE ExpandDone
  <2> DEFINE s == AwaitTodos(work.step[next], work.inherited)
  <2>1. s.status \in Schedulable
    BY <1>2 DEF AwaitTodos, Step, Schedulable
  <2>2. step' = [work.step EXCEPT ![next] = s] /\ work.reqs = <<>>
    BY <1>7 DEF ExpandDone
  <2> HIDE DEF s
  <2>3. Len(step) # Len(work.step)
    <3>1. Len(step) \in Nat /\ Len(work.step) \in Nat
      BY <1>2, LenProperties DEF IInv, TypeOK
    <3> QED BY <1>1, <2>2, <3>1 DEF Planted
  <2> QED BY <1>5, <2>1, <2>2, <2>3, OpenState
<1> QED BY <1>6, <1>7

\* A run some of whose steps are turned, with another status and question.
LEMMA TurnedAndMarked ==
  ASSUME IInv, IInv', NEW S, NEW x \in Record!StepState, NEW b \in RunStatus, NEW v \in Nat,
         status' = b, waiting'.step = v, DOMAIN step' = DOMAIN step,
         \A j \in DOMAIN step :
           IF j \in S THEN StateOf(step'[j]) = x ELSE step'[j].status = step[j].status
  PROVE  Row' = [Record!Turned(Row, S, x) EXCEPT !.status = b, !.waiting = v]
<1> DEFINE t == Record!Turned(Row, S, x)
           f == Turning(States(step), S, x)
<1>1. States(step') = f
  BY StatesTogether
<1>2. IsRow(t, status, f, waiting.step)
  BY RowIs, RowTurned
<1> HIDE DEF f, t
<1>3. IsRow([t EXCEPT !.status = b, !.waiting = v], b, f, v)
  BY <1>2, RowMarked, RowTyped
<1>4. IsRow(Row', b, f, v)
  BY <1>1, RowIsNext
<1>5. Row' = [t EXCEPT !.status = b, !.waiting = v]
  BY <1>3, <1>4, SameRow
<1> QED BY <1>5 DEF t

LEMMA AskMakes ==
  ASSUME IInv, IInv', WorkerAsksUser
  PROVE  NodeMakes
<1> DEFINE s == WithStatus(step[next], "waiting_user")
<1>1. /\ node = "worker" /\ node' = "schedule" /\ status' = "waiting_user"
      /\ waiting'.step = next /\ step' = [step EXCEPT ![next] = s]
  BY DEF WorkerAsksUser, SaveResult
<1>2. next \in DOMAIN step /\ next \in Nat /\ step[next] \in Step /\ step \in Seq(Step)
  BY <1>1, AtWork
<1>3. s.status = "waiting_user"
  BY <1>2 DEF WithStatus, Step
<1> HIDE DEF s
<1>4. DOMAIN step' = DOMAIN step /\ step'[next] = s /\ \A j \in DOMAIN step : j # next => step'[j] = step[j]
  BY <1>1, <1>2
<1>5. StateOf(s) = "asking"
  BY <1>3, StateIs DEF StepStatus
<1>6. "asking" \in Record!StepState /\ "waiting_user" \in RunStatus
  BY DEF Record!StepState, RunStatus
<1>7. \A j \in DOMAIN step :
        IF j \in {next} THEN StateOf(step'[j]) = "asking" ELSE step'[j].status = step[j].status
  BY <1>4, <1>5
<1> DEFINE S == {next}
           v == next
<1> HIDE DEF S, v
<1>8. Row' = [Record!Turned(Row, S, "asking") EXCEPT !.status = "waiting_user", !.waiting = v]
  <2>1. v \in Nat /\ waiting'.step = v
    BY <1>1, <1>2 DEF v
  <2>2. \A j \in DOMAIN step :
          IF j \in S THEN StateOf(step'[j]) = "asking" ELSE step'[j].status = step[j].status
    BY <1>7 DEF S
  <2>3. status' = "waiting_user" /\ DOMAIN step' = DOMAIN step
    BY <1>1, <1>4
  <2> QED BY <1>6, <2>1, <2>2, <2>3, TurnedAndMarked
<1>9. Row' \in Record!Returned(Row, next, 0..(Len(step') - Len(step)))
  BY <1>8 DEF Record!Returned, Record!Asked, S, v
<1>10. Place = "worker" /\ Place' = "schedule"
  BY <1>1 DEF Place
<1> QED BY <1>9, <1>10 DEF NodeMakes, From

LEMMA StartMakes ==
  ASSUME IInv, IInv', ExecuteNode
  PROVE  NodeMakes
<1> DEFINE s == Begin(step[next])
           t == Record!Turned(Row, {next}, "running")
           f == Turning(States(step), {next}, "running")
<1>1. /\ node = "execute" /\ node' = "worker" /\ next' = next /\ status' = status
      /\ waiting' = waiting /\ step' = [step EXCEPT ![next] = s]
  BY DEF ExecuteNode
<1>2. next \in DOMAIN step /\ step[next] \in Step /\ step \in Seq(Step)
  BY <1>1, StatusOf DEF IInv, OneRuns, TypeOK
<1>3. s.status = "running"
  BY <1>2 DEF Begin, Step
<1> HIDE DEF s
<1>4. DOMAIN step' = DOMAIN step /\ step'[next] = s /\ \A j \in DOMAIN step : j # next => step'[j] = step[j]
  BY <1>1, <1>2
<1>5. StateOf(s) = "running" /\ "running" \in Record!StepState
  BY <1>3, StateIs DEF StepStatus, Record!StepState
<1>6. States(step') = f
  BY <1>4, <1>5, StatesTogether
<1>7. IsRow(t, status, f, waiting.step)
  BY <1>5, RowIs, RowTurned
<1> HIDE DEF f, t
<1>8. Row' = t
  BY <1>1, <1>6, <1>7, RowIsNext, SameRow
<1>9. Place = "execute" /\ Place' = "worker"
  BY <1>1 DEF Place
<1> QED BY <1>1, <1>8, <1>9 DEF NodeMakes, From, Record!Started, t

LEMMA FinishMakes ==
  ASSUME IInv, IInv', FinalizeNode
  PROVE  NodeMakes
<1>1. /\ node = "finalize" /\ node' = "ending" /\ MayFinalize(step) /\ status' = FinalStatus(step)
      /\ waiting'.step = 0 /\ step' = step
  BY DEF FinalizeNode, NoWait
<1>2. FinalStatus(step) \in Record!Verdict /\ FinalStatus(step) \in RunStatus
  BY DEF FinalStatus, Record!Verdict, RunStatus, RunTerminal
<1>3. /\ DOMAIN States(step) = DOMAIN step
      /\ \A i \in DOMAIN step : States(step)[i] = "over"
  BY <1>1, StatesAre DEF IInv, TypeOK, MayFinalize
<1>4. Record!MayDecide(Row)
  BY <1>3, RowIs, RowStepsIn
<1> DEFINE v == FinalStatus(step)
<1> HIDE DEF v
<1>5. IsRow(Record!Decided(Row, v), v, States(step), 0)
  BY <1>2, RowIs, RowMarked, RowTyped DEF Record!Decided, v
<1>6. IsRow(Row', v, States(step), 0)
  BY <1>1, RowIsNext DEF v
<1>7. Row' = Record!Decided(Row, v)
  BY <1>5, <1>6, SameRow
<1>8. Place = "finalize" /\ Place' = "ending"
  BY <1>1 DEF Place
<1> QED BY <1>2, <1>4, <1>7, <1>8 DEF NodeMakes, From, v

LEMMA FailMakes ==
  ASSUME IInv, IInv', FailRun
  PROVE  NodeMakes
<1> DEFINE S == Record!StepsIn(Row, "running")
<1>1. /\ node = "failing" /\ node' = "end" /\ status' = "failed" /\ waiting'.step = 0
      /\ DOMAIN step' = DOMAIN step
      /\ \A i \in DOMAIN step :
           step'[i] = IF step[i].status = "running"
                      THEN Mark(step[i], "failed", "WORKFLOW_ERROR") ELSE step[i]
  BY DEF FailRun, NoWait
<1>2. /\ step \in Seq(Step) /\ DOMAIN States(step) = DOMAIN step
      /\ \A i \in DOMAIN step : States(step)[i] = "running" <=> step[i].status = "running"
  BY StatesAre DEF IInv, TypeOK
<1>3. S = {i \in DOMAIN step : step[i].status = "running"}
  BY <1>2, RowIs, RowStepsIn
<1> HIDE DEF S
<1>4. ASSUME NEW i \in DOMAIN step
      PROVE  IF i \in S THEN StateOf(step'[i]) = "over" ELSE step'[i].status = step[i].status
  <2>1. CASE i \in S
    <3>1. Mark(step[i], "failed", "WORKFLOW_ERROR").status \in StepTerminal
      BY <1>2, StatusOf DEF Mark, Step, StepTerminal, StepFailed
    <3> QED BY <1>1, <1>3, <2>1, <3>1, OverState
  <2>2. CASE i \notin S
    BY <1>1, <1>3, <2>2
  <2> QED BY <2>1, <2>2
<1>5. "over" \in Record!StepState /\ "failed" \in RunStatus /\ 0 \in Nat
  BY DEF Record!StepState, RunStatus, RunTerminal
<1>6. Row' = Record!GivenUp(Row)
  BY <1>1, <1>4, <1>5, TurnedAndMarked DEF Record!GivenUp, S
<1>7. Place = "fail" /\ Place' = "over"
  BY <1>1 DEF Place
<1> QED BY <1>6, <1>7 DEF NodeMakes, From

LEMMA PlanMakes ==
  ASSUME IInv, IInv', ValidateNode
  PROVE  NodeMakes
<1> DEFINE n == Len(step')
<1>1. /\ node = "validate" /\ node' = "schedule" /\ waiting' = waiting /\ status' = "running"
  BY DEF ValidateNode
<1>2. /\ DOMAIN step' # {} /\ \A i \in DOMAIN step' : step'[i].status = "pending"
  BY PlannedSteps
<1>3. n \in Nat /\ DOMAIN step' = 1..n
  BY LenProperties DEF IInv, TypeOK
<1>4. n \in DOMAIN step'
  BY <1>2, <1>3
<1>5. States(step') = AllOpen(n)
  <2>1. \A i \in DOMAIN step' : StateOf(step'[i]) = "open"
    BY <1>2, OpenState DEF Schedulable
  <2> QED BY <1>3, <2>1 DEF States, AllOpen
<1> HIDE DEF n
<1>6. "running" \in RunStatus /\ AllOpen(n) \in Seq(Record!StepState) /\ 0 \in Nat
  BY <1>3, OpenedIs DEF RunStatus
<1>7. IsRow(Record!Planned(Row, n), "running", AllOpen(n), waiting.step)
  BY <1>6, RowIs, RowMarked DEF Record!Planned, AllOpen
<1>8. Row' = Record!Planned(Row, n)
  BY <1>1, <1>5, <1>7, RowIsNext, SameRow
<1>9. Place = "validate" /\ Place' = "schedule"
  BY <1>1 DEF Place
<1> QED BY <1>4, <1>8, <1>9 DEF NodeMakes, From

LEMMA UserActs ==
  ASSUME IInv, IInv', Resume \/ CancelRun
  PROVE  UserMakes
<1>1. step \in Seq(Step) /\ node \in {"end", "lost"} /\ Place = "over"
  BY DEF IInv, TypeOK, Resume, CancelRun, Place
<1>2. /\ Row.status = status /\ Row.waiting = waiting.step
      /\ Row.step = States(step) /\ DOMAIN States(step) = DOMAIN step
  BY RowIs, <1>1, StatesAre DEF IsRow
<1>3. CASE Resume
  <2> DEFINE i == waiting.step
             s == Mark(step[i], "pending", "none")
  <2>1. /\ status = "waiting_user" /\ waiting # NoWait /\ node' = "schedule"
        /\ status' = "running" /\ waiting'.step = 0 /\ step' = [step EXCEPT ![i] = s]
    BY <1>3 DEF Resume, NoWait
  <2>2. i \in DOMAIN step /\ i \in Nat /\ i # 0 /\ step[i] \in Step
    BY <1>1, <2>1, StatusOf, LenProperties DEF IInv, WaitingIsTrue
  <2>3. s.status \in Schedulable
    BY <2>2 DEF Mark, Step, Schedulable
  <2> HIDE DEF s, i
  <2>4. DOMAIN step' = DOMAIN step /\ step'[i] = s /\ \A j \in DOMAIN step : j # i => step'[j] = step[j]
    BY <1>1, <2>1, <2>2
  <2>5. \A j \in DOMAIN step :
          IF j \in {i} THEN StateOf(step'[j]) = "open" ELSE step'[j].status = step[j].status
    BY <2>3, <2>4, OpenState
  <2>6. "open" \in Record!StepState /\ "running" \in RunStatus /\ 0 \in Nat
    BY DEF Record!StepState, RunStatus
  <2>7. Row' = [Record!Turned(Row, {i}, "open") EXCEPT !.status = "running", !.waiting = 0]
    BY <2>1, <2>4, <2>5, <2>6, TurnedAndMarked
  <2>8. Row' = Record!Resumed(Row) /\ Record!MayResume(Row)
    BY <1>2, <2>1, <2>2, <2>7 DEF Record!Resumed, Record!MayResume, i
  <2>9. Place' = "schedule"
    BY <2>1 DEF Place
  <2> QED BY <1>1, <2>8, <2>9 DEF UserMakes, From
<1>4. CASE CancelRun
  <2>1. /\ status \notin RunTerminal /\ node' = "end" /\ status' = "cancelled"
        /\ waiting'.step = 0 /\ DOMAIN step' = DOMAIN step
        /\ \A i \in DOMAIN step :
             step'[i] = IF step[i].status \in StepTerminal THEN step[i]
                        ELSE WithStatus(step[i], "cancelled")
    BY <1>4 DEF CancelRun, NoWait
  <2>2. ASSUME NEW i \in DOMAIN step PROVE StateOf(step'[i]) = "over"
    <3>1. CASE step[i].status \in StepTerminal
      BY <2>1, <3>1, OverState
    <3>2. CASE step[i].status \notin StepTerminal
      <4>1. WithStatus(step[i], "cancelled").status \in StepTerminal
        BY <1>1, StatusOf DEF WithStatus, Step, StepTerminal, StepFailed
      <4> QED BY <2>1, <3>2, <4>1, OverState
    <3> QED BY <3>1, <3>2
  <2>3. "over" \in Record!StepState /\ "cancelled" \in RunStatus /\ 0 \in Nat
    BY DEF Record!StepState, RunStatus, RunTerminal
  <2>4. Row' = [Record!Turned(Row, DOMAIN step, "over")
                  EXCEPT !.status = "cancelled", !.waiting = 0]
    <3> DEFINE S == DOMAIN step
    <3>1. \A i \in DOMAIN step :
            IF i \in S THEN StateOf(step'[i]) = "over" ELSE step'[i].status = step[i].status
      BY <2>2
    <3> HIDE DEF S
    <3>2. Row' = [Record!Turned(Row, S, "over") EXCEPT !.status = "cancelled", !.waiting = 0]
      BY <2>1, <2>3, <3>1, TurnedAndMarked
    <3> QED BY <3>2 DEF S
  <2>5. Row' = Record!Cancelled(Row)
    BY <1>2, <2>4 DEF Record!Cancelled
  <2>6. Record!IsOpen(Row)
    BY <1>2, <2>1 DEF Record!IsOpen, Record!Status, Record!Terminal, IInv, TypeOK,
       RunStatus, RunTerminal
  <2>7. Place' = "over"
    BY <2>1 DEF Place
  <2> QED BY <1>1, <2>5, <2>6, <2>7 DEF UserMakes, From
<1> QED BY <1>3, <1>4

\* The actions that save the run, and those that do not.
LEMMA RecordChange ==
  ASSUME IInv, IInv', Planted,
         ValidateNode \/ Schedule \/ ExecuteNode \/ WorkerSucceeds \/ WorkerFails \/ WorkerAsksUser
           \/ WorkerRequiresInVain \/ ExpandFails \/ ExpandDone \/ FinalizeNode \/ FailRun
           \/ Resume \/ CancelRun
  PROVE  NodeMakes \/ UserMakes
<1>1. CASE ValidateNode
  BY <1>1, PlanMakes
<1>2. CASE Schedule
  BY <1>2, DispatchMakes, StopMakes DEF Schedule
<1>3. CASE ExecuteNode
  BY <1>3, StartMakes
<1>4. CASE WorkerSucceeds \/ WorkerFails \/ WorkerRequiresInVain
  BY <1>4, WorkerMakes
<1>5. CASE WorkerAsksUser
  BY <1>5, AskMakes
<1>6. CASE ExpandFails \/ ExpandDone
  BY <1>6, ExpansionMakes
<1>7. CASE FinalizeNode
  BY <1>7, FinishMakes
<1>8. CASE FailRun
  BY <1>8, FailMakes
<1>9. CASE Resume \/ CancelRun
  BY <1>9, UserActs
<1> QED BY <1>1, <1>2, <1>3, <1>4, <1>5, <1>6, <1>7, <1>8, <1>9

LEMMA RecordKept ==
  ASSUME PlanNode \/ WorkerRequires \/ ExpandOne \/ GraphEnds \/ NodeRaises \/ Disconnect \/ Over
           \/ UNCHANGED vars
  PROVE  BreaksOff \/ UNCHANGED <<Row, Place>>
<1>1. Row' = Row
  BY DEF PlanNode, WorkerRequires, ExpandOne, GraphEnds, NodeRaises, Disconnect, Over, vars, run, Row
<1>2. CASE GraphEnds \/ NodeRaises \/ Disconnect
  <2>1. Place' = "over" \/ (Place' = "fail" /\ Place # "over")
    BY <1>2 DEF GraphEnds, NodeRaises, Disconnect, Active, Place
  <2> QED BY <1>1, <2>1 DEF BreaksOff
<1>3. CASE PlanNode \/ WorkerRequires \/ ExpandOne \/ Over \/ UNCHANGED vars
  <2>1. Place' = Place
    BY <1>3 DEF PlanNode, WorkerRequires, ExpandOne, Over, vars, Place
  <2> QED BY <1>1, <2>1
<1> QED BY <1>2, <1>3

LEMMA RecordStep ==
  ASSUME IInv, IInv', Planted, [Next]_vars
  PROVE  [NodeMakes \/ BreaksOff \/ UserMakes]_<<Row, Place>>
BY RecordChange, RecordKept DEF Next, Graph, Worker, Expand

LEMMA RecordInit == Init => Row = Record!NewRun /\ Planted
<1> SUFFICES ASSUME Init PROVE Row = Record!NewRun /\ Planted
  OBVIOUS
<1>1. States(step) = <<>> /\ status = "planning" /\ waiting.step = 0 /\ node = "plan"
  BY DEF Init, States, NoWait
<1>2. Row = [status |-> "planning", rev |-> 0, step |-> <<>>, waiting |-> 0]
  BY <1>1 DEF Row, States
<1>3. Record!NewRun = [status |-> "planning", rev |-> 0, step |-> <<>>, waiting |-> 0]
  BY DEF Record!NewRun, Record!NoRun
<1> QED BY <1>1, <1>2, <1>3 DEF Planted

\* The engine does with the persisted run no more than RunSessions lets a request do,
\* also when a node fails after the last save of a run (engine.py: a verdict or a pause
\* whose event cannot be written is overwritten by _fail_run).
THEOREM EngineKeepsRecord == Spec => KeepsRecord
<1>1. Spec => []Planted
  <2>1. Init => Planted
    BY RecordInit
  <2>2. IInv /\ Planted /\ [Next]_vars => Planted'
    BY PlantedNext
  <2> QED BY <2>1, <2>2, Invariance, PTL DEF Spec
<1>2. IInv /\ IInv' /\ Planted /\ [Next]_vars
        => [NodeMakes \/ BreaksOff \/ UserMakes]_<<Row, Place>>
  BY RecordStep
<1>3. Init => Row = Record!NewRun
  BY RecordInit
<1>4. Spec => Row = Record!NewRun /\ [][NodeMakes \/ BreaksOff \/ UserMakes]_<<Row, Place>>
  BY <1>1, <1>2, <1>3, Invariance, PTL DEF Spec
<1> QED BY <1>4 DEF KeepsRecord
=============================================================================
