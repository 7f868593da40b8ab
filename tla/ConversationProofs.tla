------------------------- MODULE ConversationProofs -------------------------
(***************************************************************************)
(* Nothing is forgotten and nothing repeated from one run of a thread to   *)
(* the next one, for every plan, every worker and any number of runs.      *)
(***************************************************************************)
EXTENDS Conversation, WorkflowEngineProofs

\* The error of a step says why it is over, and of a step that is not it says nothing:
\* what Recoverable can tell from it.
Clean(s) ==
  /\ s.status \notin StepTerminal => s.error = "none"
  /\ s.status = "blocked" => s.error = "DEPENDENCY_FAILED"
  /\ s.status = "failed" => s.error \notin {"none", "DEPENDENCY_FAILED"}

\* The steps keep their owners, and those that are new have one.
Inherits(s, t) ==
  /\ DOMAIN s \subseteq DOMAIN t /\ (DOMAIN t # {} => DOMAIN s # {})
  /\ \A i \in DOMAIN s : t[i].owner = s[i].owner
  /\ \A i \in DOMAIN t : Clean(t[i])
  /\ \A i \in DOMAIN t : i \notin DOMAIN s => t[i].owner # NoOwner

Distinct == \A i, j \in DOMAIN todo : todo[i] = todo[j] => i = j

Known ==
  \A i \in DOMAIN step : Clean(step[i]) /\ (step[i].owner = NoOwner => i \in DOMAIN todo)

\* The draft has a todo for everything owed, and for no other task of the user.
Aligned ==
  node = "validate" =>
    /\ DOMAIN todo = 1..Len(draft)
    /\ \A t \in owed : \E i \in DOMAIN todo : todo[i] = t
    /\ \A i \in DOMAIN todo : todo[i] \in owed \cup {Help}

Growing == node = "expand" => Inherits(step, work.step)

\* Everything owed has a step that the next run will recover, ...
Carried ==
  step # <<>> => \A t \in owed : \E i \in DOMAIN step : TaskOf(i) = t /\ Recoverable(step[i])

\* ... and such a step is for something owed.
Settled ==
  \A i \in DOMAIN step : Recoverable(step[i]) => TaskOf(i) \in owed \cup {Help}

TInv ==
  /\ IInv /\ ThreadTypeOK
  /\ Distinct /\ Known /\ Aligned /\ Growing /\ Carried /\ Settled
  /\ NothingForgotten /\ NothingRepeated

-----------------------------------------------------------------------------
(* What an update leaves of a step *)

LEMMA UpdatedStep ==
  ASSUME NEW s \in Step, NEW st \in StepStatus, NEW e \in ErrorCode
  PROVE  /\ WithStatus(s, st).owner = s.owner /\ WithStatus(s, st).error = s.error
         /\ WithStatus(s, st).status = st
         /\ Mark(s, st, e).owner = s.owner /\ Mark(s, st, e).error = e
         /\ Mark(s, st, e).status = st
  BY DEF WithStatus, Mark, Step

LEMMA BegunStep ==
  ASSUME NEW s \in Step
  PROVE  Begin(s).owner = s.owner /\ Begin(s).error = s.error /\ Begin(s).status = "running"
<1>1. s.attempts + 1 \in Nat
  BY DEF Step
<1>2. \A n \in Nat : LET t == [s EXCEPT !.status = "running", !.attempts = n] IN
        t.owner = s.owner /\ t.error = s.error /\ t.status = "running"
  BY DEF Step
<1> QED BY <1>1, <1>2 DEF Begin

LEMMA ExpandedStep ==
  ASSUME NEW s \in Step, NEW key \in Keys
  PROVE  /\ Remember(s, key).owner = s.owner /\ Remember(s, key).error = s.error
         /\ Remember(s, key).status = s.status
  BY DEF Remember, Step

LEMMA AwaitingStep ==
  ASSUME NEW s \in Step, NEW ids \in SUBSET Nat
  PROVE  /\ AwaitTodos(s, ids).owner = s.owner /\ AwaitTodos(s, ids).error = s.error
         /\ AwaitTodos(s, ids).status = "waiting_dependency"
  BY DEF AwaitTodos, Step

LEMMA NonEmpty ==
  ASSUME NEW s \in Seq(Step), s # <<>>
  PROVE  DOMAIN s # {}
<1> DEFINE n == Len(s)
<1>1. DOMAIN s = 1..n /\ n \in Nat \ {0}
  BY EmptySeq, LenProperties
<1> HIDE DEF n
<1>2. 1 \in 1..n
  BY <1>1
<1> QED BY <1>1, <1>2

LEMMA InheritsItself == ASSUME Known PROVE Inherits(step, step)
BY DEF Known, Inherits

\* One more step of a table that has inherited is updated.
LEMMA InheritsUpdate ==
  ASSUME NEW s, NEW w, Inherits(s, w), NEW i \in DOMAIN w, NEW x,
         x.owner = w[i].owner, Clean(x), NEW t, t = [w EXCEPT ![i] = x]
  PROVE  Inherits(s, t)
<1>1. DOMAIN t = DOMAIN w /\ t[i] = x /\ \A j \in DOMAIN w : j # i => t[j] = w[j]
  OBVIOUS
<1>2. \A j \in DOMAIN t : Clean(t[j]) /\ t[j].owner = w[j].owner
  BY <1>1 DEF Inherits
<1> QED BY <1>1, <1>2 DEF Inherits

\* The new steps of a draft.
LEMMA AddedSteps ==
  ASSUME NEW s \in Seq(Step), NEW d \in Seq(Todo(STRING)), NEW owner, NEW key, NEW depth,
         NEW inherited, NEW a, a = AddSteps(s, d, owner, key, depth, inherited)
  PROVE  /\ DOMAIN s \subseteq DOMAIN a /\ DOMAIN a = 1..(Len(s) + Len(d))
         /\ \A i \in DOMAIN s : a[i] = s[i]
         /\ \A i \in DOMAIN a : i \notin DOMAIN s =>
              a[i].owner = owner /\ a[i].status = "pending" /\ a[i].error = "none"
<1>1. Len(s) \in Nat /\ DOMAIN s = 1..Len(s) /\ Len(d) \in Nat
  BY LenProperties
<1>2. a = [i \in 1..(Len(s) + Len(d)) |->
             IF i <= Len(s) THEN s[i]
             ELSE MakeStep(d, i - Len(s), Len(s), owner, key, depth, inherited)]
  BY DEF AddSteps
<1>3. \A i : LET m == MakeStep(d, i, Len(s), owner, key, depth, inherited) IN
        m.owner = owner /\ m.status = "pending" /\ m.error = "none"
  BY DEF MakeStep
<1>4. DOMAIN a = 1..(Len(s) + Len(d)) /\ DOMAIN s \subseteq DOMAIN a
  BY <1>1, <1>2
<1>5. ASSUME NEW i \in DOMAIN s PROVE a[i] = s[i]
  BY <1>1, <1>2, <1>4, <1>5
<1>6. ASSUME NEW i \in DOMAIN a, i \notin DOMAIN s
      PROVE  a[i].owner = owner /\ a[i].status = "pending" /\ a[i].error = "none"
  <2>1. a[i] = MakeStep(d, i - Len(s), Len(s), owner, key, depth, inherited)
    BY <1>1, <1>2, <1>4, <1>6
  <2> QED BY <1>3, <2>1
<1> QED BY <1>4, <1>5, <1>6

-----------------------------------------------------------------------------
(* What the actions of a run hand on *)

LEMMA InheritsScheduled ==
  ASSUME IInv, Known, Schedule
  PROVE  Inherits(step, step')
<1>0. step \in Seq(Step) /\ node = "schedule"
  BY DEF IInv, TypeOK, Schedule, ScheduleExecute, ScheduleWait, ScheduleFinalize
<1>1. ASSUME NEW B, NEW t, t = Block(plan, step, B)
      PROVE  Inherits(step, t)
  <2>1. DOMAIN t = DOMAIN step
    BY <1>1 DEF Block
  <2>2. ASSUME NEW i \in DOMAIN step
        PROVE  t[i].owner = step[i].owner /\ Clean(t[i])
    <3>1. t[i] = step[i] \/ t[i] = Mark(step[i], "blocked", "DEPENDENCY_FAILED")
      BY <1>1 DEF Block
    <3>2. step[i] \in Step /\ Clean(step[i])
      BY <1>0, StatusOf DEF Known
    <3>3. "blocked" \in StepStatus /\ "DEPENDENCY_FAILED" \in ErrorCode
      BY DEF StepStatus, StepTerminal, StepFailed, ErrorCode
    <3>4. CASE t[i] = Mark(step[i], "blocked", "DEPENDENCY_FAILED")
      <4>1. t[i].owner = step[i].owner /\ t[i].error = "DEPENDENCY_FAILED"
            /\ t[i].status = "blocked"
        BY <3>2, <3>3, <3>4, UpdatedStep
      <4> QED BY <4>1 DEF Clean, StepTerminal, StepFailed
    <3> QED BY <3>1, <3>2, <3>4
  <2> QED BY <2>1, <2>2 DEF Inherits
<1>2. CASE ScheduleWait \/ ScheduleFinalize
  BY <1>1, <1>2 DEF ScheduleWait, ScheduleFinalize
<1>3. CASE ScheduleExecute
  <2>1. PICK B \in SUBSET DOMAIN plan :
          /\ IsBlockedSet(plan, step, B)
          /\ \E k \in DOMAIN plan :
               /\ IsFirstDispatchable(plan, Block(plan, step, B), k)
               /\ step' = [Block(plan, step, B) EXCEPT ![plan[k]] = Ready(@)]
    BY <1>3 DEF ScheduleExecute
  <2> DEFINE b == Block(plan, step, B)
  <2>2. PICK k \in DOMAIN plan :
          /\ IsFirstDispatchable(plan, b, k)
          /\ step' = [b EXCEPT ![plan[k]] = Ready(b[plan[k]])]
    BY <2>1
  <2> DEFINE i == plan[k]
             x == Ready(b[i])
  <2>3. b \in Seq(Step) /\ DOMAIN b = DOMAIN step /\ plan \in Seq(Nat) /\ Ordered(plan, b)
    BY <1>0, <2>1, AtSchedule
  <2>4. Inherits(step, b)
    BY <1>1
  <2> HIDE DEF b
  <2>5. i \in DOMAIN b
    BY <2>3, LenProperties DEF Ordered, Permutes
  <2>6. b[i].status \notin StepTerminal
    BY <2>2 DEF IsFirstDispatchable, Dispatchable, StepTerminal, StepFailed
  <2>7. b[i] \in Step /\ b[i].error = "none"
    BY <2>3, <2>4, <2>5, <2>6, StatusOf DEF Inherits, Clean
  <2>8. x = Mark(b[i], "ready", "none")
    BY <2>7 DEF Ready
  <2>9. "ready" \in StepStatus /\ "none" \in ErrorCode
    BY DEF StepStatus, ErrorCode
  <2> HIDE DEF i, x
  <2>10. x.owner = b[i].owner /\ x.error = "none" /\ x.status = "ready"
    BY <2>7, <2>8, <2>9, UpdatedStep
  <2>11. Clean(x)
    BY <2>10 DEF Clean
  <2>12. step' = [b EXCEPT ![i] = x]
    BY <2>2 DEF i, x
  <2> QED BY <2>4, <2>5, <2>10, <2>11, <2>12, InheritsUpdate
<1> QED BY <1>2, <1>3 DEF Schedule

\* The step at work is running: it has no error yet.
LEMMA CleanAtWork ==
  ASSUME IInv, Known, node \in {"execute", "worker", "expand"}
  PROVE  next \in DOMAIN step /\ step[next] \in Step /\ step[next].error = "none"
<1>1. next \in DOMAIN step /\ step[next].status \in {"ready", "running"}
  BY DEF IInv, OneRuns
<1>2. step[next] \in Step
  BY <1>1, StatusOf DEF IInv, TypeOK
<1> QED BY <1>1, <1>2 DEF Known, Clean, StepTerminal, StepFailed

LEMMA InheritsWork ==
  ASSUME IInv, Known, ConversationAssumption, ExecuteNode \/ Worker
  PROVE  Inherits(step, step')
<1>1. CASE WorkerRequires
  BY <1>1, InheritsItself DEF WorkerRequires, run
<1>2. CASE ~WorkerRequires
  <2>1. node \in {"execute", "worker"}
    BY DEF ExecuteNode, Worker, WorkerSucceeds, WorkerFails, WorkerAsksUser, WorkerRequires,
       WorkerRequiresInVain
  <2>2. next \in DOMAIN step /\ step[next] \in Step /\ step[next].error = "none"
    BY <2>1, CleanAtWork
  <2>3. /\ {"succeeded", "failed", "waiting_user"} \subseteq StepStatus
        /\ {"REQUIREMENT_PLANNING_FAILED"} \cup WorkerErrors \subseteq ErrorCode
    BY DEF StepStatus, StepTerminal, StepFailed, ErrorCode
  <2> DEFINE s == step[next]
             Fits(x) == step' = [step EXCEPT ![next] = x] /\ x.owner = s.owner /\ Clean(x)
  <2>4. ASSUME ExecuteNode PROVE Fits(Begin(s))
    <3>1. step' = [step EXCEPT ![next] = Begin(s)]
      BY <2>4 DEF ExecuteNode
    <3>2. Begin(s).owner = s.owner /\ Begin(s).error = "none" /\ Begin(s).status = "running"
      BY <2>2, BegunStep
    <3> QED BY <3>1, <3>2 DEF Clean
  <2>5. ASSUME WorkerSucceeds PROVE Fits(WithStatus(s, "succeeded"))
    <3>1. step' = [step EXCEPT ![next] = WithStatus(s, "succeeded")]
      BY <2>5 DEF WorkerSucceeds, SaveResult
    <3>2. WithStatus(s, "succeeded").owner = s.owner /\ WithStatus(s, "succeeded").status = "succeeded"
      BY <2>2, <2>3, UpdatedStep
    <3> QED BY <3>1, <3>2 DEF Clean, StepTerminal
  <2>6. ASSUME WorkerAsksUser PROVE Fits(WithStatus(s, "waiting_user"))
    <3>1. step' = [step EXCEPT ![next] = WithStatus(s, "waiting_user")]
      BY <2>6 DEF WorkerAsksUser, SaveResult
    <3>2. /\ WithStatus(s, "waiting_user").owner = s.owner
          /\ WithStatus(s, "waiting_user").error = "none"
          /\ WithStatus(s, "waiting_user").status = "waiting_user"
      BY <2>2, <2>3, UpdatedStep
    <3> QED BY <3>1, <3>2 DEF Clean
  <2>7. ASSUME WorkerFails \/ WorkerRequiresInVain
        PROVE  \E e \in WorkerErrors \cup {"REQUIREMENT_PLANNING_FAILED"} :
                 Fits(Mark(s, "failed", e))
    <3>1. PICK e \in WorkerErrors \cup {"REQUIREMENT_PLANNING_FAILED"} :
            step' = [step EXCEPT ![next] = Mark(s, "failed", e)]
      BY <2>7 DEF WorkerFails, WorkerRequiresInVain, FailRequirement, SaveResult
    <3>2. e \in ErrorCode /\ e \notin {"none", "DEPENDENCY_FAILED"} /\ "failed" \in StepStatus
      BY <2>3 DEF ConversationAssumption
    <3>3. Mark(s, "failed", e).owner = s.owner /\ Mark(s, "failed", e).error = e
          /\ Mark(s, "failed", e).status = "failed"
      BY <2>2, <3>2, UpdatedStep
    <3>4. Clean(Mark(s, "failed", e))
      BY <3>2, <3>3 DEF Clean, StepTerminal, StepFailed
    <3> QED BY <3>1, <3>3, <3>4
  <2>8. \E x : Fits(x)
    BY <1>2, <2>4, <2>5, <2>6, <2>7 DEF Worker
  <2> QED BY <2>2, <2>8, InheritsItself, InheritsUpdate
<1> QED BY <1>1, <1>2

\* The todos inserted for requirements have an owner, in memory as when saved.
LEMMA InheritsExpanded ==
  ASSUME IInv, Growing, ExpandFails \/ ExpandDone
  PROVE  Inherits(step, step')
<1> DEFINE w == work.step
           s == w[next]
<1>1. node = "expand"
  BY DEF ExpandFails, ExpandDone
<1>2. /\ next \in DOMAIN w /\ s \in Step /\ s.status = "running"
      /\ work.inherited \in SUBSET Nat
  BY <1>1, AtExpansion
<1>3. Inherits(step, w)
  BY <1>1 DEF Growing
<1>4. s.error = "none"
  BY <1>2, <1>3 DEF Inherits, Clean, StepTerminal, StepFailed
<1> DEFINE Fits(x) == step' = [w EXCEPT ![next] = x] /\ x.owner = s.owner /\ Clean(x)
<1>5. ASSUME ExpandFails PROVE Fits(Mark(s, "failed", "REQUIREMENT_PLANNING_FAILED"))
  <2>1. step' = [w EXCEPT ![next] = Mark(s, "failed", "REQUIREMENT_PLANNING_FAILED")]
    BY <1>5 DEF ExpandFails, FailRequirement
  <2>2. "failed" \in StepStatus /\ "REQUIREMENT_PLANNING_FAILED" \in ErrorCode
    BY DEF StepStatus, StepTerminal, StepFailed, ErrorCode
  <2> DEFINE x == Mark(s, "failed", "REQUIREMENT_PLANNING_FAILED")
  <2>3. x.owner = s.owner /\ x.error = "REQUIREMENT_PLANNING_FAILED" /\ x.status = "failed"
    BY <1>2, <2>2, UpdatedStep
  <2> HIDE DEF x
  <2>4. Clean(x)
    BY <2>3 DEF Clean, StepTerminal, StepFailed
  <2> QED BY <2>1, <2>3, <2>4 DEF x
<1>6. ASSUME ExpandDone PROVE Fits(AwaitTodos(s, work.inherited))
  <2>1. step' = [w EXCEPT ![next] = AwaitTodos(s, work.inherited)]
    BY <1>6 DEF ExpandDone
  <2> DEFINE x == AwaitTodos(s, work.inherited)
  <2>2. x.owner = s.owner /\ x.error = "none" /\ x.status = "waiting_dependency"
    BY <1>2, <1>4, AwaitingStep
  <2> HIDE DEF x
  <2>3. Clean(x)
    BY <2>2 DEF Clean
  <2> QED BY <2>1, <2>2, <2>3 DEF x
<1>7. \E x : Fits(x)
  BY <1>5, <1>6
<1> QED BY <1>2, <1>3, <1>7, InheritsUpdate

LEMMA GrowingKept ==
  ASSUME IInv, Known, Growing, WorkerRequires \/ ExpandOne
  PROVE  Inherits(step', work'.step)
<1>1. CASE WorkerRequires
  <2>1. work'.step = step /\ step' = step
    BY <1>1 DEF WorkerRequires, run
  <2> QED BY <2>1, InheritsItself
<1>2. CASE ExpandOne
  <2> DEFINE s   == work.step
             key == Head(work.reqs)
             dep == s[next].depth + 1
  <2>1. node = "expand" /\ work.reqs # <<>> /\ step' = step
    BY <1>2 DEF ExpandOne, run
  <2>14. PICK d \in ReqDrafts :
           work' =
             [plan      |-> Splice(work.plan, work.at, [j \in 1..Len(d) |-> Len(s) + j]),
              step      |-> [AddSteps(s, d, next, key, dep, work.inherited)
                               EXCEPT ![next] = Remember(@, key)],
              at        |-> work.at + Len(d),
              inherited |-> TerminalSteps(AddSteps(s, d, next, key, dep, work.inherited),
                                          (Len(s) + 1)..(Len(s) + Len(d))),
              reqs      |-> Tail(work.reqs)]
    BY <1>2 DEF ExpandOne
  <2>2. work'.step = [AddSteps(s, d, next, key, dep, work.inherited)
                        EXCEPT ![next] = Remember(@, key)]
    BY <2>14
  <2> DEFINE a == AddSteps(s, d, next, key, dep, work.inherited)
             x == Remember(a[next], key)
  <2>3. /\ s \in Seq(Step) /\ next \in DOMAIN s /\ s[next] \in Step /\ next # NoOwner
        /\ work.reqs \in Seq(Keys)
    BY <2>1, AtExpansion DEF NoOwner
  <2>4. d \in Seq(Todo(STRING)) /\ key \in Keys
    BY <2>1, <2>3, DraftsAssumption, HeadTailProperties
  <2>5. Inherits(step, s)
    BY <2>1 DEF Growing
  <2> HIDE DEF s, key, dep
  <2>6. /\ DOMAIN s \subseteq DOMAIN a /\ \A i \in DOMAIN s : a[i] = s[i]
        /\ \A i \in DOMAIN a : i \notin DOMAIN s =>
             a[i].owner = next /\ a[i].status = "pending" /\ a[i].error = "none"
    BY <2>3, <2>4, AddedSteps
  <2> HIDE DEF a
  <2>7. DOMAIN step # {}
    <3>1. DOMAIN s # {}
      BY <2>3
    <3> QED BY <2>5, <3>1 DEF Inherits
  <2>8. \A i \in DOMAIN a : Clean(a[i]) /\ (i \notin DOMAIN step => a[i].owner # NoOwner)
    <3> SUFFICES ASSUME NEW i \in DOMAIN a
                 PROVE  Clean(a[i]) /\ (i \notin DOMAIN step => a[i].owner # NoOwner)
      OBVIOUS
    <3>1. CASE i \in DOMAIN s
      BY <2>5, <2>6, <3>1 DEF Inherits
    <3>2. CASE i \notin DOMAIN s
      BY <2>3, <2>6, <3>2 DEF Clean
    <3> QED BY <3>1, <3>2
  <2>9. Inherits(step, a)
    <3>1. \A i \in DOMAIN step : i \in DOMAIN a /\ a[i].owner = step[i].owner
      BY <2>5, <2>6 DEF Inherits
    <3> QED BY <2>7, <2>8, <3>1 DEF Inherits
  <2>10. next \in DOMAIN a /\ a[next] \in Step /\ Clean(a[next])
    BY <2>3, <2>6, <2>8
  <2>11. x.owner = a[next].owner /\ x.error = a[next].error /\ x.status = a[next].status
    BY <2>4, <2>10, ExpandedStep
  <2> HIDE DEF x
  <2>12. Clean(x)
    BY <2>10, <2>11 DEF Clean
  <2>13. work'.step = [a EXCEPT ![next] = x]
    BY <2>2 DEF a, x
  <2> QED BY <2>1, <2>9, <2>10, <2>11, <2>12, <2>13, InheritsUpdate
<1> QED BY <1>1, <1>2

LEMMA InheritsEnd ==
  ASSUME IInv, Known, FailRun \/ CancelRun \/ Resume
  PROVE  Inherits(step, step')
<1>0. /\ {"failed", "cancelled", "pending"} \subseteq StepStatus
      /\ {"WORKFLOW_ERROR", "none"} \subseteq ErrorCode
  BY DEF StepStatus, StepTerminal, StepFailed, ErrorCode
<1>1. DOMAIN step' = DOMAIN step
  BY DEF FailRun, CancelRun, Resume
<1>2. ASSUME NEW i \in DOMAIN step
      PROVE  step'[i].owner = step[i].owner /\ Clean(step'[i])
  <2>1. step[i] \in Step /\ Clean(step[i])
    BY StatusOf DEF IInv, TypeOK, Known
  <2>2. \/ step'[i] = step[i]
        \/ step'[i] = Mark(step[i], "failed", "WORKFLOW_ERROR")
        \/ step'[i] = WithStatus(step[i], "cancelled")
        \/ step'[i] = Mark(step[i], "pending", "none")
    BY DEF FailRun, CancelRun, Resume
  <2>3. /\ Mark(step[i], "failed", "WORKFLOW_ERROR").owner = step[i].owner
        /\ Mark(step[i], "failed", "WORKFLOW_ERROR").status = "failed"
        /\ Mark(step[i], "failed", "WORKFLOW_ERROR").error = "WORKFLOW_ERROR"
        /\ Mark(step[i], "pending", "none").owner = step[i].owner
        /\ Mark(step[i], "pending", "none").status = "pending"
        /\ Mark(step[i], "pending", "none").error = "none"
        /\ WithStatus(step[i], "cancelled").owner = step[i].owner
        /\ WithStatus(step[i], "cancelled").status = "cancelled"
    BY <1>0, <2>1, UpdatedStep
  <2> QED BY <2>1, <2>2, <2>3 DEF Clean, StepTerminal, StepFailed
<1> QED BY <1>1, <1>2 DEF Inherits

-----------------------------------------------------------------------------
(* A run that goes on keeps owing what it owes *)

\* A recoverable step is closed, or stays recoverable; and no other step becomes so.
LEMMA StaysRecoverable ==
  ASSUME Known, Inherits(step, step'), Carries(step, step'), NEW i \in DOMAIN step
  PROVE  /\ Recoverable(step[i]) /\ ~Closes(i) => Recoverable(step'[i])
         /\ Recoverable(step'[i]) => Recoverable(step[i]) /\ ~Closes(i)
<1>1. Clean(step[i]) /\ Clean(step'[i])
  BY DEF Known, Inherits
<1>2. CASE step[i].status \in StepTerminal
  <2>1. step'[i] = step[i]
    BY <1>2 DEF Carries
  <2> QED BY <1>2, <2>1 DEF Closes
<1>3. CASE step[i].status \notin StepTerminal
  BY <1>1, <1>3 DEF Clean, Closes, Recoverable, StepTerminal, StepFailed
<1> QED BY <1>2, <1>3

LEMMA HandedOn ==
  ASSUME IInv, step' \in Seq(Step), Known, Distinct, Carried, Settled,
         Inherits(step, step'), Carries(step, step'), UNCHANGED todo,
         owed' = owed \ {TaskOf(i) : i \in {j \in DOMAIN step : Closes(j)}}
  PROVE  Known' /\ Carried' /\ Settled'
<1>1. ASSUME NEW i \in DOMAIN step PROVE i \in DOMAIN step' /\ TaskOf(i)' = TaskOf(i)
  BY DEF Inherits, TaskOf
<1>2. ASSUME NEW i \in DOMAIN step', i \notin DOMAIN step
      PROVE  step'[i].owner # NoOwner /\ TaskOf(i)' = Help
  <2>1. step'[i].owner # NoOwner
    BY <1>2 DEF Inherits
  <2> QED BY <2>1 DEF TaskOf, NoOwner
<1>3. Known'
  BY <1>2 DEF Known, Inherits, NoOwner, Clean, StepTerminal, StepFailed
<1>4. Carried'
  <2> SUFFICES ASSUME step' # <<>>, NEW t \in owed'
               PROVE  \E i \in DOMAIN step' : TaskOf(i)' = t /\ Recoverable(step'[i])
    BY DEF Carried, Recoverable, TaskOf
  <2>1. step # <<>>
    <3>1. DOMAIN step' # {}
      BY NonEmpty
    <3> QED BY <3>1 DEF Inherits
  <2>2. PICK i \in DOMAIN step : TaskOf(i) = t /\ Recoverable(step[i])
    BY <2>1 DEF Carried
  <2>3. ~Closes(i)
    BY <2>2
  <2>4. Recoverable(step'[i])
    BY <2>2, <2>3, StaysRecoverable
  <2> QED BY <1>1, <2>2, <2>4
<1>5. Settled'
  <2> SUFFICES ASSUME NEW i \in DOMAIN step', Recoverable(step'[i])
               PROVE  TaskOf(i)' \in owed' \cup {Help}
    BY DEF Settled, Recoverable, TaskOf
  <2>1. CASE i \notin DOMAIN step
    BY <1>2, <2>1
  <2>2. CASE i \in DOMAIN step
    <3>1. Recoverable(step[i]) /\ ~Closes(i)
      BY <2>2, StaysRecoverable
    <3>2. TaskOf(i) \in owed \cup {Help}
      BY <2>2, <3>1 DEF Settled
    <3>3. ASSUME TaskOf(i) # Help, NEW j \in DOMAIN step, Closes(j), TaskOf(j) = TaskOf(i)
          PROVE  FALSE
      <4>1. /\ step[i].owner = NoOwner /\ step[j].owner = NoOwner
            /\ todo[i] = todo[j]
        BY <3>3 DEF TaskOf
      <4>2. i \in DOMAIN todo /\ j \in DOMAIN todo
        BY <2>2, <3>3, <4>1 DEF Known
      <4>3. i = j
        BY <4>1, <4>2 DEF Distinct
      <4> QED BY <3>1, <3>3, <4>3
    <3> QED BY <1>1, <2>2, <3>2, <3>3
  <2> QED BY <2>1, <2>2
<1> QED BY <1>3, <1>4, <1>5

-----------------------------------------------------------------------------
(* The invariant of a thread is kept *)

\* The rest of the invariant when the run in progress takes a step that neither plans
\* nor validates.
LEMMA RunsOn ==
  ASSUME TInv, Work, IInv', node' \notin {"plan", "validate"}, Inherits(step, step'),
         Carries(step, step'), Growing'
  PROVE  TInv'
<1>1. /\ UNCHANGED <<todo, before, runs>>
      /\ owed' = owed \ {TaskOf(i) : i \in {j \in DOMAIN step : Closes(j)}}
  BY DEF Work
<1>2. step' \in Seq(Step)
  BY DEF IInv, TypeOK
<1>3. Known' /\ Carried' /\ Settled'
  BY <1>1, <1>2, HandedOn DEF TInv
<1>4. ThreadTypeOK'
  BY <1>1 DEF TInv, ThreadTypeOK, IInv
<1>5. Distinct'
  BY <1>1 DEF TInv, Distinct
<1>6. Aligned' /\ NothingForgotten' /\ NothingRepeated'
  BY DEF Aligned, NothingForgotten, NothingRepeated
<1> QED BY <1>3, <1>4, <1>5, <1>6 DEF TInv

\* The plan of a new run has a step for each todo of the draft.
LEMMA ValidateKeeps == TInv /\ Work /\ ValidateNode => TInv'
<1> SUFFICES ASSUME TInv, Work, ValidateNode PROVE TInv'
  OBVIOUS
<1>1. /\ node = "validate" /\ node' = "schedule" /\ Valid(draft, "user_intent")
      /\ step' = AddSteps(<<>>, draft, NoOwner, NoKey, 0, {})
  BY DEF ValidateNode
<1>2. step = <<>> /\ DOMAIN step = {} /\ IInv
  BY <1>1 DEF TInv, IInv, Fresh
<1>3. UNCHANGED <<todo, before, runs>> /\ owed' = owed
  <2>1. {j \in DOMAIN step : Closes(j)} = {}
    BY <1>2
  <2> QED BY <2>1 DEF Work
<1>4. IInv'
  BY <1>2, ValidateNodeInv
<1>5. draft \in Seq(Todo(STRING))
  <2>1. draft \in Drafts
    BY <1>1, <1>2 DEF IInv, TypeOK, Valid
  <2> QED BY <2>1, DraftsAssumption
<1>6. /\ DOMAIN todo = 1..Len(draft)
      /\ \A t \in owed : \E i \in DOMAIN todo : todo[i] = t
      /\ \A i \in DOMAIN todo : todo[i] \in owed \cup {Help}
  BY <1>1 DEF TInv, Aligned
<1>7. /\ DOMAIN step' = DOMAIN todo
      /\ \A i \in DOMAIN step' : step'[i].owner = NoOwner /\ step'[i].status = "pending"
                                  /\ step'[i].error = "none"
  <2> DEFINE m(i) == MakeStep(draft, i - Len(<<>>), Len(<<>>), NoOwner, NoKey, 0, {})
  <2>1. step' = [i \in 1..(Len(<<>>) + Len(draft)) |-> IF i <= Len(<<>>) THEN <<>>[i] ELSE m(i)]
    BY <1>1 DEF AddSteps
  <2>2. \A i : m(i).owner = NoOwner /\ m(i).status = "pending" /\ m(i).error = "none"
    BY DEF MakeStep
  <2> HIDE DEF m
  <2>3. Len(<<>>) = 0 /\ Len(draft) \in Nat
    BY <1>5, LenProperties
  <2>4. DOMAIN step' = 1..Len(draft)
    BY <2>1, <2>3
  <2>5. \A i \in DOMAIN step' : step'[i] = m(i)
    BY <2>1, <2>3, <2>4
  <2> QED BY <1>6, <2>2, <2>4, <2>5
<1>8. \A i \in DOMAIN step' : TaskOf(i)' = todo[i] /\ Recoverable(step'[i]) /\ Clean(step'[i])
  BY <1>3, <1>7 DEF TaskOf, Recoverable, Clean
<1>9. Known'
  BY <1>3, <1>7, <1>8 DEF Known, Clean
<1>10. Carried'
  <2> SUFFICES ASSUME NEW t \in owed'
               PROVE  \E i \in DOMAIN step' : TaskOf(i)' = t /\ Recoverable(step'[i])
    BY DEF Carried, Recoverable, TaskOf
  <2> QED BY <1>3, <1>6, <1>7, <1>8
<1>11. Settled'
  <2> SUFFICES ASSUME NEW i \in DOMAIN step', Recoverable(step'[i])
               PROVE  TaskOf(i)' \in owed' \cup {Help}
    BY DEF Settled, Recoverable, TaskOf
  <2> QED BY <1>3, <1>6, <1>7, <1>8
<1>12. ThreadTypeOK' /\ Distinct'
  BY <1>3, <1>4 DEF TInv, ThreadTypeOK, IInv, Distinct
<1>13. Aligned' /\ Growing' /\ NothingForgotten' /\ NothingRepeated'
  BY <1>1 DEF Aligned, Growing, NothingForgotten, NothingRepeated
<1> QED BY <1>4, <1>9, <1>10, <1>11, <1>12, <1>13 DEF TInv

LEMMA WorkKeeps == TInv /\ Work => TInv'
<1> SUFFICES ASSUME TInv, Work PROVE TInv'
  OBVIOUS
<1>1. IInv /\ Known /\ Growing
  BY DEF TInv
<1>2. [Next]_vars
  BY DEF Work, Next, Graph
<1>3. IInv' /\ Carries(step, step')
  BY <1>1, <1>2, NextInv, CarriesNext
<1>4. CASE ValidateNode
  BY <1>4, ValidateKeeps
<1>5. CASE Schedule
  <2>1. node' \notin {"plan", "validate", "expand"}
    BY <1>5 DEF Schedule, ScheduleExecute, ScheduleWait, ScheduleFinalize
  <2>2. Growing'
    BY <2>1 DEF Growing
  <2> QED BY <1>1, <1>3, <1>5, <2>1, <2>2, InheritsScheduled, RunsOn
<1>6. CASE ExecuteNode \/ Worker
  <2>1. node' \notin {"plan", "validate"} /\ (node' = "expand" => WorkerRequires)
    BY <1>6 DEF ExecuteNode, Worker, WorkerSucceeds, WorkerFails, WorkerAsksUser,
       WorkerRequires, WorkerRequiresInVain, FailRequirement, SaveResult
  <2>2. Growing'
    BY <1>1, <2>1, GrowingKept DEF Growing
  <2> QED BY <1>1, <1>3, <1>6, <2>1, <2>2, ConversationAssumption, InheritsWork, RunsOn
<1>7. CASE Expand
  <2>1. node' \notin {"plan", "validate"} /\ (node' = "expand" => ExpandOne)
    BY <1>7 DEF Expand, ExpandOne, ExpandFails, ExpandDone, FailRequirement
  <2>2. Growing'
    BY <1>1, <2>1, GrowingKept DEF Growing
  <2>3. Inherits(step, step')
    <3>1. CASE ExpandOne
      BY <1>1, <3>1, InheritsItself DEF ExpandOne, run
    <3> QED BY <1>1, <1>7, <3>1, InheritsExpanded DEF Expand
  <2> QED BY <1>3, <2>1, <2>2, <2>3, RunsOn
<1>8. CASE FinalizeNode \/ GraphEnds \/ NodeRaises \/ Disconnect
  <2>1. node' \notin {"plan", "validate", "expand"} /\ step' = step
    BY <1>8 DEF FinalizeNode, GraphEnds, NodeRaises, Disconnect, run
  <2>2. Growing' /\ Inherits(step, step')
    BY <1>1, <2>1, InheritsItself DEF Growing
  <2> QED BY <1>3, <2>1, <2>2, RunsOn
<1>9. CASE FailRun \/ Resume \/ CancelRun
  <2>1. node' \notin {"plan", "validate", "expand"}
    BY <1>9 DEF FailRun, Resume, CancelRun
  <2>2. Growing'
    BY <2>1 DEF Growing
  <2> QED BY <1>1, <1>3, <1>9, <2>1, <2>2, InheritsEnd, RunsOn
<1> QED BY <1>4, <1>5, <1>6, <1>7, <1>8, <1>9 DEF Work

\* What is recovered is what was said of the steps of the run before.
LEMMA RecoveredTyped == ThreadTypeOK => Recovered \subseteq Tasks \cup {Help}
BY DEF ThreadTypeOK, Recovered

LEMMA PlanKeeps == TInv /\ Plan => TInv'
<1> SUFFICES ASSUME TInv, Plan PROVE TInv'
  OBVIOUS
<1>1. PlanNode /\ node = "plan" /\ node' = "validate" /\ UNCHANGED run /\ UNCHANGED <<before, runs>>
  BY DEF Plan, PlanNode
<1>2. IInv /\ step = <<>> /\ DOMAIN step = {}
  BY <1>1 DEF TInv, IInv, Fresh
<1>3. IInv'
  BY <1>1, <1>2, PlanNodeInv
<1>4. PICK asked \in SUBSET Tasks :
        /\ todo' \in Bijection(1..Len(draft'), asked \cup Recovered)
        /\ owed' = owed \cup asked
  BY DEF Plan
<1>5. owed \subseteq Recovered /\ Recovered \cap Tasks \subseteq owed
      /\ Recovered \subseteq Tasks \cup {Help} /\ owed \subseteq Tasks
  BY <1>1, RecoveredTyped DEF TInv, NothingForgotten, NothingRepeated, ThreadTypeOK
<1>6. /\ todo' \in [1..Len(draft') -> asked \cup Recovered]
      /\ \A i, j \in 1..Len(draft') : todo'[i] = todo'[j] => i = j
      /\ \A t \in asked \cup Recovered : \E i \in 1..Len(draft') : todo'[i] = t
  BY <1>4 DEF Bijection, Injection, Surjection, IsInjective
<1>7. DOMAIN todo' = 1..Len(draft')
  BY <1>6
<1>8. Distinct'
  BY <1>6, <1>7 DEF Distinct
<1>9. Aligned'
  BY <1>4, <1>5, <1>6, <1>7 DEF Aligned
<1>10. Known' /\ Carried' /\ Settled' /\ Growing' /\ NothingForgotten' /\ NothingRepeated'
  BY <1>1, <1>2 DEF Known, Carried, Settled, Growing, NothingForgotten, NothingRepeated, run
<1>11. ThreadTypeOK'
  <2>1. draft' \in Seq(Todo(STRING))
    BY <1>1, DraftsAssumption DEF PlanNode
  <2>2. Len(draft') \in Nat
    BY <2>1, LenProperties
  <2>3. todo' \in [1..Len(draft') -> Tasks \cup {Help}]
    BY <1>5, <1>6
  <2>4. todo' \in Seq(Tasks \cup {Help})
    BY <2>2, <2>3, FcnSeq
  <2> QED BY <1>1, <1>3, <1>4, <2>4 DEF TInv, ThreadTypeOK, IInv
<1> QED BY <1>3, <1>8, <1>9, <1>10, <1>11 DEF TInv

\* A new run starts like the first one.
LEMMA BornInv == Init' => IInv'
<1>1. Init => IInv
  BY InitInv
<1> QED BY <1>1, PTL

\* The run before is as it was left, and what it had to hand on is handed on.
LEMMA ChatKeeps == TInv /\ Chat => TInv'
<1> SUFFICES ASSUME TInv, Chat PROVE TInv'
  OBVIOUS
<1>3. IInv'
  BY BornInv DEF Chat, Init
<1>4. /\ node' = "plan" /\ step' = <<>> /\ todo' = <<>> /\ runs' = runs + 1
      /\ before' = {[task |-> TaskOf(i), status |-> step[i].status, error |-> step[i].error] :
                      i \in DOMAIN step}
      /\ owed' = IF step = <<>> THEN {} ELSE owed
  BY DEF Chat, LastRun
<1>5. step \in Seq(Step) /\ todo \in Seq(Tasks \cup {Help}) /\ runs \in Nat /\ owed \subseteq Tasks
  BY DEF TInv, ThreadTypeOK, TypeOK
<1>6. DOMAIN step' = {} /\ DOMAIN todo' = {}
  BY <1>4
<1>7. Distinct' /\ Known' /\ Aligned' /\ Growing' /\ Carried' /\ Settled'
  BY <1>4, <1>6 DEF Distinct, Known, Aligned, Growing, Carried, Settled
<1>8. ASSUME NEW i \in DOMAIN step
      PROVE  /\ step[i].status \in StepStatus /\ step[i].error \in ErrorCode
             /\ TaskOf(i) \in Tasks \cup {Help}
  <2>1. step[i] \in Step
    BY <1>5
  <2>2. step[i].status \in StepStatus /\ step[i].error \in ErrorCode
    BY <2>1 DEF Step
  <2>3. CASE step[i].owner = NoOwner
    <3>1. i \in DOMAIN todo
      BY <2>3 DEF TInv, Known
    <3>2. todo[i] \in Tasks \cup {Help}
      BY <1>5, <3>1
    <3> QED BY <2>2, <2>3, <3>2 DEF TaskOf
  <2> QED BY <2>2, <2>3 DEF TaskOf
<1>9. ThreadTypeOK'
  <2>1. todo' \in Seq(Tasks \cup {Help}) /\ runs' \in Nat \ {0} /\ owed' \in SUBSET Tasks
    BY <1>4, <1>5
  <2>2. before' \in SUBSET [task : Tasks \cup {Help}, status : StepStatus, error : ErrorCode]
    BY <1>4, <1>8
  <2>3. TypeOK'
    BY <1>3 DEF IInv
  <2> QED BY <2>1, <2>2, <2>3 DEF ThreadTypeOK
<1>10. NothingForgotten'
  <2> SUFFICES ASSUME NEW t \in owed' PROVE t \in Recovered'
    BY DEF NothingForgotten
  <2>1. step # <<>> /\ t \in owed
    BY <1>4
  <2>2. PICK i \in DOMAIN step : TaskOf(i) = t /\ Recoverable(step[i])
    BY <2>1 DEF TInv, Carried
  <2> DEFINE b == [task |-> TaskOf(i), status |-> step[i].status, error |-> step[i].error]
  <2>3. b \in before' /\ Recoverable(b) /\ b.task = t
    BY <1>4, <2>2 DEF Recoverable
  <2> QED BY <2>3 DEF Recovered
<1>11. NothingRepeated'
  <2> SUFFICES ASSUME NEW t \in Recovered', t \in Tasks PROVE t \in owed'
    BY DEF NothingRepeated
  <2>1. PICK b \in before' : Recoverable(b) /\ b.task = t
    BY DEF Recovered
  <2>2. PICK i \in DOMAIN step :
          b = [task |-> TaskOf(i), status |-> step[i].status, error |-> step[i].error]
    BY <1>4, <2>1
  <2>3. Recoverable(step[i]) /\ TaskOf(i) = t
    BY <2>1, <2>2 DEF Recoverable
  <2>4. t \in owed
    BY <2>3, ConversationAssumption DEF TInv, Settled
  <2>5. step # <<>>
    OBVIOUS
  <2> QED BY <1>4, <2>4, <2>5
<1> QED BY <1>3, <1>7, <1>9, <1>10, <1>11 DEF TInv

LEMMA ThreadInitInv == ThreadInit => TInv
<1> SUFFICES ASSUME ThreadInit PROVE TInv
  OBVIOUS
<1>1. IInv
  BY InitInv DEF ThreadInit
<1>2. step = <<>> /\ node = "plan" /\ todo = <<>> /\ before = {} /\ runs = 1 /\ owed = {}
  BY DEF ThreadInit, Init
<1>3. DOMAIN step = {} /\ DOMAIN todo = {} /\ todo \in Seq(Tasks \cup {Help})
  BY <1>2
<1>4. ThreadTypeOK
  BY <1>1, <1>2, <1>3 DEF ThreadTypeOK, IInv
<1>5. Distinct /\ Known /\ Aligned /\ Growing /\ Carried /\ Settled
  BY <1>2, <1>3 DEF Distinct, Known, Aligned, Growing, Carried, Settled
<1>6. NothingForgotten /\ NothingRepeated
  BY <1>2 DEF NothingForgotten, NothingRepeated, Recovered
<1> QED BY <1>1, <1>4, <1>5, <1>6 DEF TInv

LEMMA ThreadStutters == TInv /\ UNCHANGED thread => TInv'
<1> SUFFICES ASSUME TInv, UNCHANGED thread PROVE TInv'
  OBVIOUS
<1>1. UNCHANGED vars /\ UNCHANGED <<todo, before, runs, owed>>
  BY DEF thread
<1>2. IInv'
  BY <1>1, NextInv DEF TInv
<1>3. UNCHANGED <<step, node, draft, work>>
  BY <1>1 DEF vars, run
<1>4. ThreadTypeOK'
  BY <1>1, <1>2 DEF TInv, ThreadTypeOK, IInv
<1>5. Distinct' /\ Known' /\ Aligned' /\ Growing' /\ Carried' /\ Settled'
  BY <1>1, <1>3 DEF TInv, Distinct, Known, Aligned, Growing, Carried, Settled, TaskOf
<1>6. NothingForgotten' /\ NothingRepeated'
  BY <1>1, <1>3 DEF TInv, NothingForgotten, NothingRepeated, Recovered
<1> QED BY <1>2, <1>4, <1>5, <1>6 DEF TInv

-----------------------------------------------------------------------------

\* The invariant holds of every run of every thread.
THEOREM ThreadInvariance == ThreadSpec => []TInv
<1>1. ThreadInit => TInv
  BY ThreadInitInv
<1>2. TInv /\ [ThreadNext]_thread => TInv'
  BY PlanKeeps, WorkKeeps, ChatKeeps, ThreadStutters DEF ThreadNext
<1> QED BY <1>1, <1>2, PTL DEF ThreadSpec

\* The runs of a thread keep their types, and so does what they hand on.
THEOREM ThreadTypes == ThreadSpec => []ThreadTypeOK
<1>1. TInv => ThreadTypeOK
  BY DEF TInv
<1> QED BY <1>1, ThreadInvariance, PTL

\* A task left over is offered to the planner of every later run until it is done,
\* fails for a reason of its own or is called off, over any number of runs.
THEOREM ChainUnbroken == ThreadSpec => []NothingForgotten
<1>1. TInv => NothingForgotten
  BY DEF TInv
<1> QED BY <1>1, ThreadInvariance, PTL

\* What is settled is not offered to the planner again.
THEOREM NoneRepeated == ThreadSpec => []NothingRepeated
<1>1. TInv => NothingRepeated
  BY DEF TInv
<1> QED BY <1>1, ThreadInvariance, PTL

-----------------------------------------------------------------------------
(* The promise of a thread *)

LEMMA ThreadBegins == ThreadInit => Thread!TInit
<1> SUFFICES ASSUME ThreadInit PROVE Thread!TInit
  OBVIOUS
<1>1. OpenStatus = "planning" /\ ~VerdictStands /\ runs = 1
  BY DEF ThreadInit, Init, RunTerminal, OpenStatus, VerdictStands
<1>2. 1..(runs - 1) = {}
  BY <1>1
<1> QED BY <1>1, <1>2 DEF Thread!TInit

\* A step of the engine moves the open run of the thread, ends it, or does neither.
LEMMA EngineMovesThread ==
  ASSUME TInv, [Next]_vars, runs' = runs
  PROVE  [Thread!TNext]_(Thread!tvars)
<1> DEFINE Opened(v, st) == IF v THEN {} ELSE {[run |-> runs, status |-> st]}
           Ended(v)      == {[run |-> k] : k \in IF v THEN 1..runs ELSE 1..(runs - 1)}
<1>1. [Promise!PNext]_(Promise!pvars)
  BY PromiseStep DEF TInv
<1>2. CASE OpenStatus' = OpenStatus /\ VerdictStands' = VerdictStands
  BY <1>2 DEF Thread!tvars
<1>3. CASE /\ ~VerdictStands /\ ~VerdictStands'
           /\ \/ OpenStatus' = "running"
              \/ OpenStatus' = "waiting_user" /\ OpenStatus # "planning"
  <2> DEFINE x == [run |-> runs, status |-> OpenStatus]
             y == [run |-> runs, status |-> OpenStatus']
  <2>1. /\ Opened(VerdictStands, OpenStatus) = {x} /\ Opened(VerdictStands', OpenStatus') = {y}
        /\ Ended(VerdictStands') = Ended(VerdictStands)
    BY <1>3
  <2>2. y.run = x.run /\ (y.status = "running" \/ (y.status = "waiting_user" /\ x.status # "planning"))
    BY <1>3
  <2> HIDE DEF x, y
  <2> QED BY <2>1, <2>2 DEF Thread!TNext, Thread!Move
<1>4. CASE ~VerdictStands /\ VerdictStands'
  <2>1. runs \in Nat \ {0}
    BY DEF TInv, ThreadTypeOK
  <2> DEFINE x == [run |-> runs, status |-> OpenStatus]
             y == [run |-> runs]
  <2>2. Opened(VerdictStands, OpenStatus) = {x} /\ Opened(VerdictStands', OpenStatus') = {}
    BY <1>4
  <2>3. 1..runs = 1..(runs - 1) \cup {runs}
    BY <2>1
  <2>4. Ended(VerdictStands') = Ended(VerdictStands) \cup {y}
    BY <1>4, <2>1, <2>3
  <2>5. y \in Ended(VerdictStands') /\ y.run = x.run
    BY <2>4
  <2> HIDE DEF x, y
  <2> QED BY <2>2, <2>4, <2>5 DEF Thread!TNext, Thread!Finish
<1>5. CASE UNCHANGED <<status, VerdictStands>>
  BY <1>2, <1>5 DEF OpenStatus
<1>6. CASE Promise!Adopt \/ Promise!Work \/ Promise!Conclude
  <2>1. /\ status \in {"planning", "running", "waiting_user"}
        /\ \/ status' \notin {"planning", "waiting_user"}
           \/ status' = "waiting_user" /\ status # "planning"
        /\ status' \in {"running", "waiting_user"} \cup RunTerminal
        /\ ~VerdictStands'
    BY <1>6 DEF Promise!Adopt, Promise!Work, Promise!Conclude, Promise!Open, Promise!Verdict,
                RunTerminal
  <2>2. ~VerdictStands
    BY <2>1 DEF VerdictStands, RunTerminal
  <2>3. OpenStatus = status /\ (OpenStatus' = "running" \/ OpenStatus' = status')
    BY <2>1 DEF OpenStatus, RunTerminal
  <2>4. OpenStatus' = "running" \/ (OpenStatus' = "waiting_user" /\ OpenStatus # "planning")
    BY <2>1, <2>3 DEF OpenStatus
  <2> QED BY <1>3, <2>1, <2>2, <2>4
<1>7. CASE Promise!Settle \/ Promise!GiveUp \/ Promise!Cancel
  BY <1>4, <1>7 DEF Promise!Settle, Promise!GiveUp, Promise!Cancel, Promise!Open,
                    VerdictStands, RunTerminal
<1> QED BY <1>1, <1>5, <1>6, <1>7 DEF Promise!PNext, Promise!pvars

LEMMA ChatBeginsRun ==
  ASSUME TInv, Chat
  PROVE  Thread!Begin
<1>1. VerdictStands /\ status' = "planning" /\ runs' = runs + 1 /\ runs \in Nat
  BY DEF Chat, TInv, ThreadTypeOK, VerdictStands
<1>2. ~VerdictStands' /\ OpenStatus' = "planning" /\ 1..(runs' - 1) = 1..runs
  BY <1>1 DEF VerdictStands, OpenStatus, RunTerminal
<1> DEFINE x == [run |-> runs', status |-> "planning"]
<1>3. \A k \in 1..runs : [run |-> k].run # x.run
  BY <1>1
<1> QED BY <1>1, <1>2, <1>3 DEF Thread!Begin

\* The runs of a thread keep the promise that RunSessions gives a patient client
\* for any requests: they come one after another, also when one is cancelled,
\* fails or is lost half way.
THEOREM RunsComeInTurn == ThreadSpec => KeepsThreadPromise
<1>1. ThreadInit => Thread!TInit
  BY ThreadBegins
<1>2. TInv /\ [ThreadNext]_thread => [Thread!TNext]_(Thread!tvars)
  <2> SUFFICES ASSUME TInv, [ThreadNext]_thread PROVE [Thread!TNext]_(Thread!tvars)
    OBVIOUS
  <2>1. CASE Plan \/ Work \/ UNCHANGED thread
    <3>1. [Next]_vars /\ runs' = runs
      BY <2>1 DEF Plan, Work, thread, Next, Graph
    <3> QED BY <3>1, EngineMovesThread
  <2>2. CASE Chat
    BY <2>2, ChatBeginsRun DEF Thread!TNext
  <2> QED BY <2>1, <2>2 DEF ThreadNext
<1>3. ThreadSpec => Thread!TInit /\ [][Thread!TNext]_(Thread!tvars)
  BY <1>1, <1>2, ThreadInvariance, PTL DEF ThreadSpec
<1> QED BY <1>3 DEF KeepsThreadPromise, Thread!TSpec
=============================================================================
