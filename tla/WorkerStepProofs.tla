--------------------------- MODULE WorkerStepProofs ---------------------------
(***************************************************************************)
(* What the record of a run knows of the client's scene, for any steps,    *)
(* tools, calls and executions.                                            *)
(***************************************************************************)
EXTENDS WorkerStep, WellFoundedInduction, TLAPS

SceneType   == [open : BOOLEAN, rev : Nat]
ContextType == [status : {"none", "opened"}, rev : Nat]
ResultType  == [step : Steps, effects : SUBSET Facts, invalidates : SUBSET Facts,
                repeated : BOOLEAN, srev : Nat]
RowType     == [rev : Nat, exec : 0..MaxExecs, result : {"none", "ok", "bad"},
                named : BOOLEAN, srev : Nat, after : Nat]
WorkType    == [step : Steps, facts : SUBSET Facts, rev : Nat, calls : 0..MaxCalls,
                counts : [Tools -> 0..2], wins : Seq(Tools), rows : Seq(Tools),
                effects : SUBSET Facts, invalidates : SUBSET Facts, changes : Nat,
                late : BOOLEAN]

Types ==
  /\ scene \in SceneType /\ context \in ContextType
  /\ results \in Seq(ResultType)
  /\ status \in [Steps -> {"pending", "waiting", "succeeded", "failed"}]
  /\ exec \in 0..MaxExecs
  /\ ledger \in [Steps -> [Tools -> RowType]]
  /\ strayed \in BOOLEAN
  /\ work # Rest => work \in WorkType /\ Len(work.rows) <= work.calls

-----------------------------------------------------------------------------
(* The execution at work *)

\* Effects that say nothing of the scene.
Bare(effects) == "scene.opened" \notin effects /\ "scene.none" \notin effects

\* The result of a step that leaves what was recorded under a revision as it is.
Past(r, rev) == Bare(r.effects) /\ r.srev <= rev

\* Its calls are under the revision it began with, and its effects are those of calls
\* that have succeeded.
WorkOK ==
  work # Rest =>
    /\ work.rev = context.rev
    /\ status[work.step] \in {"pending", "waiting"}
    /\ \A i \in DOMAIN work.wins : Row(work.wins[i]).result = "ok" /\ Row(work.wins[i]).rev = work.rev
    /\ \A i \in DOMAIN work.rows : Row(work.rows[i]).rev = work.rev
    /\ \A i \in DOMAIN work.wins : Contract(work.wins[i]).effects \subseteq work.effects
    /\ \A fact \in work.effects : \E i \in DOMAIN work.wins : fact \in Contract(work.wins[i]).effects

\* A step with a result is not executed again.
ResultsOK ==
  \A i \in DOMAIN results :
    /\ status[results[i].step] = "succeeded"
    /\ \A fact \in results[i].effects :
         \E t \in Tools : fact \in Contract(t).effects /\ ledger[results[i].step][t].result = "ok"

\* The rows of the ledger under the revision of now are younger than every effect on the
\* scene, and than every revision of it that is beyond theirs.
RowsOK ==
  \A s \in Steps, t \in Tools :
    /\ ledger[s][t].rev <= context.rev
    /\ ledger[s][t].rev = context.rev /\ ledger[s][t].result # "none" =>
         \A i \in (ledger[s][t].after + 1)..Len(results) : Past(results[i], ledger[s][t].rev)

-----------------------------------------------------------------------------
(* The scene, as long as no worker has strayed or repeated a call *)

Straight == ~strayed /\ \A i \in DOMAIN results : ~results[i].repeated

\* Effects that say of the scene what one tool does to it, or nothing.
OfOne(effects, invalidates) ==
  \/ Bare(effects) /\ invalidates = {}
  \/ \E t \in Tools :
       /\ Marks(t) /\ invalidates = Contract(t).invalidates
       /\ \A fact \in SceneFacts : fact \in effects <=> fact \in Contract(t).effects

\* No call of the execution has changed the scene, as far as is known.
Untouched == work # Rest => work.changes = 0 /\ ~work.late

\* What a named scene of the present revision says is so.
NamedTrue ==
  Untouched => \A s \in Steps, t \in Tools :
    ledger[s][t].named /\ ledger[s][t].rev = context.rev => scene.open

\* Effects that have not become those of a step are those of the execution at work.
MarksHeld ==
  \A s \in Steps, t \in Tools :
    Marks(t) /\ ledger[s][t].result = "ok" =>
      \/ status[s] = "succeeded"
      \/ work # Rest /\ work.step = s /\ (Won(t) \/ work.late)

\* The context says what the last step with effects has left.
LastSays ==
  \A j \in DOMAIN results :
    /\ OfOne(results[j].effects, results[j].invalidates)
    /\ (\A i \in (j + 1)..Len(results) : Bare(results[i].effects)) =>
         /\ "scene.opened" \in results[j].effects => context.status = "opened"
         /\ "scene.none" \in results[j].effects => context.status = "none"

SceneKnown ==
  /\ Untouched => (context.status = "opened" <=> scene.open)
  /\ work # Rest /\ ~work.late /\ work.changes = 0 => Bare(work.effects) /\ work.invalidates = {}
  /\ work # Rest /\ ~work.late /\ work.changes = 1 =>
       /\ OfOne(work.effects, work.invalidates) /\ ~Bare(work.effects)
       /\ scene.open <=> "scene.opened" \in work.effects

Truth == Straight => NamedTrue /\ MarksHeld /\ LastSays /\ SceneKnown

WInv == Types /\ WorkOK /\ ResultsOK /\ RowsOK /\ Truth

-----------------------------------------------------------------------------
(* Contracts, records and lists *)

\* A non-empty set of places in a list has a last one.
LEMMA Greatest ==
  ASSUME NEW n \in Nat, NEW T \in SUBSET (1..n), T # {}
  PROVE  \E x \in T : \A y \in T : y <= x
<1> DEFINE R == {ss \in Nat \X Nat : ss[1] < ss[2]}
           U == {n - i : i \in T}
<1>1. IsWellFoundedOn(R, Nat)
  BY NatLessThanWellFounded, Zenon DEF OpToRel
<1>2. \A x, y \in Nat : y < x => <<y, x>> \in R
  OBVIOUS
<1>3. U \subseteq Nat /\ U # {}
  <2>1. \A i \in T : i \in 1..n /\ n - i \in Nat
    OBVIOUS
  <2>2. PICK i : i \in T
    OBVIOUS
  <2>3. n - i \in U
    BY <2>2
  <2> QED BY <2>1, <2>3
<1> HIDE DEF R
<1>4. PICK u \in U : \A v \in U : ~(<<v, u>> \in R)
  <2> HIDE DEF U
  <2> QED BY <1>1, <1>3, WFMin
<1>5. PICK x \in T : u = n - x
  OBVIOUS
<1>6. ASSUME NEW y \in T PROVE y <= x
  <2>1. n - y \in U /\ n - y \in Nat /\ u \in Nat /\ x \in 1..n /\ y \in 1..n
    BY <1>3
  <2> HIDE DEF U
  <2>2. ~(n - y < u)
    BY <1>2, <1>4, <2>1, Zenon
  <2> QED BY <1>5, <2>1, <2>2
<1> QED BY <1>6

\* What the tools of the service declare, and what they do to the client's scene.
LEMMA ContractFacts ==
  ASSUME NEW t \in Tools
  PROVE  /\ Contract(t).effects \in SUBSET Facts /\ Contract(t).invalidates \in SUBSET Facts
         /\ Marks(t) <=> ~Bare(Contract(t).effects)
         /\ Bare(Contract(t).effects) => Contract(t).invalidates = {}
         /\ "scene.opened" \in Contract(t).effects =>
              "scene.none" \notin Contract(t).effects /\ "scene.opened" \notin Contract(t).invalidates
         /\ "scene.none" \in Contract(t).effects => "scene.opened" \in Contract(t).invalidates
<1>1. Marks(t) <=> ~Bare(Contract(t).effects)
  BY DEF Marks, Bare, SceneFacts
<1>2. CASE t \in {"open", "rename"}
  <2>1. Contract(t).effects = {"scene.opened"} /\ Contract(t).invalidates \in {{"scene.none"}, {}}
    BY <1>2 DEF Contract
  <2> QED BY <1>1, <2>1 DEF Facts, SceneFacts, Bare
<1>3. CASE t = "delete"
  <2>1. Contract(t).effects = {"scene.none"} /\ Contract(t).invalidates = {"scene.opened"}
    BY <1>3 DEF Contract
  <2> QED BY <1>1, <2>1 DEF Facts, SceneFacts, Bare
<1>4. CASE t = "build"
  <2>1. Contract(t).effects = {"entity.changed"} /\ Contract(t).invalidates = {}
    BY <1>4 DEF Contract
  <2> QED BY <1>1, <2>1 DEF Facts, SceneFacts, Bare
<1>5. CASE t \in {"use", "look"}
  <2>1. Contract(t).effects = {} /\ Contract(t).invalidates = {}
    BY <1>5 DEF Contract
  <2> QED BY <1>1, <2>1 DEF Facts, SceneFacts, Bare
<1> QED BY <1>2, <1>3, <1>4, <1>5, StepAssumption

LEMMA PerformedScene ==
  ASSUME Types, NEW t \in Tools, CanPerform(t), NEW s \in Performed(t)
  PROVE  /\ s \in SceneType
         /\ Marks(t) => (s.open <=> "scene.opened" \in Contract(t).effects)
         /\ ~Marks(t) => (s.open <=> scene.open)
<1> DEFINE r == scene.rev + 1
<1>1. scene \in SceneType /\ r \in Nat
  BY DEF Types, SceneType
<1>2. CASE t = "open"
  <2>1. s = [open |-> TRUE, rev |-> r] /\ Contract(t).effects = {"scene.opened"}
    BY <1>2 DEF Performed, Contract
  <2> HIDE DEF r
  <2> QED BY <1>1, <2>1 DEF SceneType, Marks, SceneFacts
<1>3. CASE t = "delete"
  <2>1. s = [open |-> FALSE, rev |-> r] /\ Contract(t).effects = {"scene.none"}
    BY <1>3 DEF Performed, Contract
  <2> HIDE DEF r
  <2> QED BY <1>1, <2>1 DEF SceneType, Marks, SceneFacts
<1>4. CASE t \in {"look", "use"}
  <2>1. s = scene /\ Contract(t).effects = {}
    BY <1>4 DEF Performed, Contract
  <2> QED BY <1>1, <2>1 DEF Marks
<1>5. CASE t \in {"rename", "build"}
  <2>1. s = scene \/ s = [scene EXCEPT !.rev = r]
    BY <1>5 DEF Performed
  <2> HIDE DEF r
  <2>2. s \in SceneType /\ s.open = scene.open
    BY <1>1, <2>1 DEF SceneType
  <2>3. scene.open
    BY <1>5 DEF CanPerform
  <2>4. Marks(t) => "scene.opened" \in Contract(t).effects
    BY <1>5 DEF Marks, Contract, SceneFacts
  <2> QED BY <1>1, <2>2, <2>3, <2>4 DEF SceneType
<1> QED BY <1>2, <1>3, <1>4, <1>5, StepAssumption

LEMMA OfOneFacts ==
  ASSUME NEW effects, NEW invalidates, OfOne(effects, invalidates)
  PROVE  /\ Bare(effects) => invalidates = {}
         /\ "scene.opened" \in effects => "scene.none" \notin effects /\ "scene.opened" \notin invalidates
         /\ "scene.none" \in effects => "scene.opened" \in invalidates
BY ContractFacts DEF OfOne, Bare, SceneFacts

\* Effects that say nothing of the scene may be added.
LEMMA OfOneAndBare ==
  ASSUME NEW effects, NEW invalidates, NEW bare, OfOne(effects, invalidates), Bare(bare)
  PROVE  OfOne(effects \cup bare, invalidates) /\ (Bare(effects \cup bare) <=> Bare(effects))
<1>1. \A fact \in SceneFacts : fact \in effects \cup bare <=> fact \in effects
  BY DEF Bare, SceneFacts
<1>2. Bare(effects \cup bare) <=> Bare(effects)
  BY <1>1 DEF Bare, SceneFacts
<1> QED BY <1>1, <1>2 DEF OfOne

\* The execution after a call.
TheCall(w, t, ok, begun, changed, late) ==
  [w EXCEPT !.calls = @ + 1, !.counts[t] = @ + 1,
            !.wins = IF ok THEN Append(@, t) ELSE @,
            !.rows = IF begun THEN @ ELSE Append(@, t),
            !.effects = IF ok THEN @ \cup Contract(t).effects ELSE @,
            !.invalidates = IF ok THEN @ \cup Contract(t).invalidates ELSE @,
            !.changes = @ + (IF changed THEN 1 ELSE 0),
            !.late = @ \/ late]

IsCall(v, w, t, ok, begun, changed, late) ==
  /\ v.step = w.step /\ v.facts = w.facts /\ v.rev = w.rev
  /\ v.calls = w.calls + 1
  /\ v.counts = [w.counts EXCEPT ![t] = @ + 1]
  /\ v.wins = (IF ok THEN Append(w.wins, t) ELSE w.wins)
  /\ v.rows = (IF begun THEN w.rows ELSE Append(w.rows, t))
  /\ v.effects = (IF ok THEN w.effects \cup Contract(t).effects ELSE w.effects)
  /\ v.invalidates = (IF ok THEN w.invalidates \cup Contract(t).invalidates ELSE w.invalidates)
  /\ changed => v.changes = w.changes + 1
  /\ ~changed => v.changes = w.changes
  /\ v.late <=> (w.late \/ late)

LEMMA CallFields ==
  ASSUME NEW w \in WorkType, NEW t \in Tools, NEW ok \in BOOLEAN, NEW begun \in BOOLEAN,
         NEW changed \in BOOLEAN, NEW late \in BOOLEAN
  PROVE  IsCall(TheCall(w, t, ok, begun, changed, late), w, t, ok, begun, changed, late)
BY DEF WorkType, TheCall, IsCall

With(w, n, c, ws, rs, e, i, m, l) ==
  [w EXCEPT !.calls = n, !.counts = c, !.wins = ws, !.rows = rs, !.effects = e,
            !.invalidates = i, !.changes = m, !.late = l]

LEMMA WithTyped ==
  ASSUME NEW w \in WorkType, NEW n \in 0..MaxCalls, NEW c \in [Tools -> 0..2],
         NEW ws \in Seq(Tools), NEW rs \in Seq(Tools), NEW e \in SUBSET Facts,
         NEW i \in SUBSET Facts, NEW m \in Nat, NEW l \in BOOLEAN
  PROVE  With(w, n, c, ws, rs, e, i, m, l) \in WorkType
BY DEF WorkType, With

LEMMA CallTyped ==
  ASSUME NEW w \in WorkType, NEW t \in Tools, NEW ok \in BOOLEAN, NEW begun \in BOOLEAN,
         NEW changed \in BOOLEAN, NEW late \in BOOLEAN,
         w.calls < MaxCalls, w.counts[t] < 2
  PROVE  TheCall(w, t, ok, begun, changed, late) \in WorkType
<1> DEFINE ws == IF ok THEN Append(w.wins, t) ELSE w.wins
           rs == IF begun THEN w.rows ELSE Append(w.rows, t)
           e == IF ok THEN w.effects \cup Contract(t).effects ELSE w.effects
           i == IF ok THEN w.invalidates \cup Contract(t).invalidates ELSE w.invalidates
           m == w.changes + (IF changed THEN 1 ELSE 0)
           c == [w.counts EXCEPT ![t] = @ + 1]
           n == w.calls + 1
           l == (w.late \/ late)
<1>1. n \in 0..MaxCalls /\ m \in Nat
  BY StepAssumption DEF WorkType
<1>2. c \in [Tools -> 0..2]
  BY DEF WorkType
<1>3. ws \in Seq(Tools) /\ rs \in Seq(Tools)
  BY DEF WorkType
<1>4. e \in SUBSET Facts /\ i \in SUBSET Facts
  BY ContractFacts DEF WorkType
<1>5. l \in BOOLEAN
  BY DEF WorkType
<1>6. TheCall(w, t, ok, begun, changed, late) = With(w, n, c, ws, rs, e, i, m, l)
  BY DEF TheCall, With
<1> HIDE DEF n, c, ws, rs, e, i, m, l
<1> QED BY <1>1, <1>2, <1>3, <1>4, <1>5, <1>6, WithTyped

LEMMA WorkNotRest == ASSUME NEW w \in WorkType PROVE w # Rest
<1>1. "calls" \in DOMAIN w
  BY DEF WorkType
<1>2. "calls" \notin DOMAIN Rest
  BY DEF Rest
<1> QED BY <1>1, <1>2

-----------------------------------------------------------------------------
(* The beginning *)

LEMMA StepInit == Init => WInv
<1> SUFFICES ASSUME Init PROVE WInv
  OBVIOUS
<1>0. work = Rest /\ results = <<>> /\ exec = 0 /\ strayed = FALSE
  BY DEF Init
<1>1. scene \in SceneType /\ scene.rev = 0
  BY DEF Init, SceneType
<1>2. context \in ContextType /\ context.rev = 0 /\ (context.status = "opened" <=> scene.open)
  BY <1>1 DEF Init, ContextType, SceneType
<1>3. NoRow \in RowType /\ NoRow.rev = 0 /\ NoRow.result = "none" /\ ~NoRow.named
  BY StepAssumption DEF NoRow, RowType
<1>4. ledger = [s \in Steps |-> [t \in Tools |-> NoRow]]
  BY DEF Init
<1>5. /\ ledger \in [Steps -> [Tools -> RowType]]
      /\ \A s \in Steps, t \in Tools : ledger[s][t] = NoRow
  BY <1>3, <1>4
<1>6. status \in [Steps -> {"pending", "waiting", "succeeded", "failed"}] /\ 0 \in 0..MaxExecs
  BY StepAssumption DEF Init
<1>7. Types
  <2>1. strayed \in BOOLEAN
    BY <1>0, Zenon
  <2>2. results \in Seq(ResultType) /\ exec \in 0..MaxExecs
    BY <1>0, <1>6
  <2> QED BY <1>0, <1>1, <1>2, <1>5, <1>6, <2>1, <2>2 DEF Types
<1>8. WorkOK /\ ResultsOK /\ RowsOK
  BY <1>0, <1>2, <1>3, <1>5 DEF WorkOK, ResultsOK, RowsOK
<1>9. Truth
  BY <1>0, <1>2, <1>3, <1>5 DEF Truth, NamedTrue, MarksHeld, LastSays, SceneKnown, Untouched
<1> QED BY <1>7, <1>8, <1>9 DEF WInv

LEMMA FactsTyped == TheFacts \in SUBSET Facts
BY DEF TheFacts, Facts, SceneFacts

LEMMA BeginKeeps == ASSUME NEW s \in Steps PROVE WInv /\ Begin(s) => WInv'
<1> SUFFICES ASSUME WInv, Begin(s) PROVE WInv'
  OBVIOUS
<1>1. /\ work = Rest /\ status[s] \in {"pending", "waiting"} /\ exec < MaxExecs /\ exec' = exec + 1
      /\ work' = [step |-> s, facts |-> TheFacts, rev |-> context.rev, calls |-> 0,
                  counts |-> [t \in Tools |-> 0], wins |-> <<>>, rows |-> <<>>,
                  effects |-> {}, invalidates |-> {}, changes |-> 0, late |-> FALSE]
      /\ UNCHANGED <<scene, context, results, status, ledger, strayed>>
  BY DEF Begin
<1>2. context.rev \in Nat /\ 0 \in 0..MaxCalls /\ exec' \in 0..MaxExecs
  BY <1>1, StepAssumption DEF WInv, Types, ContextType
<1>3. [t \in Tools |-> 0] \in [Tools -> 0..2]
  OBVIOUS
<1>4. work' \in WorkType
  BY <1>1, <1>2, <1>3, FactsTyped DEF WorkType
<1>5. /\ work'.step = s /\ work'.rev = context.rev /\ work'.wins = <<>> /\ work'.rows = <<>>
      /\ work'.effects = {} /\ work'.invalidates = {} /\ work'.changes = 0 /\ work'.late = FALSE
      /\ work'.calls = 0
  BY <1>1
<1>6. Types'
  BY <1>1, <1>2, <1>4, <1>5 DEF WInv, Types
<1>7. WorkOK' /\ ResultsOK' /\ RowsOK'
  BY <1>1, <1>5 DEF WInv, WorkOK, ResultsOK, RowsOK
<1>8. Truth'
  BY <1>1, <1>5 DEF WInv, Truth, Straight, NamedTrue, MarksHeld, LastSays, SceneKnown, Untouched, Marks, OfOne, Bare
<1> QED BY <1>6, <1>7, <1>8 DEF WInv

-----------------------------------------------------------------------------
(* An execution that does not succeed *)

LEMMA AtWork ==
  ASSUME WInv, work # Rest
  PROVE  /\ work \in WorkType /\ work.step \in Steps
         /\ status[work.step] \in {"pending", "waiting"}
         /\ \A i \in DOMAIN results : results[i] \in ResultType /\ results[i].step \in Steps
         /\ \A i \in DOMAIN results : results[i].step # work.step
<1>1. work \in WorkType /\ results \in Seq(ResultType)
  BY DEF WInv, Types
<1>2. \A i \in DOMAIN results : results[i] \in ResultType /\ results[i].step \in Steps
  <2>1. \A i \in DOMAIN results : results[i] \in ResultType
    BY <1>1
  <2>2. \A r \in ResultType : r.step \in Steps
    BY DEF ResultType
  <2> QED BY <2>1, <2>2
<1>3. work.step \in Steps /\ status[work.step] \in {"pending", "waiting"}
  BY <1>1 DEF WInv, WorkOK, WorkType
<1>4. \A i \in DOMAIN results : status[results[i].step] = "succeeded"
  BY DEF WInv, ResultsOK
<1>5. \A i \in DOMAIN results : results[i].step # work.step
  BY <1>3, <1>4
<1> QED BY <1>1, <1>2, <1>3, <1>5

LEMMA StopKeeps ==
  ASSUME WInv, work # Rest, NEW outcome \in {"failed", "waiting"}, End(outcome),
         UNCHANGED <<context, results>>
  PROVE  WInv'
<1>1. /\ status' = [status EXCEPT ![work.step] = outcome] /\ work' = Rest
      /\ strayed' = (strayed \/ Stray(outcome))
      /\ UNCHANGED <<scene, exec, ledger, context, results>>
  BY DEF End
<1>2. status \in [Steps -> {"pending", "waiting", "succeeded", "failed"}] /\ strayed \in BOOLEAN
  BY DEF WInv, Types
<1>3. /\ status' \in [Steps -> {"pending", "waiting", "succeeded", "failed"}]
      /\ \A s \in Steps : s # work.step => status'[s] = status[s]
  BY <1>1, <1>2, AtWork
<1>4. Types'
  <2>1. strayed' \in BOOLEAN
    BY <1>1, <1>2
  <2> QED BY <1>1, <1>3, <2>1 DEF WInv, Types
<1>5. WorkOK' /\ ResultsOK' /\ RowsOK'
  BY <1>1, <1>3, AtWork DEF WInv, WorkOK, ResultsOK, RowsOK
<1>6. Truth'
  <2> SUFFICES ASSUME Straight' PROVE (NamedTrue /\ MarksHeld /\ LastSays /\ SceneKnown)'
    BY DEF Truth
  <2>1. Straight /\ ~Stray(outcome)
    BY <1>1 DEF Straight
  <2>2. NamedTrue /\ MarksHeld /\ LastSays /\ SceneKnown
    BY <2>1 DEF WInv, Truth
  <2>3. work.changes = 0 /\ ~work.late
    <3>1. work.changes \in Nat /\ ~(work.changes > 1) /\ work.changes # 1 /\ ~work.late
      BY <2>1, AtWork DEF Stray, WorkType
    <3> QED BY <3>1
  <2>4. NamedTrue' /\ LastSays' /\ SceneKnown'
    BY <1>1, <2>2, <2>3 DEF NamedTrue, LastSays, SceneKnown, Untouched, OfOne, Marks
  <2>5. Bare(work.effects)
    BY <2>2, <2>3 DEF SceneKnown
  <2>6. ASSUME NEW s \in Steps, NEW t \in Tools, Marks(t), ledger[s][t].result = "ok"
        PROVE  status'[s] = "succeeded"
    <3>1. ~Won(t)
      BY <2>5, <2>6, ContractFacts DEF Won, Bare, WInv, WorkOK
    <3>2. status[s] = "succeeded"
      BY <2>2, <2>3, <2>6, <3>1 DEF MarksHeld
    <3> QED BY <1>3, <3>2, AtWork
  <2>7. MarksHeld'
    BY <1>1, <2>6 DEF MarksHeld, Marks
  <2> QED BY <2>4, <2>7
<1> QED BY <1>4, <1>5, <1>6 DEF WInv

LEMMA StopsKeep ==
  ASSUME WInv, NoScene \/ NoProgress \/ Gives("failed") \/ Gives("waiting")
  PROVE  WInv'
<1>1. PICK outcome \in {"failed", "waiting"} :
        work # Rest /\ End(outcome) /\ UNCHANGED <<context, results>>
  BY DEF NoScene, NoProgress, Gives
<1> QED BY <1>1, StopKeeps

-----------------------------------------------------------------------------
(* An execution that makes a call *)

LEMMA ToldWork ==
  ASSUME WInv, NEW t \in Tools, Sends(t), NEW ok \in BOOLEAN, NEW changed \in BOOLEAN,
         NEW late \in BOOLEAN, Told(t, ok, changed, late)
  PROVE  /\ work' \in WorkType /\ work' # Rest /\ Len(work'.rows) <= work'.calls
         /\ work'.step = work.step /\ work'.rev = work.rev
         /\ work'.wins = (IF ok THEN Append(work.wins, t) ELSE work.wins)
         /\ work'.rows = (IF Begun(t) THEN work.rows ELSE Append(work.rows, t))
         /\ work'.effects = (IF ok THEN work.effects \cup Contract(t).effects ELSE work.effects)
         /\ work'.invalidates = (IF ok THEN work.invalidates \cup Contract(t).invalidates
                                 ELSE work.invalidates)
         /\ changed => work'.changes = work.changes + 1
         /\ ~changed => work'.changes = work.changes
         /\ work'.late <=> (work.late \/ late)
<1>1. work # Rest /\ work.calls < MaxCalls /\ work.counts[t] < 2 /\ Begun(t) \in BOOLEAN
  BY DEF Sends, Begun
<1>2. work \in WorkType /\ Len(work.rows) <= work.calls
  BY <1>1 DEF WInv, Types
<1>3. work' = TheCall(work, t, ok, Begun(t), changed, late)
  BY DEF Told, TheCall
<1>4. work' \in WorkType /\ work' # Rest
  BY <1>1, <1>2, <1>3, CallTyped, WorkNotRest
<1>5. /\ work'.step = work.step /\ work'.rev = work.rev /\ work'.calls = work.calls + 1
      /\ work'.wins = (IF ok THEN Append(work.wins, t) ELSE work.wins)
      /\ work'.rows = (IF Begun(t) THEN work.rows ELSE Append(work.rows, t))
      /\ work'.effects = (IF ok THEN work.effects \cup Contract(t).effects ELSE work.effects)
      /\ work'.invalidates = (IF ok THEN work.invalidates \cup Contract(t).invalidates
                              ELSE work.invalidates)
      /\ changed => work'.changes = work.changes + 1
      /\ ~changed => work'.changes = work.changes
      /\ work'.late <=> (work.late \/ late)
  <2>1. IsCall(work', work, t, ok, Begun(t), changed, late)
    <3> HIDE DEF TheCall, IsCall, Begun
    <3> QED BY <1>1, <1>2, <1>3, CallFields
  <2> QED BY <2>1 DEF IsCall
<1>6. Len(work'.rows) <= work'.calls
  <2>1. work.rows \in Seq(Tools) /\ work.calls \in Nat
    BY <1>2, StepAssumption DEF WorkType
  <2> QED BY <1>2, <1>5, <2>1
<1> QED BY <1>4, <1>5, <1>6

\* What a call may do to the row n it uses and to the scene.
Fair(n, t, ok, changed, late) ==
  /\ n.rev = work.rev
  /\ ok => n.result = "ok"
  /\ n.result # "none" => \A i \in (n.after + 1)..Len(results) : Past(results[i], n.rev)
  /\ Straight /\ Untouched /\ ~changed /\ ~late /\ n.named => scene'.open
  /\ Straight /\ ~late /\ ~work.late /\ ok /\ ~changed => ~Marks(t)
  /\ changed => ok /\ Marks(t) /\ (scene'.open <=> "scene.opened" \in Contract(t).effects)
  /\ ~changed /\ ~late => (scene'.open <=> scene.open)
  /\ Straight /\ Marks(t) /\ n.result = "ok" => ok \/ late \/ work.late

LEMMA CallKeeps ==
  ASSUME WInv, NEW t \in Tools, Sends(t), NEW ok \in BOOLEAN, NEW changed \in BOOLEAN,
         NEW late \in BOOLEAN, Told(t, ok, changed, late), Fair(ledger'[work.step][t], t, ok, changed, late),
         scene' \in SceneType, ledger' \in [Steps -> [Tools -> RowType]],
         \A s \in Steps, x \in Tools : s # work.step \/ x # t => ledger'[s][x] = ledger[s][x],
         UNCHANGED <<context, results, status, exec, strayed>>
  PROVE  WInv'
<1>1. /\ work # Rest /\ ~Won(t) /\ work \in WorkType /\ work.step \in Steps
      /\ work.wins \in Seq(Tools) /\ work.rows \in Seq(Tools) /\ work.changes \in Nat
  BY AtWork DEF Sends, WorkType
<1>2. /\ work' \in WorkType /\ work' # Rest /\ Len(work'.rows) <= work'.calls
      /\ work'.step = work.step /\ work'.rev = work.rev
      /\ work'.wins = (IF ok THEN Append(work.wins, t) ELSE work.wins)
      /\ work'.rows = (IF Begun(t) THEN work.rows ELSE Append(work.rows, t))
      /\ work'.effects = (IF ok THEN work.effects \cup Contract(t).effects ELSE work.effects)
      /\ work'.invalidates = (IF ok THEN work.invalidates \cup Contract(t).invalidates
                              ELSE work.invalidates)
      /\ changed => work'.changes = work.changes + 1
      /\ ~changed => work'.changes = work.changes
      /\ work'.late <=> (work.late \/ late)
  BY ToldWork
<1> DEFINE n == ledger'[work.step][t]
<1>0. Fair(n, t, ok, changed, late)
  OBVIOUS
<1> HIDE DEF n
<1>3. /\ n.rev = work.rev /\ (ok => n.result = "ok")
      /\ n.result # "none" => \A i \in (n.after + 1)..Len(results) : Past(results[i], n.rev)
  BY <1>0 DEF Fair
<1>4. Types'
  BY <1>2 DEF WInv, Types
<1>5. ASSUME NEW i \in DOMAIN work'.wins
      PROVE  \/ i \in DOMAIN work.wins /\ work'.wins[i] = work.wins[i] /\ work.wins[i] \in Tools
                  /\ work.wins[i] # t
             \/ ok /\ work'.wins[i] = t
  <2>1. CASE ok
    BY <1>1, <1>2, <1>5, <2>1 DEF Won
  <2>2. CASE ~ok
    BY <1>1, <1>2, <1>5, <2>2 DEF Won
  <2> QED BY <2>1, <2>2
<1>6. \A i \in DOMAIN work.wins : i \in DOMAIN work'.wins /\ work'.wins[i] = work.wins[i]
  BY <1>1, <1>2
<1>7. ok => \E i \in DOMAIN work'.wins : work'.wins[i] = t
  <2>1. ok => Len(work.wins) + 1 \in DOMAIN work'.wins /\ work'.wins[Len(work.wins) + 1] = t
    BY <1>1, <1>2
  <2> QED BY <2>1
<1>8. ASSUME NEW i \in DOMAIN work'.rows
      PROVE  \/ i \in DOMAIN work.rows /\ work'.rows[i] = work.rows[i] /\ work.rows[i] \in Tools
             \/ work'.rows[i] = t
  <2>1. CASE Begun(t)
    BY <1>1, <1>2, <1>8, <2>1
  <2>2. CASE ~Begun(t)
    BY <1>1, <1>2, <1>8, <2>2
  <2> QED BY <2>1, <2>2
<1>9. WorkOK'
  <2>1. /\ work.rev = context.rev /\ status[work.step] \in {"pending", "waiting"}
        /\ \A i \in DOMAIN work.wins : /\ ledger[work.step][work.wins[i]].result = "ok"
                                       /\ ledger[work.step][work.wins[i]].rev = work.rev
                                       /\ Contract(work.wins[i]).effects \subseteq work.effects
        /\ \A i \in DOMAIN work.rows : ledger[work.step][work.rows[i]].rev = work.rev
        /\ \A fact \in work.effects : \E i \in DOMAIN work.wins : fact \in Contract(work.wins[i]).effects
    BY <1>1 DEF WInv, WorkOK, Row
  <2>2. ASSUME NEW i \in DOMAIN work'.wins
        PROVE  /\ ledger'[work'.step][work'.wins[i]].result = "ok"
               /\ ledger'[work'.step][work'.wins[i]].rev = work'.rev
               /\ Contract(work'.wins[i]).effects \subseteq work'.effects
    <3>1. CASE i \in DOMAIN work.wins /\ work'.wins[i] = work.wins[i] /\ work.wins[i] \in Tools
                 /\ work.wins[i] # t
      <4>1. ledger'[work.step][work.wins[i]] = ledger[work.step][work.wins[i]]
        BY <1>1, <3>1
      <4>2. work.effects \subseteq work'.effects
        BY <1>2
      <4> QED BY <1>2, <2>1, <3>1, <4>1, <4>2
    <3>2. CASE ok /\ work'.wins[i] = t
      BY <1>2, <1>3, <3>2 DEF n
    <3> QED BY <1>5, <3>1, <3>2
  <2>3. ASSUME NEW i \in DOMAIN work'.rows
        PROVE  ledger'[work'.step][work'.rows[i]].rev = work'.rev
    <3>1. CASE i \in DOMAIN work.rows /\ work'.rows[i] = work.rows[i] /\ work.rows[i] \in Tools
                 /\ work.rows[i] # t
      BY <1>1, <1>2, <2>1, <3>1
    <3>2. CASE work'.rows[i] = t
      BY <1>2, <1>3, <3>2 DEF n
    <3> QED BY <1>8, <3>1, <3>2
  <2>4. ASSUME NEW fact \in work'.effects
        PROVE  \E i \in DOMAIN work'.wins : fact \in Contract(work'.wins[i]).effects
    <3>1. fact \in work.effects \/ (ok /\ fact \in Contract(t).effects)
      BY <1>2, <2>4
    <3> QED BY <1>6, <1>7, <2>1, <3>1
  <2> QED BY <1>2, <2>1, <2>2, <2>3, <2>4 DEF WorkOK, Row
<1>10. ResultsOK'
  BY <1>1, AtWork DEF WInv, ResultsOK
<1>11. RowsOK'
  <2>1. work.rev = context.rev /\ context.rev \in Nat
    BY <1>1 DEF WInv, WorkOK, Types, ContextType
  <2>2. ASSUME NEW s \in Steps, NEW x \in Tools
        PROVE  /\ ledger'[s][x].rev <= context.rev
               /\ ledger'[s][x].rev = context.rev /\ ledger'[s][x].result # "none" =>
                    \A i \in (ledger'[s][x].after + 1)..Len(results) :
                      Past(results[i], ledger'[s][x].rev)
    <3>1. CASE s = work.step /\ x = t
      BY <1>3, <2>1, <3>1 DEF n
    <3>2. CASE s # work.step \/ x # t
      BY <3>2 DEF WInv, RowsOK
    <3> QED BY <3>1, <3>2
  <2> QED BY <2>2 DEF RowsOK
<1>12. Truth'
  <2> SUFFICES ASSUME Straight' PROVE (NamedTrue /\ MarksHeld /\ LastSays /\ SceneKnown)'
    BY DEF Truth
  <2>1. Straight
    BY DEF Straight
  <2>2. NamedTrue /\ MarksHeld /\ LastSays /\ SceneKnown
    BY <2>1 DEF WInv, Truth
  <2>3. /\ Untouched /\ ~changed /\ ~late /\ n.named => scene'.open
        /\ ~late /\ ~work.late /\ ok /\ ~changed => ~Marks(t)
        /\ changed => ok /\ Marks(t) /\ (scene'.open <=> "scene.opened" \in Contract(t).effects)
        /\ ~changed /\ ~late => (scene'.open <=> scene.open)
        /\ Marks(t) /\ n.result = "ok" => ok \/ late \/ work.late
    BY <1>0, <2>1 DEF Fair
  <2>4. Untouched' => Untouched /\ ~changed /\ ~late
    <3>1. work'.changes = 0 => ~changed /\ work.changes = 0
      BY <1>1, <1>2
    <3> QED BY <1>2, <3>1 DEF Untouched
  <2>5. NamedTrue'
    <3> SUFFICES ASSUME Untouched', NEW s \in Steps, NEW x \in Tools,
                        ledger'[s][x].named, ledger'[s][x].rev = context.rev
                 PROVE  scene'.open
      BY DEF NamedTrue
    <3>1. CASE s = work.step /\ x = t
      BY <2>3, <2>4, <3>1 DEF n
    <3>2. CASE s # work.step \/ x # t
      BY <2>2, <2>3, <2>4, <3>2 DEF NamedTrue
    <3> QED BY <3>1, <3>2
  <2>6. MarksHeld'
    <3> SUFFICES ASSUME NEW s \in Steps, NEW x \in Tools, Marks(x), ledger'[s][x].result = "ok"
                 PROVE  status[s] = "succeeded"
                          \/ (work'.step = s /\ (Won(x)' \/ work'.late))
      BY <1>2 DEF MarksHeld, Marks
    <3>1. CASE s = work.step /\ x = t
      BY <1>2, <1>7, <2>3, <3>1 DEF n, Won
    <3>2. CASE s # work.step \/ x # t
      <4>1. status[s] = "succeeded" \/ (work.step = s /\ (Won(x) \/ work.late))
        BY <2>2, <3>2 DEF MarksHeld
      <4> QED BY <1>2, <1>6, <4>1 DEF Won
    <3> QED BY <3>1, <3>2
  <2>7. LastSays'
    BY <2>2 DEF LastSays, OfOne, Marks
  <2>8. Untouched' => (context.status = "opened" <=> scene'.open)
    BY <2>2, <2>3, <2>4 DEF SceneKnown
  <2>9. ~work'.late /\ work'.changes = 0 => Bare(work'.effects) /\ work'.invalidates = {}
    <3> SUFFICES ASSUME ~work'.late, work'.changes = 0
                 PROVE  Bare(work'.effects) /\ work'.invalidates = {}
      OBVIOUS
    <3>1. ~work.late /\ ~late /\ work.changes = 0 /\ ~changed
      BY <1>1, <1>2
    <3>2. Bare(work.effects) /\ work.invalidates = {}
      BY <1>1, <2>2, <3>1 DEF SceneKnown
    <3>3. ok => Bare(Contract(t).effects) /\ Contract(t).invalidates = {}
      BY <2>3, <3>1, ContractFacts
    <3> QED BY <1>2, <3>2, <3>3 DEF Bare
  <2>10. ~work'.late /\ work'.changes = 1 =>
           /\ OfOne(work'.effects, work'.invalidates) /\ ~Bare(work'.effects)
           /\ scene'.open <=> "scene.opened" \in work'.effects
    <3> SUFFICES ASSUME ~work'.late, work'.changes = 1
                 PROVE  /\ OfOne(work'.effects, work'.invalidates) /\ ~Bare(work'.effects)
                        /\ scene'.open <=> "scene.opened" \in work'.effects
      OBVIOUS
    <3>1. ~work.late /\ ~late
      BY <1>2
    <3>2. CASE changed
      <4>1. work.changes = 0
        BY <1>1, <1>2, <3>2
      <4>2. Bare(work.effects) /\ work.invalidates = {}
        BY <1>1, <2>2, <3>1, <4>1 DEF SceneKnown
      <4>3. /\ work'.effects = work.effects \cup Contract(t).effects
            /\ work'.invalidates = Contract(t).invalidates
        BY <1>2, <2>3, <3>2, <4>2
      <4>4. \A fact \in SceneFacts : fact \in work'.effects <=> fact \in Contract(t).effects
        BY <4>2, <4>3 DEF Bare, SceneFacts
      <4>5. ~Bare(work'.effects) /\ ("scene.opened" \in work'.effects <=> "scene.opened" \in Contract(t).effects)
        BY <2>3, <3>2, <4>4, ContractFacts DEF Bare, SceneFacts
      <4>6. OfOne(work'.effects, work'.invalidates)
        BY <2>3, <3>2, <4>3, <4>4 DEF OfOne
      <4> QED BY <2>3, <3>2, <4>5, <4>6
    <3>3. CASE ~changed
      <4>1. work.changes = 1
        BY <1>1, <1>2, <3>3
      <4>2. /\ OfOne(work.effects, work.invalidates) /\ ~Bare(work.effects)
            /\ scene.open <=> "scene.opened" \in work.effects
        BY <1>1, <2>2, <3>1, <4>1 DEF SceneKnown
      <4>3. ok => Bare(Contract(t).effects) /\ Contract(t).invalidates = {}
        BY <2>3, <3>1, <3>3, ContractFacts
      <4>4. /\ work'.invalidates = work.invalidates
            /\ \/ work'.effects = work.effects
               \/ /\ Bare(Contract(t).effects)
                  /\ work'.effects = work.effects \cup Contract(t).effects
        BY <1>2, <4>3
      <4>5. OfOne(work'.effects, work'.invalidates) /\ ~Bare(work'.effects)
        BY <4>2, <4>4, OfOneAndBare
      <4>6. "scene.opened" \in work'.effects <=> "scene.opened" \in work.effects
        BY <4>4 DEF Bare
      <4> QED BY <2>3, <3>1, <3>3, <4>2, <4>5, <4>6
    <3> QED BY <3>2, <3>3
  <2>11. SceneKnown'
    BY <2>8, <2>9, <2>10 DEF SceneKnown, OfOne, Marks
  <2> QED BY <2>5, <2>6, <2>7, <2>11
<1> QED BY <1>4, <1>9, <1>10, <1>11, <1>12 DEF WInv

LEMMA RowTyped ==
  ASSUME WInv, work # Rest, NEW t \in Tools, NEW result \in {"none", "ok", "bad"},
         NEW after \in SceneType
  PROVE  LET n == NewRow(t, result, after) IN
         /\ n \in RowType /\ n.rev = work.rev /\ n.result = result
         /\ n.named => after.open
         /\ result # "none" => n.after = Len(results)
<1> DEFINE e == IF Begun(t) THEN Row(t).exec ELSE exec
           named == (result # "none" /\ after.open)
           srev == IF result # "none" /\ after.open THEN after.rev ELSE 0
           place == IF result # "none" THEN Len(results) ELSE 0
<1>1. work.step \in Steps /\ work.rev \in Nat
  BY AtWork DEF WorkType
<1>2. e \in 0..MaxExecs
  <2>1. Row(t) \in RowType /\ exec \in 0..MaxExecs
    BY <1>1 DEF WInv, Types, Row
  <2>2. Row(t).exec \in 0..MaxExecs
    BY <2>1 DEF RowType
  <2> QED BY <2>1, <2>2
<1>3. srev \in Nat /\ named \in BOOLEAN
  BY DEF SceneType
<1>4. place \in Nat
  BY DEF WInv, Types
<1>5. NewRow(t, result, after) = [rev |-> work.rev, exec |-> e, result |-> result, named |-> named,
                                  srev |-> srev, after |-> place]
  BY DEF NewRow
<1>6. (named => after.open) /\ (result # "none" => place = Len(results))
  OBVIOUS
<1> HIDE DEF e, named, srev, place
<1> QED BY <1>1, <1>2, <1>3, <1>4, <1>5, <1>6 DEF RowType

LEMMA Younger ==
  ASSUME WInv
  PROVE  \A i \in (Len(results) + 1)..Len(results) : Past(results[i], work.rev)
BY DEF WInv, Types

LEMMA ReplayKeeps == ASSUME NEW t \in Tools, WInv, Replay(t) PROVE WInv'
<1> DEFINE ok == (Row(t).result = "ok")
<1>1. /\ Sends(t) /\ Recorded(t) /\ Told(t, ok, FALSE, FALSE)
      /\ UNCHANGED <<scene, context, results, status, exec, ledger, strayed>>
  BY DEF Replay
<1>2. /\ work # Rest /\ ~Won(t) /\ work \in WorkType /\ work.step \in Steps
      /\ status[work.step] \in {"pending", "waiting"} /\ work.rev = context.rev
  BY <1>1, AtWork DEF Sends, WInv, WorkOK
<1>3. ledger' \in [Steps -> [Tools -> RowType]] /\ scene' \in SceneType
  BY <1>1 DEF WInv, Types
<1>4. Row(t) = ledger[work.step][t] /\ Row(t).rev = work.rev /\ Row(t).result # "none"
  BY <1>1 DEF Recorded, Row
<1>5. Straight => ~Marks(t) \/ ~ok \/ work.late
  BY <1>2, <1>4 DEF WInv, Truth, MarksHeld
<1>6. Straight /\ Untouched /\ Row(t).named => scene.open
  BY <1>2, <1>4 DEF WInv, Truth, NamedTrue
<1>7. \A i \in (Row(t).after + 1)..Len(results) : Past(results[i], Row(t).rev)
  BY <1>2, <1>4 DEF WInv, RowsOK
<1>8. Fair(ledger'[work.step][t], t, ok, FALSE, FALSE)
  BY <1>1, <1>4, <1>5, <1>6, <1>7 DEF Fair
<1>9. ok \in BOOLEAN
  OBVIOUS
<1> HIDE DEF ok
<1> QED BY <1>1, <1>3, <1>8, <1>9, CallKeeps

LEMMA PerformKeeps == ASSUME NEW t \in Tools, WInv, Perform(t) PROVE WInv'
<1>1. PICK result \in {"ok", "bad"} :
        /\ result = "ok" => CanPerform(t)
        /\ scene' \in IF result = "ok" THEN Performed(t) ELSE {scene}
        /\ ledger' = [ledger EXCEPT ![work.step][t] = NewRow(t, result, scene')]
        /\ Told(t, result = "ok", result = "ok" /\ Marks(t), FALSE)
  BY DEF Perform
<1> DEFINE ok == (result = "ok")
           changed == (result = "ok" /\ Marks(t))
<1>2. Sends(t) /\ UNCHANGED <<context, results, status, exec, strayed>> /\ Told(t, ok, changed, FALSE)
  BY <1>1 DEF Perform
<1>3. work # Rest /\ work \in WorkType /\ work.step \in Steps
  BY <1>2, AtWork DEF Sends
<1>4. Types
  BY DEF WInv
<1>5. /\ scene' \in SceneType
      /\ ok /\ Marks(t) => (scene'.open <=> "scene.opened" \in Contract(t).effects)
      /\ ~(ok /\ Marks(t)) => (scene'.open <=> scene.open)
  BY <1>1, <1>4, PerformedScene DEF Types
<1> DEFINE n == NewRow(t, result, scene')
<1>6. /\ n \in RowType /\ n.rev = work.rev /\ n.result = result
      /\ n.named => scene'.open
      /\ result # "none" => n.after = Len(results)
  BY <1>3, <1>5, RowTyped
<1>7. /\ ledger' = [ledger EXCEPT ![work.step][t] = n]
      /\ ledger \in [Steps -> [Tools -> RowType]]
  BY <1>1, <1>4 DEF Types
<1> HIDE DEF n
<1>8. /\ ledger' \in [Steps -> [Tools -> RowType]] /\ ledger'[work.step][t] = n
      /\ \A s \in Steps, x \in Tools : s # work.step \/ x # t => ledger'[s][x] = ledger[s][x]
  BY <1>3, <1>6, <1>7
<1>9. Fair(n, t, ok, changed, FALSE)
  BY <1>5, <1>6, Younger DEF Fair
<1>10. ok \in BOOLEAN /\ changed \in BOOLEAN
  OBVIOUS
<1> HIDE DEF ok, changed
<1> QED BY <1>2, <1>5, <1>8, <1>9, <1>10, CallKeeps

LEMMA TimesOutKeeps == ASSUME NEW t \in Tools, WInv, TimesOut(t) PROVE WInv'
<1>1. PICK did, known \in BOOLEAN :
        /\ did => CanPerform(t)
        /\ known => did /\ Belongs(t)
        /\ scene' \in IF did THEN Performed(t) ELSE {scene}
        /\ ledger' = [ledger EXCEPT ![work.step][t] =
                        NewRow(t, IF known THEN "ok" ELSE "none", scene')]
        /\ Told(t, FALSE, FALSE, did /\ Marks(t))
  BY DEF TimesOut
<1> DEFINE late == (did /\ Marks(t))
           result == IF known THEN "ok" ELSE "none"
<1>2. Sends(t) /\ UNCHANGED <<context, results, status, exec, strayed>> /\ Told(t, FALSE, FALSE, late)
  BY <1>1 DEF TimesOut
<1>3. work # Rest /\ work \in WorkType /\ work.step \in Steps
  BY <1>2, AtWork DEF Sends
<1>4. Types
  BY DEF WInv
<1>5. /\ scene' \in SceneType
      /\ ~late => (scene'.open <=> scene.open)
  BY <1>1, <1>4, PerformedScene DEF Types
<1> DEFINE n == NewRow(t, result, scene')
<1>6. /\ n \in RowType /\ n.rev = work.rev /\ n.result = result
      /\ n.named => scene'.open
      /\ result # "none" => n.after = Len(results)
  BY <1>3, <1>5, RowTyped
<1>7. /\ ledger' = [ledger EXCEPT ![work.step][t] = n]
      /\ ledger \in [Steps -> [Tools -> RowType]]
  BY <1>1, <1>4 DEF Types
<1> HIDE DEF n
<1>8. /\ ledger' \in [Steps -> [Tools -> RowType]] /\ ledger'[work.step][t] = n
      /\ \A s \in Steps, x \in Tools : s # work.step \/ x # t => ledger'[s][x] = ledger[s][x]
  BY <1>3, <1>6, <1>7
<1>9. Marks(t) /\ result = "ok" => late
  BY <1>1
<1>10. Fair(n, t, FALSE, FALSE, late)
  BY <1>5, <1>6, <1>9, Younger DEF Fair
<1>11. late \in BOOLEAN
  OBVIOUS
<1> HIDE DEF late, result
<1> QED BY <1>2, <1>5, <1>8, <1>10, <1>11, CallKeeps

-----------------------------------------------------------------------------
(* An execution that succeeds *)

\* The named scene is that of a call under the present revision.
LEMMA AckNamed ==
  ASSUME WInv, work # Rest, NEW evidence,
         evidence # None => evidence \in Tools /\ Won(evidence)
  PROVE  /\ Acknowledged(evidence).srev \in Nat
         /\ ~Acknowledged(evidence).named => Acknowledged(evidence).srev = 0
         /\ Acknowledged(evidence).named =>
              \E t \in Tools : Row(t).named /\ Row(t).rev = work.rev
<1>1. /\ work \in WorkType /\ work.step \in Steps /\ work.rows \in Seq(Tools)
      /\ work.wins \in Seq(Tools)
  BY AtWork DEF WorkType
<1>2. \A t \in Tools : Row(t) \in RowType
  BY <1>1 DEF WInv, Types, Row
<1>3. \A t \in Tools : Row(t).srev \in Nat
  BY <1>2 DEF RowType
<1>4. /\ \A i \in DOMAIN work.rows : work.rows[i] \in Tools /\ Row(work.rows[i]).rev = work.rev
      /\ \A i \in DOMAIN work.wins : Row(work.wins[i]).rev = work.rev
  BY <1>1 DEF WInv, WorkOK
<1> DEFINE naming == {i \in DOMAIN work.rows : Row(work.rows[i]).named}
           last == CHOOSE i \in naming : \A j \in naming : j <= i
<1>5. CASE naming # {}
  <2>1. Len(work.rows) \in Nat /\ naming \in SUBSET (1..Len(work.rows))
    BY <1>1
  <2>2. \E i \in naming : \A j \in naming : j <= i
    <3> HIDE DEF naming
    <3> QED BY <1>5, <2>1, Greatest
  <2>3. last \in naming
    <3> HIDE DEF naming
    <3> QED BY <2>2
  <2>4. Acknowledged(evidence) = [named |-> TRUE, srev |-> Row(work.rows[last]).srev]
    BY <1>5 DEF Acknowledged
  <2>5. last \in DOMAIN work.rows /\ Row(work.rows[last]).named
    BY <2>3
  <2> HIDE DEF last, naming
  <2>6. work.rows[last] \in Tools /\ Row(work.rows[last]).rev = work.rev
    BY <1>4, <2>5
  <2>7. Row(work.rows[last]).srev \in Nat
    BY <1>3, <2>6
  <2> HIDE DEF Row
  <2> QED BY <2>4, <2>5, <2>6, <2>7
<1>6. CASE naming = {} /\ (evidence = None \/ ~Row(evidence).named)
  BY <1>6 DEF Acknowledged, Unnamed
<1>7. CASE naming = {} /\ ~(evidence = None \/ ~Row(evidence).named)
  <2>1. Acknowledged(evidence)
          = [named |-> TRUE, srev |-> IF evidence = "look" THEN 0 ELSE Row(evidence).srev]
    BY <1>7 DEF Acknowledged
  <2>2. evidence \in Tools /\ Row(evidence).named /\ Row(evidence).rev = work.rev
    BY <1>4, <1>7 DEF Won
  <2> QED BY <1>3, <2>1, <2>2
<1> QED BY <1>5, <1>6, <1>7

\* What the context is after the effects, and how its revision goes.
Applied(c, effects, ack) ==
  /\ c \in ContextType /\ context.rev <= c.rev
  /\ ~Bare(effects) => context.rev < c.rev
  /\ Bare(effects) => ack.srev <= c.rev
  /\ "scene.none" \in effects => c.status = "none"
  /\ "scene.opened" \in effects /\ "scene.none" \notin effects => c.status = "opened"
  /\ Bare(effects) /\ ack.named => c.status = "opened"
  /\ Bare(effects) /\ ~ack.named => c.status = context.status

LEMMA EffectsApplied ==
  ASSUME context \in ContextType, NEW effects \in SUBSET Facts, NEW ack, ack.srev \in Nat,
         ~ack.named => ack.srev = 0
  PROVE  Applied(ApplyEffects(effects, ack), effects, ack)
<1>1. context.rev \in Nat /\ context.status \in {"none", "opened"}
  BY DEF ContextType
<1>2. \A m, n \in Nat : Higher(m, n) \in Nat /\ m <= Higher(m, n) /\ n <= Higher(m, n)
  BY DEF Higher
<1> DEFINE m == Higher(context.rev + 1, ack.srev)
           opened == IF "scene.opened" \in effects THEN [status |-> "opened", rev |-> m] ELSE context
           h == Higher(opened.rev, ack.srev)
<1>3. m \in Nat /\ context.rev < m
  <2>1. context.rev + 1 \in Nat /\ ack.srev \in Nat
    BY <1>1
  <2>2. m \in Nat /\ context.rev + 1 <= m
    BY <1>2, <2>1, Zenon
  <2> HIDE DEF m
  <2> QED BY <1>1, <2>2
<1>4. ApplyEffects(effects, ack) =
        IF "scene.none" \in effects THEN [status |-> "none", rev |-> opened.rev + 1]
        ELSE IF ack.named THEN [status |-> "opened", rev |-> h] ELSE opened
  BY DEF ApplyEffects
<1> HIDE DEF m
<1>5. /\ opened.rev \in Nat /\ context.rev <= opened.rev
      /\ "scene.opened" \in effects => context.rev < opened.rev
  BY <1>1, <1>3
<1>6. h \in Nat /\ opened.rev <= h /\ ack.srev <= h
  BY <1>2, <1>5
<1>7. /\ "scene.opened" \in effects => opened.status = "opened"
      /\ "scene.opened" \notin effects => opened.status = context.status
      /\ opened \in ContextType
  BY <1>3 DEF ContextType
<1>8. ~Bare(effects) <=> "scene.opened" \in effects \/ "scene.none" \in effects
  BY DEF Bare
<1> HIDE DEF opened, h
<1>9. CASE "scene.none" \in effects
  <2>1. opened.rev + 1 \in Nat /\ context.rev < opened.rev + 1
    BY <1>1, <1>5
  <2> QED BY <1>1, <1>4, <1>5, <1>8, <1>9, <2>1 DEF Applied, ContextType
<1>10. CASE "scene.none" \notin effects /\ ack.named
  <2>1. context.rev <= h /\ ("scene.opened" \in effects => context.rev < h)
    BY <1>1, <1>5, <1>6
  <2> QED BY <1>1, <1>4, <1>6, <1>8, <1>10, <2>1 DEF Applied, ContextType
<1>11. CASE "scene.none" \notin effects /\ ~ack.named
  <2>1. ack.srev <= opened.rev
    BY <1>5, <1>11
  <2> QED BY <1>4, <1>5, <1>7, <1>8, <1>11, <2>1 DEF Applied
<1> QED BY <1>9, <1>10, <1>11

\* The result of the step that succeeds.
Result(effects, invalidates, repeated, srev) ==
  [step |-> work.step, effects |-> effects, invalidates |-> invalidates, repeated |-> repeated,
   srev |-> srev]

LEMMA SucceedKeeps ==
  ASSUME WInv, work # Rest, NEW effects \in SUBSET Facts, NEW invalidates \in SUBSET Facts,
         NEW evidence, NEW repeated \in BOOLEAN,
         evidence # None => evidence \in Tools /\ Won(evidence),
         \A fact \in effects : \E t \in Tools : fact \in Contract(t).effects /\ Row(t).result = "ok",
         ~repeated => effects = work.effects /\ invalidates = work.invalidates,
         Succeed(effects, invalidates, evidence, repeated)
  PROVE  WInv'
<1> DEFINE ack == Acknowledged(evidence)
           r == Result(effects, invalidates, repeated, ack.srev)
<1>1. /\ results' = Append(results, r) /\ context' = ApplyEffects(effects, ack)
      /\ status' = [status EXCEPT ![work.step] = "succeeded"] /\ work' = Rest
      /\ strayed' = (strayed \/ Stray("succeeded"))
      /\ UNCHANGED <<scene, exec, ledger>>
  BY DEF Succeed, End, Result
<1>2. /\ context \in ContextType /\ results \in Seq(ResultType) /\ strayed \in BOOLEAN
      /\ status \in [Steps -> {"pending", "waiting", "succeeded", "failed"}]
      /\ ledger \in [Steps -> [Tools -> RowType]]
  BY DEF WInv, Types
<1>3. /\ ack.srev \in Nat /\ (~ack.named => ack.srev = 0)
      /\ ack.named => \E t \in Tools : Row(t).named /\ Row(t).rev = work.rev
  BY AckNamed
<1> HIDE DEF ack
<1>4. Applied(context', effects, ack)
  BY <1>1, <1>2, <1>3, EffectsApplied
<1>5. /\ work \in WorkType /\ work.step \in Steps /\ work.rev = context.rev
      /\ \A i \in DOMAIN results : results[i].step # work.step
  BY AtWork DEF WInv, WorkOK
<1>6. /\ r \in ResultType /\ r.step = work.step /\ r.effects = effects
      /\ r.invalidates = invalidates /\ r.repeated = repeated /\ r.srev = ack.srev
  BY <1>3, <1>5 DEF ResultType, Result
<1> HIDE DEF r
<1>7. /\ results' \in Seq(ResultType) /\ Len(results') = Len(results) + 1 /\ Len(results) \in Nat
      /\ DOMAIN results = 1..Len(results) /\ DOMAIN results' = 1..(Len(results) + 1)
      /\ results'[Len(results) + 1] = r
      /\ \A i \in DOMAIN results : results'[i] = results[i] /\ i # Len(results) + 1
  BY <1>1, <1>2, <1>6
<1>8. \A i \in DOMAIN results' : i \in DOMAIN results \/ i = Len(results) + 1
  BY <1>7
<1>9. /\ status' \in [Steps -> {"pending", "waiting", "succeeded", "failed"}]
      /\ status'[work.step] = "succeeded"
      /\ \A s \in Steps : s # work.step => status'[s] = status[s]
  BY <1>1, <1>2, <1>5
<1>10. Types'
  <2>1. strayed' \in BOOLEAN /\ context' \in ContextType
    BY <1>1, <1>2, <1>4 DEF Applied
  <2> QED BY <1>1, <1>7, <1>9, <2>1 DEF WInv, Types
<1>11. WorkOK'
  BY <1>1 DEF WorkOK
<1>12. ResultsOK'
  <2> SUFFICES ASSUME NEW i \in DOMAIN results'
               PROVE  /\ status'[results'[i].step] = "succeeded"
                      /\ \A fact \in results'[i].effects :
                           \E t \in Tools : /\ fact \in Contract(t).effects
                                            /\ ledger[results'[i].step][t].result = "ok"
    BY <1>1 DEF ResultsOK
  <2>1. CASE i \in DOMAIN results
    <3>1. results[i].step \in Steps /\ results[i].step # work.step
      BY <2>1, AtWork
    <3> QED BY <1>7, <1>9, <2>1, <3>1 DEF WInv, ResultsOK
  <2>2. CASE i = Len(results) + 1
    BY <1>6, <1>7, <1>9, <2>2 DEF Row
  <2> QED BY <1>8, <2>1, <2>2
<1>13. \A s \in Steps, t \in Tools : ledger[s][t].rev \in Nat /\ ledger[s][t].after \in Nat
  <2>1. \A s \in Steps, t \in Tools : ledger[s][t] \in RowType
    BY <1>2
  <2>2. \A n \in RowType : n.rev \in Nat /\ n.after \in Nat
    BY DEF RowType
  <2> QED BY <2>1, <2>2
<1>14. ASSUME NEW s \in Steps, NEW t \in Tools
       PROVE  /\ ledger[s][t].rev <= context'.rev
              /\ ledger[s][t].rev = context'.rev =>
                   Bare(effects) /\ ack.srev <= context.rev /\ ledger[s][t].rev = context.rev
  <2>1. ledger[s][t].rev <= context.rev
    BY DEF WInv, RowsOK
  <2>2. context.rev \in Nat /\ context'.rev \in Nat /\ context.rev <= context'.rev
    BY <1>2, <1>4 DEF Applied, ContextType
  <2>3. IF Bare(effects) THEN ack.srev <= context'.rev ELSE context.rev < context'.rev
    BY <1>4 DEF Applied
  <2> QED BY <1>13, <2>1, <2>2, <2>3
<1>15. RowsOK'
  <2> SUFFICES ASSUME NEW s \in Steps, NEW t \in Tools, ledger[s][t].rev = context'.rev,
                      ledger[s][t].result # "none",
                      NEW i \in (ledger[s][t].after + 1)..Len(results')
               PROVE  Past(results'[i], ledger[s][t].rev)
    BY <1>1, <1>14 DEF RowsOK
  <2>1. Bare(effects) /\ ack.srev <= context.rev /\ ledger[s][t].rev = context.rev
    BY <1>14
  <2>2. \A j \in (ledger[s][t].after + 1)..Len(results) : Past(results[j], ledger[s][t].rev)
    BY <2>1 DEF WInv, RowsOK
  <2>3. i \in DOMAIN results' /\ (i \in DOMAIN results => i \in (ledger[s][t].after + 1)..Len(results))
    BY <1>7, <1>13
  <2>4. CASE i \in DOMAIN results
    BY <1>7, <2>2, <2>3, <2>4
  <2>5. CASE i = Len(results) + 1
    BY <1>6, <1>7, <2>1, <2>5 DEF Past
  <2> QED BY <1>8, <2>3, <2>4, <2>5
<1>16. Truth'
  <2> SUFFICES ASSUME Straight' PROVE (NamedTrue /\ MarksHeld /\ LastSays /\ SceneKnown)'
    BY DEF Truth
  <2>1. Straight /\ ~Stray("succeeded") /\ ~repeated
    <3>1. Len(results) + 1 \in DOMAIN results'
      BY <1>7
    <3>2. ~r.repeated /\ \A i \in DOMAIN results : ~results[i].repeated
      <4>1. \A i \in DOMAIN results' : ~results'[i].repeated
        BY DEF Straight
      <4>2. \A i \in DOMAIN results : i \in DOMAIN results'
        BY <1>7
      <4> QED BY <1>7, <3>1, <4>1, <4>2
    <3> QED BY <1>1, <1>6, <3>2 DEF Straight
  <2>2. NamedTrue /\ MarksHeld /\ LastSays /\ SceneKnown
    BY <2>1 DEF WInv, Truth
  <2>3. effects = work.effects /\ invalidates = work.invalidates
    BY <2>1
  <2>4. ~work.late /\ (work.changes = 0 \/ work.changes = 1)
    <3>1. work.changes \in Nat /\ ~(work.changes > 1) /\ ~work.late
      BY <1>5, <2>1 DEF Stray, WorkType
    <3> QED BY <3>1
  <2>5. OfOne(effects, invalidates)
    BY <2>2, <2>3, <2>4 DEF SceneKnown, OfOne
  <2>6. Bare(effects) => Untouched
    BY <2>2, <2>3, <2>4 DEF SceneKnown, Untouched
  <2>7. ~Bare(effects) => (scene.open <=> "scene.opened" \in effects)
    BY <2>2, <2>3, <2>4 DEF SceneKnown
  <2>8. Bare(effects) /\ ack.named => scene.open
    BY <1>3, <1>5, <2>2, <2>6 DEF NamedTrue, Row
  <2>9. Bare(effects) => (context.status = "opened" <=> scene.open)
    BY <2>2, <2>6 DEF SceneKnown
  <2>10. Bare(effects) => (context'.status = "opened" <=> scene.open)
    BY <1>4, <2>8, <2>9 DEF Applied
  <2>11. Bare(effects) => context'.status = context.status
    <3>1. context.status \in {"none", "opened"} /\ context'.status \in {"none", "opened"}
      BY <1>2, <1>4 DEF Applied, ContextType
    <3> QED BY <2>9, <2>10, <3>1
  <2>12. /\ "scene.opened" \in effects => "scene.none" \notin effects
         /\ ~Bare(effects) <=> "scene.opened" \in effects \/ "scene.none" \in effects
    BY <2>5, OfOneFacts DEF Bare
  <2>13. ~Bare(effects) => (context'.status = "opened" <=> scene.open)
    BY <1>4, <2>7, <2>12 DEF Applied
  <2>14. NamedTrue'
    <3> SUFFICES ASSUME NEW s \in Steps, NEW t \in Tools, ledger[s][t].named,
                        ledger[s][t].rev = context'.rev
                 PROVE  scene.open
      BY <1>1 DEF NamedTrue
    <3>1. Bare(effects) /\ ledger[s][t].rev = context.rev
      BY <1>14
    <3> QED BY <2>2, <2>6, <3>1 DEF NamedTrue
  <2>15. MarksHeld'
    <3> SUFFICES ASSUME NEW s \in Steps, NEW t \in Tools, Marks(t), ledger[s][t].result = "ok"
                 PROVE  status'[s] = "succeeded"
      BY <1>1 DEF MarksHeld, Marks
    <3>1. status[s] = "succeeded" \/ s = work.step
      BY <2>2 DEF MarksHeld
    <3> QED BY <1>9, <3>1
  <2>16. LastSays'
    <3> SUFFICES ASSUME NEW j \in DOMAIN results'
                 PROVE  /\ OfOne(results'[j].effects, results'[j].invalidates)
                        /\ (\A i \in (j + 1)..Len(results') : Bare(results'[i].effects)) =>
                             /\ "scene.opened" \in results'[j].effects => context'.status = "opened"
                             /\ "scene.none" \in results'[j].effects => context'.status = "none"
      BY DEF LastSays, OfOne, Marks
    <3>1. CASE j = Len(results) + 1
      BY <1>4, <1>6, <1>7, <2>5, <2>12, <3>1 DEF Applied
    <3>2. CASE j \in DOMAIN results
      <4>1. results'[j] = results[j] /\ OfOne(results[j].effects, results[j].invalidates)
        BY <1>7, <2>2, <3>2 DEF LastSays
      <4> SUFFICES ASSUME \A i \in (j + 1)..Len(results') : Bare(results'[i].effects)
                   PROVE  /\ "scene.opened" \in results[j].effects => context'.status = "opened"
                          /\ "scene.none" \in results[j].effects => context'.status = "none"
        BY <4>1
      <4>2. \A i \in (j + 1)..Len(results) :
              i \in (j + 1)..Len(results') /\ i \in DOMAIN results
        BY <1>7, <3>2
      <4>3. \A i \in (j + 1)..Len(results) : Bare(results[i].effects)
        BY <1>7, <4>2
      <4>4. Len(results) + 1 \in (j + 1)..Len(results')
        BY <1>7, <3>2
      <4>5. Bare(effects)
        BY <1>6, <1>7, <4>4
      <4> QED BY <2>2, <2>11, <3>2, <4>3, <4>5 DEF LastSays
    <3> QED BY <1>8, <3>1, <3>2
  <2>17. SceneKnown'
    BY <1>1, <2>10, <2>13 DEF SceneKnown
  <2> QED BY <2>14, <2>15, <2>16, <2>17
<1> QED BY <1>10, <1>11, <1>12, <1>15, <1>16 DEF WInv

LEMMA AnswersKeep == ASSUME WInv, Answers PROVE WInv'
<1> DEFINE n == Len(work.wins)
           evidence == IF n = 0 THEN None ELSE work.wins[n]
<1>1. work # Rest /\ Succeed(work.effects, work.invalidates, evidence, FALSE)
  BY DEF Answers
<1>2. /\ work \in WorkType /\ work.effects \in SUBSET Facts /\ work.invalidates \in SUBSET Facts
      /\ work.wins \in Seq(Tools)
  BY <1>1, AtWork DEF WorkType
<1>3. evidence # None => evidence \in Tools /\ Won(evidence)
  <2>1. n # 0 => n \in DOMAIN work.wins /\ work.wins[n] \in Tools
    BY <1>2
  <2> QED BY <2>1 DEF Won
<1>4. \A fact \in work.effects :
        \E t \in Tools : fact \in Contract(t).effects /\ Row(t).result = "ok"
  <2>1. \A i \in DOMAIN work.wins : work.wins[i] \in Tools
    BY <1>2
  <2>2. /\ \A i \in DOMAIN work.wins : Row(work.wins[i]).result = "ok"
        /\ \A fact \in work.effects : \E i \in DOMAIN work.wins : fact \in Contract(work.wins[i]).effects
    BY <1>1 DEF WInv, WorkOK
  <2> HIDE DEF Row, Contract
  <2> QED BY <2>1, <2>2
<1> HIDE DEF evidence
<1> QED BY <1>1, <1>2, <1>3, <1>4, SucceedKeeps

LEMMA AlreadyCompletedKeeps == ASSUME NEW t \in Tools, WInv, AlreadyCompleted(t) PROVE WInv'
<1>1. /\ work # Rest /\ Won(t)
      /\ Succeed(Contract(t).effects, Contract(t).invalidates, t, TRUE)
  BY DEF AlreadyCompleted
<1>2. Contract(t).effects \in SUBSET Facts /\ Contract(t).invalidates \in SUBSET Facts
  BY ContractFacts
<1>3. Row(t).result = "ok"
  BY <1>1 DEF WInv, WorkOK, Won
<1> QED BY <1>1, <1>2, <1>3, SucceedKeeps

LEMMA StepStutter == WInv /\ UNCHANGED vars => WInv'
<1> SUFFICES ASSUME WInv, UNCHANGED vars PROVE WInv'
  OBVIOUS
<1>1. UNCHANGED <<scene, context, results, status, work, exec, ledger, strayed>>
  BY DEF vars
<1>2. Types' /\ WorkOK' /\ ResultsOK' /\ RowsOK'
  BY <1>1 DEF WInv, Types, WorkOK, ResultsOK, RowsOK, Row
<1>3. Truth'
  BY <1>1 DEF WInv, Truth, Straight, NamedTrue, MarksHeld, LastSays, SceneKnown, Untouched, Marks,
              OfOne, Won
<1> QED BY <1>2, <1>3 DEF WInv

LEMMA StepNext == WInv /\ [Next]_vars => WInv'
<1> SUFFICES ASSUME WInv, [Next]_vars PROVE WInv'
  OBVIOUS
<1>1. ASSUME NEW s \in Steps, Begin(s) PROVE WInv'
  BY <1>1, BeginKeeps
<1>2. ASSUME NEW t \in Tools, Replay(t) \/ Perform(t) \/ TimesOut(t) \/ AlreadyCompleted(t) PROVE WInv'
  BY <1>2, ReplayKeeps, PerformKeeps, TimesOutKeeps, AlreadyCompletedKeeps
<1>3. CASE NoScene \/ NoProgress \/ Gives("failed") \/ Gives("waiting")
  BY <1>3, StopsKeep
<1>4. CASE Answers
  BY <1>4, AnswersKeep
<1>5. CASE UNCHANGED vars
  BY <1>5, StepStutter
<1> QED BY <1>1, <1>2, <1>3, <1>4, <1>5 DEF Next

-----------------------------------------------------------------------------
(* What WInv says of the scene, the effects and the rows *)

LEMMA StepTyped == WInv => TypeOK
<1> SUFFICES ASSUME WInv PROVE TypeOK
  OBVIOUS
<1>1. work # Rest =>
        /\ work.facts \subseteq Facts /\ work.calls \in 0..MaxCalls
        /\ work.counts \in [Tools -> 0..2] /\ work.wins \in Seq(Tools)
        /\ Len(work.rows) <= work.calls
        /\ work.effects \subseteq Facts /\ work.invalidates \subseteq Facts
  BY DEF WInv, Types, WorkType
<1> QED BY <1>1 DEF WInv, Types, TypeOK, SceneType, ContextType, ResultType, RowType

LEMMA Earned == WInv => EffectsAreEarned
BY DEF WInv, ResultsOK, EffectsAreEarned

LEMMA Fresh == WInv => ReplaysAreFresh
<1>1. \A e : Bare(e) => e \cap SceneFacts = {}
  BY DEF Bare, SceneFacts
<1> QED BY <1>1 DEF WInv, RowsOK, Past, ReplaysAreFresh

\* The walk over the results ends where the last one with effects has left it.
LEMMA WalkEnds ==
  ASSUME WInv, Straight
  PROVE  "scene.opened" \in TheFacts <=> context.status = "opened"
<1>1. LastSays /\ results \in Seq(ResultType) /\ context.status \in {"none", "opened"}
  BY DEF WInv, Truth, Types, ContextType
<1>2. \A j \in DOMAIN results : OfOne(results[j].effects, results[j].invalidates)
  BY <1>1 DEF LastSays
<1> DEFINE Gone(i) == \E j \in (i + 1)..Len(results) : "scene.opened" \in results[j].invalidates
           T == {j \in DOMAIN results : ~Bare(results[j].effects)}
<1>3. "scene.opened" \in TheFacts <=>
        \/ context.status = "opened" /\ ~Gone(0)
        \/ \E i \in DOMAIN results : "scene.opened" \in results[i].effects /\ ~Gone(i)
  BY DEF TheFacts, Facts, SceneFacts
<1>4. Len(results) \in Nat /\ DOMAIN results = 1..Len(results)
  BY <1>1
<1>5. \A j \in DOMAIN results :
        "scene.opened" \in results[j].invalidates => ~Bare(results[j].effects)
  BY <1>2, OfOneFacts
<1>6. CASE T = {}
  <2>1. \A j \in DOMAIN results : Bare(results[j].effects)
    BY <1>6
  <2>2. ~Gone(0)
    BY <1>4, <1>5, <2>1
  <2> HIDE DEF Gone
  <2> QED BY <1>3, <2>1, <2>2 DEF Bare
<1>7. CASE T # {}
  <2>1. T \in SUBSET (1..Len(results))
    BY <1>4
  <2>2. PICK x \in T : \A y \in T : y <= x
    <3> HIDE DEF T
    <3> QED BY <1>4, <1>7, <2>1, Greatest
  <2>3. x \in DOMAIN results /\ ~Bare(results[x].effects) /\ x \in 1..Len(results)
    BY <1>4
  <2>4. \A i \in (x + 1)..Len(results) : i \in DOMAIN results /\ Bare(results[i].effects)
    <3>1. ASSUME NEW i \in (x + 1)..Len(results) PROVE i \in DOMAIN results /\ ~(i <= x)
      BY <1>4, <2>3
    <3> QED BY <2>2, <3>1
  <2>5. ~Gone(x)
    BY <1>5, <2>4
  <2>6. /\ "scene.opened" \in results[x].effects => context.status = "opened"
        /\ "scene.none" \in results[x].effects => context.status = "none"
    BY <1>1, <2>3, <2>4 DEF LastSays
  <2>7. /\ "scene.opened" \in results[x].effects \/ "scene.none" \in results[x].effects
        /\ "scene.none" \in results[x].effects =>
             "scene.opened" \in results[x].invalidates /\ "scene.opened" \notin results[x].effects
    BY <1>2, <2>3, OfOneFacts DEF Bare
  <2>8. CASE "scene.opened" \in results[x].effects
    <3> HIDE DEF Gone
    <3> QED BY <1>3, <2>3, <2>5, <2>6, <2>8
  <2>9. CASE "scene.none" \in results[x].effects
    <3>1. \A i \in 0..(x - 1) : Gone(i)
      BY <1>4, <2>3, <2>7, <2>9
    <3>2. \A i \in DOMAIN results : "scene.opened" \in results[i].effects => i \in 0..(x - 1)
      <4> SUFFICES ASSUME NEW i \in DOMAIN results, "scene.opened" \in results[i].effects
                   PROVE  i \in 0..(x - 1)
        OBVIOUS
      <4>1. i <= x /\ i # x
        BY <2>2, <2>7, <2>9 DEF Bare
      <4> QED BY <1>4, <2>3, <4>1
    <3>3. 0 \in 0..(x - 1)
      BY <2>3
    <3>4. context.status # "opened"
      BY <2>6, <2>9
    <3> HIDE DEF Gone
    <3> QED BY <1>3, <3>1, <3>2, <3>3, <3>4
  <2> QED BY <2>7, <2>8, <2>9
<1> QED BY <1>6, <1>7

LEMMA FactsOfTheScene == WInv => FactsAreTrue
<1> SUFFICES ASSUME WInv, work = Rest, ~strayed,
                    ~(\E i \in DOMAIN results : results[i].repeated)
             PROVE  /\ ("scene.opened" \in TheFacts) = scene.open
                    /\ (context.status = "opened") = scene.open
  BY DEF FactsAreTrue
<1>1. Straight
  BY DEF Straight
<1>2. context.status = "opened" <=> scene.open
  BY <1>1 DEF WInv, Truth, SceneKnown, Untouched
<1>3. "scene.opened" \in TheFacts <=> scene.open
  BY <1>1, <1>2, WalkEnds
<1>4. scene.open \in BOOLEAN
  BY DEF WInv, Types, SceneType
<1>5. (context.status = "opened") = scene.open
  BY <1>2, <1>4
<1>6. ("scene.opened" \in TheFacts) = scene.open
  BY <1>3, <1>4
<1> QED BY <1>5, <1>6

-----------------------------------------------------------------------------
\* The record of the run (rows, results, context, the execution at work) is as WInv
\* says in every state: executor.py, worker_tool_validation.py, _apply_effects.
THEOREM WorkerInvariance == Spec => []WInv
<1>1. Init => WInv
  BY StepInit
<1>2. WInv /\ [Next]_vars => WInv'
  BY StepNext
<1> QED BY <1>1, <1>2, PTL DEF Spec

\* Every variable has its type: no execution makes more than max_tool_calls calls, and
\* none a third call that has failed twice (worker_tool_validation.py).
THEOREM WorkerTypes == Spec => []TypeOK
<1>1. WInv => TypeOK
  BY StepTyped
<1> QED BY <1>1, WorkerInvariance, PTL

\* As long as no worker strays and no step ends on a repeated call, the facts of the
\* next execution (_facts) and the scene_context are the client's scene, after any
\* number of steps, replays, timeouts and executions.
THEOREM FactsTrue == Spec => []FactsAreTrue
<1>1. WInv => FactsAreTrue
  BY FactsOfTheScene
<1> QED BY <1>1, WorkerInvariance, PTL

\* A step never has the effect of a call that did not succeed for it at the client
\* (execute of executor.py, and the rows of tool_executions).
THEOREM AlwaysEarned == Spec => []EffectsAreEarned
<1>1. WInv => EffectsAreEarned
  BY Earned
<1> QED BY <1>1, WorkerInvariance, PTL

\* A step that is executed again is answered from no row that is older than a step
\* that has opened, renamed or deleted the scene, or whose client has acknowledged a
\* revision the row is not of: the revision in the key has moved on (_apply_effects of
\* engine.py, and the key of tool_executions).  Of entities that were changed without
\* such a revision it says nothing.
THEOREM AlwaysFresh == Spec => []ReplaysAreFresh
<1>1. WInv => ReplaysAreFresh
  BY Fresh
<1> QED BY <1>1, WorkerInvariance, PTL
=============================================================================
