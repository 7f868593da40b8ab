-------------------------- MODULE RunSessionsProofs --------------------------
(***************************************************************************)
(* For every set of requests, overlapping in any way: the types, that no   *)
(* session outlives its stream, and that no update of a run is lost.  For  *)
(* a patient client: one driver, answers that reach it, and runs that come *)
(* one after another, as ThreadPromise has it.                             *)
(***************************************************************************)
EXTENDS SessionClients, TLAPS

\* Where a request is once it has created a run.
Later == Graph \cup Telling \cup {"closing", "done"}

\* A stream, from its first step to its last.
Streams == Streaming \cup Telling \cup {"closing"}

\* Where a request changes steps of a run, or is about to.
Driving == Graph \cup {"resume", "abandon"}

\* What is read is a run that exists, and it is the one aimed at.
Aimed ==
  \A r \in Requests :
    /\ pc[r] \in Reading \cup {"ending"} => target[r] \in Requests
    /\ snap[r] # NoRun => target[r] \in Requests
    /\ target[r] \in Requests => db[target[r]] # NoRun

Unread == \A r \in Requests : pc[r] \in {"new", "insert"} => snap[r] = NoRun

\* A request creates its run once.
CreatedOnce == \A r \in Requests : db[r] # NoRun => pc[r] \in Later

\* No step is taken away.
Keeps(run, new) == DOMAIN run.step \subseteq DOMAIN new.step

\* The revision tells whether what was read is still so; the steps are still there.
Matches(old, run) ==
  old # NoRun =>
    /\ old.rev <= run.rev /\ (old.rev = run.rev => old = run)
    /\ Keeps(old, run)

Current == \A r \in Requests : snap[r] # NoRun => Matches(snap[r], db[target[r]])

\* The step a request executes is a step of its run, also of the run as it read it:
\* whoever saves in between takes none away.
Known ==
  \A r \in Requests : pc[r] \in {"execute", "worker"} =>
    /\ next[r] \in DOMAIN db[target[r]].step
    /\ snap[r] # NoRun => next[r] \in DOMAIN snap[r].step
    /\ pc[r] = "worker" => snap[r] # NoRun

\* A run without a plan has no steps, and nobody else drives it.
Unplanned(run) == run.waiting = 0 /\ run.status # "waiting_user" /\ DOMAIN run.step = {}

PlanFirst ==
  \A r \in Requests : pc[r] = "validate" =>
    /\ target[r] = r /\ Unplanned(db[r])
    /\ \A q \in Requests : target[q] = r =>
         Unplanned(snap[q]) /\ (q # r => pc[q] \notin Driving)

IInv ==
  /\ TypeOK /\ Aimed /\ Unread /\ CreatedOnce
  /\ Current /\ Known /\ PlanFirst /\ NoLeakedSession

-----------------------------------------------------------------------------
(* Runs *)

LEMMA IsSequence ==
  ASSUME NEW S, NEW n \in Nat, NEW f \in [1..n -> S]
  PROVE  f \in Seq(S) /\ Len(f) = n /\ DOMAIN f = 1..n
OBVIOUS

LEMMA RunOf ==
  ASSUME NEW run \in Run
  PROVE  /\ run.status \in Status \cup {"none"} /\ run.rev \in Nat
         /\ run.step \in Seq(StepState) /\ run.waiting \in Nat
         /\ run.waiting \in {0} \cup DOMAIN run.step
BY DEF Run

LEMMA NoRunIs ==
  /\ NoRun \in Run /\ NoRun.status = "none" /\ NoRun.rev = 0 /\ Unplanned(NoRun)
<1>1. /\ NoRun.status = "none" /\ NoRun.rev = 0 /\ NoRun.step = <<>> /\ NoRun.waiting = 0
  BY DEF NoRun
<1>2. <<>> \in Seq(StepState) /\ DOMAIN <<>> = {}
  OBVIOUS
<1>3. NoRun \in Run
  BY <1>2 DEF NoRun, Run
<1> QED BY <1>1, <1>2, <1>3 DEF Unplanned

LEMMA NewRunIs == NewRun \in Run /\ Unplanned(NewRun) /\ NewRun # NoRun
<1>1. /\ NewRun.status = "planning" /\ NewRun.rev = 0
      /\ NewRun.step = <<>> /\ NewRun.waiting = 0
  BY DEF NewRun, NoRun
<1>2. <<>> \in Seq(StepState) /\ DOMAIN <<>> = {}
  OBVIOUS
<1>3. NewRun \in Run
  BY <1>2 DEF NewRun, NoRun, Run, Status
<1> QED BY <1>1, <1>2, <1>3, NoRunIs DEF Unplanned

\* A change of a run keeps its revision, its steps and their types.
Change(run, new) == new \in Run /\ new.rev = run.rev /\ Keeps(run, new)

LEMMA SavedIs ==
  ASSUME NEW run \in Run
  PROVE  /\ Saved(run) \in Run /\ Saved(run).rev = run.rev + 1 /\ Saved(run) # NoRun
         /\ Saved(run).step = run.step /\ Saved(run).status = run.status
         /\ Unplanned(run) => Unplanned(Saved(run))
<1>1. /\ Saved(run).rev = run.rev + 1 /\ Saved(run).step = run.step
      /\ Saved(run).waiting = run.waiting /\ Saved(run).status = run.status
  BY DEF Saved, Run
<1>2. Saved(run) \in Run
  BY <1>1, RunOf DEF Saved, Run
<1>3. Saved(run).rev # 0
  BY <1>1, RunOf
<1> QED BY <1>1, <1>2, <1>3, NoRunIs DEF Unplanned

LEMMA TurnedIs ==
  ASSUME NEW run \in Run, NEW steps, NEW state \in StepState
  PROVE  LET new == Turned(run, steps, state) IN
         /\ Change(run, new) /\ DOMAIN new.step = DOMAIN run.step
         /\ new.status = run.status /\ new.waiting = run.waiting
<1> DEFINE s == [i \in DOMAIN run.step |-> IF i \in steps THEN state ELSE run.step[i]]
           new == Turned(run, steps, state)
<1>1. new.step = s /\ new.status = run.status /\ new.waiting = run.waiting /\ new.rev = run.rev
  BY DEF Turned, Run
<1>2. Len(run.step) \in Nat /\ DOMAIN run.step = 1..Len(run.step)
  BY RunOf
<1>3. s \in [1..Len(run.step) -> StepState]
  BY <1>2, RunOf
<1>4. s \in Seq(StepState) /\ DOMAIN s = DOMAIN run.step
  BY <1>2, <1>3, IsSequence
<1>5. new \in Run
  BY <1>1, <1>4, RunOf DEF Turned, Run
<1> QED BY <1>1, <1>4, <1>5 DEF Change, Keeps

LEMMA GrownIs ==
  ASSUME NEW run \in Run, NEW n \in Nat
  PROVE  LET new == Grown(run, n) IN
         /\ Change(run, new) /\ new.status = run.status
<1> DEFINE more == [i \in 1..n |-> "open"]
           new == Grown(run, n)
<1>1. /\ new.step = run.step \o more /\ new.status = run.status
      /\ new.waiting = run.waiting /\ new.rev = run.rev
  BY DEF Grown, Run
<1>2. more \in [1..n -> StepState]
  BY DEF StepState
<1>3. more \in Seq(StepState)
  BY <1>2, IsSequence
<1>4. run.step \o more \in Seq(StepState) /\ DOMAIN run.step \subseteq DOMAIN (run.step \o more)
  BY <1>3, RunOf
<1>5. new \in Run
  BY <1>1, <1>4, RunOf DEF Grown, Run
<1> QED BY <1>1, <1>4, <1>5 DEF Change, Keeps

\* Several operations end with a status and a step waited for.
Marked(run, status, i) == [run EXCEPT !.status = status, !.waiting = i]

LEMMA MarkedIs ==
  ASSUME NEW run \in Run, NEW status \in Status, NEW i \in {0} \cup DOMAIN run.step
  PROVE  /\ Change(run, Marked(run, status, i)) /\ Marked(run, status, i).step = run.step
         /\ Marked(run, status, i).status = status /\ Marked(run, status, i).waiting = i
<1> DEFINE new == Marked(run, status, i)
<1>1. new.status = status /\ new.waiting = i /\ new.step = run.step /\ new.rev = run.rev
  BY DEF Marked, Run
<1>2. i \in Nat
  <2>1. CASE i = 0
    BY <2>1
  <2>2. CASE i \in DOMAIN run.step
    BY <2>2, RunOf
  <2> QED BY <2>1, <2>2
<1>3. new \in [status : Status \cup {"none"}, rev : Nat, step : Seq(StepState), waiting : Nat]
  BY <1>2 DEF Run, Marked
<1>4. new \in Run
  BY <1>1, <1>3 DEF Run
<1> HIDE DEF new
<1>5. Keeps(run, new)
  BY <1>1 DEF Keeps
<1> QED BY <1>1, <1>4, <1>5 DEF Change, new

LEMMA PlannedIs ==
  ASSUME NEW run \in Run, Unplanned(run), NEW n \in Nat
  PROVE  Change(run, Planned(run, n)) /\ Planned(run, n).status = "running"
<1> DEFINE steps == [i \in 1..n |-> "open"]
<1>1. /\ Planned(run, n).step = steps /\ Planned(run, n).status = "running"
      /\ Planned(run, n).waiting = 0 /\ Planned(run, n).rev = run.rev
  BY DEF Planned, Run, Unplanned
<1>2. steps \in [1..n -> StepState]
  BY DEF StepState
<1>3. steps \in Seq(StepState)
  BY <1>2, IsSequence
<1>4. Planned(run, n) \in Run
  BY <1>1, <1>3, RunOf DEF Planned, Run, Status
<1> QED BY <1>1, <1>4 DEF Change, Keeps, Unplanned

LEMMA DispatchedIs ==
  ASSUME NEW run \in Run
  PROVE  /\ Change(run, Dispatched(run)) /\ Dispatched(run).step = run.step
         /\ Dispatched(run).status = "running"
<1>1. Dispatched(run) = Marked(run, "running", 0) /\ "running" \in Status
  BY DEF Dispatched, Marked, Status
<1> QED BY <1>1, MarkedIs

LEMMA PausedIs ==
  ASSUME NEW run \in Run
  PROVE  /\ Change(run, Paused(run)) /\ Paused(run).step = run.step
         /\ Paused(run).status = "waiting_user"
<1>1. /\ Paused(run).status = "waiting_user" /\ Paused(run).waiting = run.waiting
      /\ Paused(run).step = run.step /\ Paused(run).rev = run.rev
  BY DEF Paused, Run
<1>2. Paused(run) \in Run
  BY <1>1, RunOf DEF Paused, Run, Status
<1> QED BY <1>1, <1>2 DEF Change, Keeps

LEMMA StartedIs ==
  ASSUME NEW run \in Run, NEW i
  PROVE  /\ Change(run, Started(run, i)) /\ DOMAIN Started(run, i).step = DOMAIN run.step
         /\ Started(run, i).status = run.status
<1> DEFINE t == Turned(run, {i}, "running")
<1>1. Change(run, t) /\ DOMAIN t.step = DOMAIN run.step /\ t.status = run.status
  BY TurnedIs DEF StepState
<1> QED BY <1>1 DEF Started

LEMMA AskedIs ==
  ASSUME NEW run \in Run, NEW i \in DOMAIN run.step
  PROVE  Change(run, Asked(run, i)) /\ Asked(run, i).status = "waiting_user"
<1> DEFINE asking == Turned(run, {i}, "asking")
<1>1. /\ asking \in Run /\ Change(run, asking)
      /\ DOMAIN asking.step = DOMAIN run.step /\ i \in {0} \cup DOMAIN asking.step
  BY TurnedIs DEF StepState, Change
<1>2. Asked(run, i) = Marked(asking, "waiting_user", i)
  BY DEF Asked, Marked
<1> HIDE DEF asking
<1>3. "waiting_user" \in Status
  BY DEF Status
<1> DEFINE new == Marked(asking, "waiting_user", i)
<1>4. Change(asking, new) /\ new.status = "waiting_user"
  BY <1>1, <1>3, MarkedIs
<1> HIDE DEF new
<1>5. Change(run, new)
  BY <1>1, <1>4 DEF Change, Keeps
<1> QED BY <1>2, <1>4, <1>5 DEF new

\* Whatever a worker returns, its run is open and has the steps it had.
LEMMA ReturnedIs ==
  ASSUME NEW run \in Run, NEW i \in DOMAIN run.step, NEW inserts \in SUBSET Nat,
         NEW new \in Returned(run, i, inserts)
  PROVE  Change(run, new) /\ new.status \in {run.status, "waiting_user"}
<1>1. CASE new = Asked(run, i)
  BY <1>1, AskedIs
<1>2. ASSUME NEW state \in {"over", "open"}, NEW n \in inserts,
             new = Grown(Turned(run, {i}, state), n)
      PROVE  Change(run, new) /\ new.status \in {run.status, "waiting_user"}
  <2> DEFINE t == Turned(run, {i}, state)
  <2>1. Change(run, t) /\ DOMAIN t.step = DOMAIN run.step /\ t.status = run.status
    BY TurnedIs DEF StepState
  <2>2. Change(t, Grown(t, n)) /\ Grown(t, n).status = t.status
    BY <2>1, GrownIs DEF Change
  <2> QED BY <1>2, <2>1, <2>2 DEF Change, Keeps
<1> QED BY <1>1, <1>2 DEF Returned, Closed

LEMMA DecidedIs ==
  ASSUME NEW run \in Run, NEW verdict \in Verdict
  PROVE  /\ Change(run, Decided(run, verdict)) /\ Decided(run, verdict).step = run.step
         /\ Decided(run, verdict).status = verdict
<1>1. Decided(run, verdict) = Marked(run, verdict, 0) /\ verdict \in Status
  BY DEF Decided, Marked, Status, Terminal, Verdict
<1> QED BY <1>1, MarkedIs

LEMMA EndedIs ==
  ASSUME NEW run \in Run, NEW steps, NEW state \in StepState, NEW status \in Status
  PROVE  LET new == Marked(Turned(run, steps, state), status, 0) IN
         /\ Change(run, new) /\ DOMAIN new.step = DOMAIN run.step
         /\ new.status = status /\ new.waiting = 0
<1> DEFINE t   == Turned(run, steps, state)
           new == Marked(t, status, 0)
<1>1. Change(run, t) /\ DOMAIN t.step = DOMAIN run.step
  BY TurnedIs
<1>2. Change(t, new) /\ new.step = t.step /\ new.status = status /\ new.waiting = 0
  BY <1>1, MarkedIs DEF Change
<1> HIDE DEF t, new
<1>3. Change(run, new)
  BY <1>1, <1>2 DEF Change, Keeps
<1> QED BY <1>1, <1>2, <1>3 DEF t, new

LEMMA GivenUpIs ==
  ASSUME NEW run \in Run
  PROVE  Change(run, GivenUp(run)) /\ GivenUp(run).status = "failed"
<1>1. GivenUp(run) = Marked(Turned(run, StepsIn(run, "running"), "over"), "failed", 0)
  BY DEF GivenUp, Marked
<1>2. "failed" \in Status /\ "over" \in StepState
  BY DEF Status, Terminal, StepState
<1> QED BY <1>1, <1>2, EndedIs

LEMMA CancelledIs ==
  ASSUME NEW run \in Run
  PROVE  /\ Change(run, Cancelled(run)) /\ Cancelled(run).status = "cancelled"
         /\ Unplanned(run) => Unplanned(Cancelled(run))
<1>1. Cancelled(run) = Marked(Turned(run, DOMAIN run.step, "over"), "cancelled", 0)
  BY DEF Cancelled, Marked
<1>2. "cancelled" \in Status /\ "over" \in StepState
  BY DEF Status, Terminal, StepState
<1>3. /\ Change(run, Cancelled(run)) /\ DOMAIN Cancelled(run).step = DOMAIN run.step
      /\ Cancelled(run).status = "cancelled" /\ Cancelled(run).waiting = 0
  BY <1>1, <1>2, EndedIs
<1> QED BY <1>3 DEF Unplanned

LEMMA ResumedIs ==
  ASSUME NEW run \in Run
  PROVE  Change(run, Resumed(run)) /\ Resumed(run).status = "running"
<1>1. Resumed(run) = Marked(Turned(run, {run.waiting}, "open"), "running", 0)
  BY DEF Resumed, Marked
<1>2. "running" \in Status /\ "open" \in StepState
  BY DEF Status, Terminal, StepState
<1> QED BY <1>1, <1>2, EndedIs

\* The scheduler blocks steps, and sends the graph on with one of the run, to a pause,
\* or to the finalizer.
LEMMA ScheduledIs ==
  ASSUME NEW run \in Run, NEW to \in Scheduled(run)
  PROVE  /\ Change(run, to.run)
         /\ to.place \in {"ending", "finalize", "execute"} /\ to.next \in Nat
         /\ to.place = "execute" => to.next \in DOMAIN to.run.step /\ to.run.status = "running"
         /\ to.run.status \in {run.status, "running", "waiting_user"}
         /\ to.place = "finalize" => to.run.status = run.status
<1>1. PICK blocked : to \in Decisions(Turned(run, blocked, "over"))
  BY DEF Scheduled
<1> DEFINE t == Turned(run, blocked, "over")
<1>2. t \in Run /\ t.rev = run.rev /\ DOMAIN t.step = DOMAIN run.step /\ t.status = run.status
  BY TurnedIs DEF StepState, Change
<1> HIDE DEF t
<1>3. CASE to \in {To(t, "ending", 0), To(t, "finalize", 0)}
  BY <1>2, <1>3 DEF To, Change, Keeps
<1>4. ASSUME NEW i \in StepsIn(t, "open"), to = To(Dispatched(t), "execute", i)
      PROVE  /\ Change(run, to.run) /\ to.place = "execute"
             /\ to.next \in Nat /\ to.next \in DOMAIN to.run.step /\ to.run.status = "running"
  <2>1. i \in DOMAIN t.step /\ i \in Nat
    BY <1>2, RunOf DEF StepsIn
  <2> QED BY <1>2, <1>4, <2>1, DispatchedIs DEF To, Change, Keeps
<1>5. CASE to = To(Paused(t), "ending", 0)
  BY <1>2, <1>5, PausedIs DEF To, Change, Keeps
<1> QED BY <1>1, <1>3, <1>4, <1>5 DEF Decisions, t

LEMMA Outdated ==
  ASSUME NEW old \in Run, NEW run \in Run, NEW new \in Run,
         Matches(old, run), new.rev = run.rev + 1, Keeps(run, new)
  PROVE  Matches(old, new)
BY RunOf DEF Matches, Keeps

LEMMA MatchesItself == \A run \in Run : Matches(run, run)
BY RunOf DEF Matches, Keeps

-----------------------------------------------------------------------------
(* What a request may turn to, with the run it is about *)

Place == {"new", "closing", "done"} \cup Handler \cup Streaming \cup Telling

MayTurn(r, place) ==
  /\ place \in Place \ {"new", "insert", "validate"}
  /\ pc[r] \in Later => place \in Later
  /\ pc[r] \in Streams => place \in Streams
  /\ place \in Reading \cup {"ending"} => target[r] \in Requests
  /\ place \in Driving => pc[r] \in Driving

\* A request that goes on to execute a step has chosen one of its run.
Executes(r, place) ==
  /\ next' \in [Requests -> Nat]
  /\ \A q \in Requests : q # r => next'[q] = next[q]
  /\ place \in {"execute", "worker"} => next'[r] \in DOMAIN db'[target[r]].step

\* A change of one run, or of none, by a request that turns to another place
\* and forgets what it has read or keeps the run it has just saved.
LEMMA TurnKeeps ==
  ASSUME IInv, NEW r \in Requests, NEW place, MayTurn(r, place), NEW held \in Run,
         pc' = [pc EXCEPT ![r] = place],
         snap' = [snap EXCEPT ![r] = held],
         UNCHANGED <<bridge, target>>,
         db' \in [Requests -> Run],
         Executes(r, place),
         \A q \in Requests :
           /\ db[q] # NoRun => db'[q] # NoRun
           /\ db[q] = NoRun => db'[q] = NoRun
           /\ Unplanned(db[q]) /\ pc[q] = "validate" /\ q # r => Unplanned(db'[q])
           /\ snap[q] # NoRun /\ q # r => Matches(snap[q], db'[target[q]])
           /\ Keeps(db[q], db'[q]),
         place = "worker" => held # NoRun,
         held # NoRun => target[r] \in Requests /\ held = db'[target[r]] /\ place \in Driving
  PROVE  IInv'
<1>1. pc'[r] = place /\ snap'[r] = held /\ target' = target /\ bridge' = bridge
  BY DEF IInv, TypeOK
<1>2. \A q \in Requests : q # r => pc'[q] = pc[q] /\ snap'[q] = snap[q]
  BY DEF IInv, TypeOK
<1>3. TypeOK'
  <2>1. pc' \in [Requests -> Place]
    BY DEF IInv, TypeOK, MayTurn, Place
  <2>2. snap' \in [Requests -> Run]
    BY DEF IInv, TypeOK
  <2> QED BY <1>1, <2>1, <2>2 DEF IInv, TypeOK, Place, Executes
<1>5. Aimed'
  BY <1>1, <1>2 DEF IInv, Aimed, MayTurn
<1>6. Unread'
  BY <1>1, <1>2 DEF IInv, Unread, MayTurn
<1>7. CreatedOnce'
  BY <1>1, <1>2 DEF IInv, CreatedOnce, MayTurn
<1>8. Current'
  <2>1. held # NoRun => Matches(held, db'[target[r]])
    BY MatchesItself DEF IInv, TypeOK
  <2> QED BY <1>1, <1>2, <2>1 DEF Current
<1>9. Known'
  <2> SUFFICES ASSUME NEW q \in Requests, pc'[q] \in {"execute", "worker"}
               PROVE  /\ next'[q] \in DOMAIN db'[target'[q]].step
                      /\ snap'[q] # NoRun => next'[q] \in DOMAIN snap'[q].step
                      /\ pc'[q] = "worker" => snap'[q] # NoRun
    BY DEF Known
  <2>1. CASE q = r
    BY <1>1, <2>1 DEF Executes
  <2>2. CASE q # r
    <3>1. pc[q] \in {"execute", "worker"} /\ target[q] \in Requests
      BY <1>2, <2>2 DEF IInv, Aimed, Reading, Graph
    <3> QED BY <1>1, <1>2, <2>2, <3>1 DEF IInv, Known, Executes, Keeps
  <2> QED BY <2>1, <2>2
<1>10. PlanFirst'
  <2> SUFFICES ASSUME NEW p \in Requests, pc'[p] = "validate"
               PROVE  /\ target'[p] = p /\ Unplanned(db'[p])
                      /\ \A q \in Requests : target'[q] = p =>
                           Unplanned(snap'[q]) /\ (q # p => pc'[q] \notin Driving)
    BY DEF PlanFirst
  <2>1. p # r /\ pc[p] = "validate"
    BY <1>1, <1>2 DEF MayTurn
  <2>2. target[p] = p /\ Unplanned(db[p])
    BY <2>1 DEF IInv, PlanFirst
  <2>3. \A q \in Requests : target[q] = p =>
          Unplanned(snap[q]) /\ (q # p => pc[q] \notin Driving)
    BY <2>1 DEF IInv, PlanFirst
  <2>4. target[r] = p => place \notin Driving
    BY <2>1, <2>3 DEF MayTurn
  <2>5. target[r] = p => Unplanned(held)
    BY <2>4, NoRunIs
  <2> QED BY <1>1, <1>2, <2>1, <2>2, <2>3, <2>4, <2>5
<1>11. NoLeakedSession'
  BY <1>1, <1>2 DEF IInv, NoLeakedSession, MayTurn, Streams, TypeOK
<1> QED BY <1>3, <1>5, <1>6, <1>7, <1>8, <1>9, <1>10, <1>11 DEF IInv

LEMMA SkipKeeps ==
  ASSUME IInv, NEW r \in Requests, NEW place, MayTurn(r, place), place # "worker",
         Skip(r, place), Executes(r, place)
  PROVE  IInv'
<1>1. /\ pc' = [pc EXCEPT ![r] = place] /\ snap' = [snap EXCEPT ![r] = NoRun]
      /\ UNCHANGED <<db, bridge, target>>
  BY DEF Skip, Go, Hold
<1>2. db' \in [Requests -> Run]
  BY <1>1 DEF IInv, TypeOK
<1>3. \A q \in Requests :
           /\ db[q] # NoRun => db'[q] # NoRun
           /\ db[q] = NoRun => db'[q] = NoRun
           /\ Unplanned(db[q]) /\ pc[q] = "validate" /\ q # r => Unplanned(db'[q])
           /\ snap[q] # NoRun /\ q # r => Matches(snap[q], db'[target[q]])
           /\ Keeps(db[q], db'[q])
  BY <1>1 DEF IInv, Current, Keeps
<1> QED BY <1>1, <1>2, <1>3, NoRunIs, TurnKeeps

\* Who changes a run has read it as it is, and moves on.
NothingLost ==
  \A q \in Requests : db[q] # NoRun /\ db'[q] # db[q] =>
    \E r \in Requests : target[r] = q /\ pc'[r] # pc[r] /\ snap[r] = db[q]

\* The step is one of the run that is saved.
ChoosesFrom(r, place, new) ==
  /\ next' \in [Requests -> Nat]
  /\ \A q \in Requests : q # r => next'[q] = next[q]
  /\ place \in {"execute", "worker"} => next'[r] \in DOMAIN new.step

LEMMA WriteKeeps ==
  ASSUME IInv, NEW r \in Requests, snap[r] # NoRun,
         NEW b, b = target[r], NEW new, Change(snap[r], new),
         pc[r] \notin Driving /\ Unplanned(snap[r]) => Unplanned(new),
         NEW place, MayTurn(r, place), ChoosesFrom(r, place, new),
         snap[r].rev = db[b].rev,
         db' = [db EXCEPT ![b] = Saved(new)],
         pc' = [pc EXCEPT ![r] = place],
         snap' = [snap EXCEPT ![r] = IF place = "worker" THEN Saved(new) ELSE NoRun],
         UNCHANGED <<bridge, target>>
  PROVE  IInv' /\ (place # pc[r] => NothingLost)
<1>1. b \in Requests /\ db[b] # NoRun /\ db[b] \in Run /\ snap[r] \in Run
  BY DEF IInv, Aimed, TypeOK
<1>2. snap[r] = db[b]
  BY <1>1 DEF IInv, Current, Matches
<1>3. new \in Run /\ new.rev = db[b].rev /\ Keeps(db[b], new)
  BY <1>2 DEF Change
<1> DEFINE x == Saved(new)
<1>4. /\ x \in Run /\ x.rev = db[b].rev + 1 /\ x # NoRun
      /\ x.step = new.step /\ Keeps(db[b], x) /\ (Unplanned(new) => Unplanned(x))
  BY <1>3, SavedIs DEF Keeps
<1> HIDE DEF x
<1>5. db'[b] = x /\ \A q \in Requests : q # b => db'[q] = db[q]
  BY <1>1 DEF IInv, TypeOK, x
<1>6. db' \in [Requests -> Run]
  BY <1>4 DEF IInv, TypeOK, x
<1>7. ASSUME NEW q \in Requests
      PROVE  /\ db[q] # NoRun => db'[q] # NoRun
             /\ db[q] = NoRun => db'[q] = NoRun
             /\ Unplanned(db[q]) /\ pc[q] = "validate" /\ q # r => Unplanned(db'[q])
             /\ snap[q] # NoRun /\ q # r => Matches(snap[q], db'[target[q]])
             /\ Keeps(db[q], db'[q])
  <2>1. Keeps(db[q], db'[q])
    BY <1>4, <1>5 DEF Keeps
  <2>2. (db[q] # NoRun => db'[q] # NoRun) /\ (db[q] = NoRun => db'[q] = NoRun)
    BY <1>1, <1>4, <1>5
  <2>3. ASSUME Unplanned(db[q]), pc[q] = "validate", q # r PROVE Unplanned(db'[q])
    <3>1. b = q => pc[r] \notin Driving
      BY <2>3 DEF IInv, PlanFirst
    <3> QED BY <2>3, <3>1, <1>2, <1>4, <1>5
  <2>4. ASSUME snap[q] # NoRun PROVE Matches(snap[q], db'[target[q]])
    <3>1. target[q] \in Requests /\ snap[q] \in Run /\ Matches(snap[q], db[target[q]])
      BY <2>4 DEF IInv, Aimed, TypeOK, Current
    <3>2. CASE target[q] = b
      BY <3>1, <3>2, <1>1, <1>4, <1>5, Outdated
    <3>3. CASE target[q] # b
      BY <3>1, <3>3, <1>5
    <3> QED BY <3>2, <3>3
  <2> QED BY <2>1, <2>2, <2>3, <2>4
<1> DEFINE held == IF place = "worker" THEN x ELSE NoRun
<1>8. /\ held \in Run /\ (place = "worker" => held # NoRun)
      /\ held # NoRun => target[r] \in Requests /\ held = db'[target[r]] /\ place \in Driving
  BY <1>1, <1>4, <1>5, NoRunIs DEF Driving, Graph
<1>9. snap' = [snap EXCEPT ![r] = held]
  BY DEF x
<1> HIDE DEF held
<1>10. Executes(r, place)
  BY <1>4, <1>5 DEF ChoosesFrom, Executes
<1>11. IInv'
  BY <1>6, <1>7, <1>8, <1>9, <1>10, TurnKeeps
<1>12. pc'[r] = place
  BY DEF IInv, TypeOK
<1>13. place # pc[r] => NothingLost
  BY <1>2, <1>5, <1>12 DEF NothingLost
<1> QED BY <1>11, <1>13

LEMMA SaveKeeps ==
  ASSUME IInv, NEW r \in Requests, snap[r] # NoRun,
         NEW new, Change(snap[r], new),
         pc[r] \notin Driving /\ Unplanned(snap[r]) => Unplanned(new),
         NEW place, MayTurn(r, place), place # pc[r], ChoosesFrom(r, place, new),
         NEW conflict, MayTurn(r, conflict), conflict \notin {"execute", "worker"},
         Save(r, new, place, conflict)
  PROVE  IInv' /\ NothingLost
<1>1. CASE db[target[r]].rev = snap[r].rev
  <2>1. /\ db' = [db EXCEPT ![target[r]] = Saved(new)]
        /\ pc' = [pc EXCEPT ![r] = place]
        /\ snap' = [snap EXCEPT ![r] = IF place = "worker" THEN Saved(new) ELSE NoRun]
        /\ UNCHANGED <<bridge, target>>
    BY <1>1 DEF Save, Go, Hold
  <2> QED BY <1>1, <2>1, WriteKeeps
<1>2. CASE db[target[r]].rev # snap[r].rev
  <2>1. Skip(r, conflict)
    BY <1>2 DEF Save, Skip
  <2>2. Executes(r, conflict)
    BY DEF Executes, ChoosesFrom
  <2>3. IInv'
    BY <2>1, <2>2, SkipKeeps
  <2> QED BY <2>1, <2>3 DEF Skip, NothingLost
<1> QED BY <1>1, <1>2

-----------------------------------------------------------------------------
(* The actions *)

LEMMA InitInv == Init => IInv
<1> SUFFICES ASSUME Init PROVE IInv
  OBVIOUS
<1>1. \A r \in Requests :
        db[r] = NoRun /\ snap[r] = NoRun /\ pc[r] = "new" /\ target[r] = None
  BY DEF Init
<1>2. TypeOK
  BY NoRunIs DEF Init, TypeOK
<1>3. Unread /\ CreatedOnce /\ Known /\ PlanFirst /\ Current
  BY <1>1, NoRunIs DEF Unread, CreatedOnce, Known, PlanFirst, Current
<1>4. Aimed
  BY <1>1, SessionAssumption DEF Aimed, Reading, Graph
<1>5. NoLeakedSession
  BY DEF Init, NoLeakedSession
<1> QED BY <1>2, <1>3, <1>4, <1>5 DEF IInv

LEMMA ReadKeeps ==
  ASSUME IInv, NEW r \in Requests, ReadRun(r)
  PROVE  IInv' /\ NothingLost
<1>1. /\ pc[r] \in Reading /\ snap[r] = NoRun /\ snap' = [snap EXCEPT ![r] = db[target[r]]]
      /\ UNCHANGED <<db, bridge, pc, target, next>>
  BY DEF ReadRun, Hold
<1>2. target[r] \in Requests /\ db[target[r]] \in Run
  BY <1>1 DEF IInv, Aimed, TypeOK
<1>3. snap'[r] = db[target[r]] /\ \A q \in Requests : q # r => snap'[q] = snap[q]
  BY <1>1 DEF IInv, TypeOK
<1>4. TypeOK'
  BY <1>1, <1>2 DEF IInv, TypeOK
<1>5. CreatedOnce' /\ NoLeakedSession'
  BY <1>1, <1>2, <1>3 DEF IInv, CreatedOnce, NoLeakedSession
<1>6. Aimed' /\ Unread'
  BY <1>1, <1>2, <1>3 DEF IInv, Aimed, Unread, Reading, Graph
<1>7. Current'
  BY <1>1, <1>2, <1>3, MatchesItself DEF IInv, Current
<1>8. Known'
  BY <1>1, <1>3 DEF IInv, Known
<1>9. PlanFirst'
  BY <1>1, <1>2, <1>3 DEF IInv, PlanFirst
<1> QED BY <1>1, <1>4, <1>5, <1>6, <1>7, <1>8, <1>9 DEF IInv, NothingLost

\* A request that is not driving a run looks for one, or is told which.
LEMMA AimKeeps ==
  ASSUME IInv, NEW r \in Requests, pc[r] \in {"new", "find"},
         NEW place \in {"decide", "check"}, NEW q \in Requests \cup {None},
         q \in Requests => db[q] # NoRun, place = "check" => q \in Requests,
         NEW held \in Run,
         held # NoRun => q \in Requests /\ held = db[q],
         pc' = [pc EXCEPT ![r] = place],
         target' = [target EXCEPT ![r] = q],
         snap' = [snap EXCEPT ![r] = held],
         UNCHANGED <<db, bridge, next>>
  PROVE  IInv' /\ NothingLost
<1>1. pc'[r] = place /\ target'[r] = q /\ snap'[r] = held
  BY DEF IInv, TypeOK
<1>2. \A p \in Requests : p # r => pc'[p] = pc[p] /\ target'[p] = target[p] /\ snap'[p] = snap[p]
  BY DEF IInv, TypeOK
<1>3. TypeOK'
  BY DEF IInv, TypeOK, Handler
<1>5. Aimed' /\ Unread'
  BY <1>1, <1>2 DEF IInv, Aimed, Unread, Reading, Graph
<1>6. CreatedOnce'
  BY <1>1, <1>2 DEF IInv, CreatedOnce, Later, Telling, Graph
<1>7. Current'
  BY <1>1, <1>2, MatchesItself DEF IInv, Current, TypeOK
<1>8. Known'
  BY <1>1, <1>2 DEF IInv, Known
<1>9. PlanFirst'
  <2> SUFFICES ASSUME NEW p \in Requests, pc'[p] = "validate"
               PROVE  /\ target'[p] = p /\ Unplanned(db'[p])
                      /\ \A u \in Requests : target'[u] = p =>
                           Unplanned(snap'[u]) /\ (u # p => pc'[u] \notin Driving)
    BY DEF PlanFirst
  <2>1. p # r /\ pc[p] = "validate"
    BY <1>1, <1>2
  <2>2. target[p] = p /\ Unplanned(db[p])
    BY <2>1 DEF IInv, PlanFirst
  <2>3. \A u \in Requests : target[u] = p =>
          Unplanned(snap[u]) /\ (u # p => pc[u] \notin Driving)
    BY <2>1 DEF IInv, PlanFirst
  <2>4. place \notin Driving
    BY DEF Driving, Graph
  <2>5. q = p => Unplanned(held)
    BY <2>2, NoRunIs
  <2> QED BY <1>1, <1>2, <2>1, <2>2, <2>3, <2>4, <2>5
<1>10. NoLeakedSession'
  BY <1>1, <1>2 DEF IInv, NoLeakedSession, Streaming, Streams, Telling, Graph, TypeOK
<1> QED BY <1>3, <1>5, <1>6, <1>7, <1>8, <1>9, <1>10 DEF IInv, NothingLost

LEMMA RegisterKeeps ==
  ASSUME IInv, NEW r \in Requests, pc[r] \in {"decide", "create", "check"},
         NEW place \in {"insert", "resume"},
         place = "resume" => target[r] \in Requests /\ snap[r].status = "waiting_user",
         Register(r, place), UNCHANGED <<db, target, next>>
  PROVE  IInv' /\ NothingLost
<1>1. /\ pc' = [pc EXCEPT ![r] = place] /\ snap' = [snap EXCEPT ![r] = NoRun]
      /\ bridge' = r /\ db' = db /\ target' = target /\ next' = next
  BY DEF Register, Go, Hold
<1>2. pc'[r] = place /\ snap'[r] = NoRun
  BY <1>1 DEF IInv, TypeOK
<1>3. \A p \in Requests : p # r => pc'[p] = pc[p] /\ snap'[p] = snap[p]
  BY <1>1 DEF IInv, TypeOK
<1>4. TypeOK'
  BY <1>1, NoRunIs DEF IInv, TypeOK, Streaming, Streams, Telling
<1>6. Aimed' /\ Unread'
  BY <1>1, <1>2, <1>3 DEF IInv, Aimed, Unread, Reading, Graph
<1>7. CreatedOnce'
  BY <1>1, <1>2, <1>3 DEF IInv, CreatedOnce, Later, Telling, Graph
<1>8. Current'
  BY <1>1, <1>2, <1>3 DEF IInv, Current
<1>9. Known'
  BY <1>1, <1>2, <1>3 DEF IInv, Known
<1>10. PlanFirst'
  <2> SUFFICES ASSUME NEW p \in Requests, pc'[p] = "validate"
               PROVE  /\ target'[p] = p /\ Unplanned(db'[p])
                      /\ \A u \in Requests : target'[u] = p =>
                           Unplanned(snap'[u]) /\ (u # p => pc'[u] \notin Driving)
    BY DEF PlanFirst
  <2>1. p # r /\ pc[p] = "validate"
    BY <1>2, <1>3
  <2>2. target[p] = p /\ Unplanned(db[p])
    BY <2>1 DEF IInv, PlanFirst
  <2>3. \A u \in Requests : target[u] = p =>
          Unplanned(snap[u]) /\ (u # p => pc[u] \notin Driving)
    BY <2>1 DEF IInv, PlanFirst
  <2>4. target[r] = p => place \notin Driving
    BY <2>3 DEF Driving, Graph, Unplanned
  <2> QED BY <1>1, <1>2, <1>3, <2>1, <2>2, <2>3, <2>4, NoRunIs
<1>11. NoLeakedSession'
  BY <1>1, <1>2 DEF NoLeakedSession, Streaming, Streams, Telling
<1> QED BY <1>1, <1>4, <1>6, <1>7, <1>8, <1>9, <1>10, <1>11 DEF IInv, NothingLost

LEMMA DriverTurns ==
  ASSUME IInv, NEW r \in Requests, pc[r] \in Driving,
         NEW place \in (Graph \ {"validate"}) \cup Telling \cup {"closing", "abandon"},
         place = "abandon" => pc[r] = "resume"
  PROVE  MayTurn(r, place)
<1>1. target[r] \in Requests
  BY DEF IInv, Aimed, Driving, Reading
<1> QED BY <1>1 DEF MayTurn, Driving, Graph, Later, Streaming, Streams, Telling, Place

\* A stream may end wherever it is.
LEMMA StreamTurns ==
  ASSUME NEW r \in Requests, pc[r] \in Streams, NEW place \in Telling \cup {"closing"}
  PROVE  MayTurn(r, place)
BY DEF MayTurn, Driving, Graph, Later, Streaming, Streams, Telling, Place, Reading

LEMMA HandlerTurns ==
  ASSUME IInv, NEW r \in Requests, pc[r] \in Handler \cup {"new"},
         NEW place \in {"find", "create", "replacing", "cancelling", "check", "done"},
         place \in Reading => target[r] \in Requests
  PROVE  MayTurn(r, place)
BY DEF MayTurn, Driving, Graph, Later, Streaming, Streams, Telling, Place, Handler, Reading

\* Who skips to a place where no step is executed.
LEMMA SkipAway ==
  ASSUME IInv, NEW r \in Requests, NEW place, MayTurn(r, place),
         place \notin {"execute", "worker"}, Skip(r, place),
         UNCHANGED next \/ \E i \in Nat : Choose(r, i)
  PROVE  IInv' /\ NothingLost
<1>1. Executes(r, place)
  BY DEF Executes, Choose, IInv, TypeOK
<1> QED BY <1>1, SkipKeeps DEF Skip, NothingLost

\* A run that can be open, and one that was read, is a run.
LEMMA HeldRun ==
  ASSUME IInv, NEW r \in Requests
  PROVE  snap[r] \in Run
BY DEF IInv, TypeOK

LEMMA ArriveKeeps ==
  ASSUME IInv, NEW r \in Requests, Arrive(r)
  PROVE  IInv' /\ NothingLost
<1> UNCHANGED next
  BY DEF Arrive
<1>1. CASE ChatArrive(r)
  <2>1. PICK place \in {"find", "done"} : Skip(r, place) /\ pc[r] = "new"
    BY <1>1 DEF ChatArrive, MaySend, Admit
  <2>2. MayTurn(r, place)
    BY <2>1, HandlerTurns DEF Reading, Graph
  <2> QED BY <2>1, <2>2, SkipAway
<1>2. CASE ByRunArrive(r)
  <2>1. PICK q \in Requests : db[q] # NoRun /\ target' = [target EXCEPT ![r] = q]
    BY <1>2 DEF ByRunArrive, Aim
  <2>2. pc[r] = "new" /\ snap[r] = NoRun /\ snap' = [snap EXCEPT ![r] = NoRun]
    BY <1>2 DEF ByRunArrive, MaySend, IInv, Unread, TypeOK
  <2>3. pc' = [pc EXCEPT ![r] = "check"] /\ UNCHANGED <<db, bridge>>
    BY <1>2 DEF ByRunArrive, Go
  <2> QED BY <2>1, <2>2, <2>3, AimKeeps, NoRunIs
<1> QED BY <1>1, <1>2 DEF Arrive

LEMMA CancelKeeps ==
  ASSUME IInv, NEW r \in Requests, CancelRun(r), UNCHANGED next
  PROVE  IInv' /\ NothingLost
<1>1. pc[r] \in {"cancelling", "replacing", "abandon"} /\ snap[r] # NoRun
  BY DEF CancelRun
<1>2. PICK after \in {"done", "create", "last"}, error \in {"done", "error"} :
        /\ pc[r] = "abandon" => after = "last" /\ error = "error"
        /\ pc[r] # "abandon" => after # "last" /\ error = "done"
        /\ IF IsOpen(snap[r])
           THEN \E place \in {after, error} : Save(r, Cancelled(snap[r]), place, error)
           ELSE Skip(r, after)
  BY <1>1, Zenon DEF CancelRun
<1>3. \A place \in {after, error} : MayTurn(r, place) /\ place # pc[r]
  <2>1. CASE pc[r] = "abandon"
    BY <1>1, <1>2, <2>1, DriverTurns DEF Driving, Telling
  <2>2. CASE pc[r] # "abandon"
    BY <1>1, <1>2, <2>2, HandlerTurns DEF Handler, Reading, Graph
  <2> QED BY <2>1, <2>2
<1>4. CASE IsOpen(snap[r])
  <2>1. PICK place \in {after, error} : Save(r, Cancelled(snap[r]), place, error)
    BY <1>2, <1>4
  <2>2. /\ Change(snap[r], Cancelled(snap[r]))
        /\ Unplanned(snap[r]) => Unplanned(Cancelled(snap[r]))
    BY HeldRun, CancelledIs
  <2>3. ChoosesFrom(r, place, Cancelled(snap[r]))
    BY DEF ChoosesFrom, IInv, TypeOK
  <2>4. error \notin {"execute", "worker"}
    OBVIOUS
  <2> QED BY <1>1, <1>3, <2>1, <2>2, <2>3, <2>4, SaveKeeps
<1>5. CASE ~IsOpen(snap[r])
  BY <1>2, <1>3, <1>5, SkipAway
<1> QED BY <1>4, <1>5

LEMMA HandleKeeps ==
  ASSUME IInv, NEW r \in Requests, Handle(r)
  PROVE  IInv' /\ NothingLost
<1> UNCHANGED next
  BY DEF Handle
<1>1. CASE FindActive(r)
  <2>1. PICK q \in Requests \cup {None} :
          /\ q = None \/ (IsOpen(db[q]) /\ q \in Requests)
          /\ target' = [target EXCEPT ![r] = q]
          /\ snap' = [snap EXCEPT ![r] = IF q = None THEN NoRun ELSE db[q]]
    BY <1>1, Zenon DEF FindActive, Aim, Hold
  <2>2. pc[r] = "find" /\ pc' = [pc EXCEPT ![r] = "decide"] /\ UNCHANGED <<db, bridge>>
    BY <1>1 DEF FindActive, Go
  <2> DEFINE held == IF q = None THEN NoRun ELSE db[q]
  <2>3. q \in Requests => db[q] # NoRun
    <3>1. ~IsOpen(NoRun)
      BY NoRunIs DEF IsOpen, Status, Terminal
    <3> QED BY <2>1, <3>1, SessionAssumption
  <2>4. held \in Run /\ (held # NoRun => q \in Requests /\ held = db[q])
    BY <2>1, NoRunIs DEF IInv, TypeOK
  <2>5. snap' = [snap EXCEPT ![r] = held]
    BY <2>1
  <2> HIDE DEF held
  <2> QED BY <2>1, <2>2, <2>3, <2>4, <2>5, AimKeeps
<1>2. CASE ChatCreates(r)
  BY <1>2, RegisterKeeps DEF ChatCreates
<1>3. CASE ChatReplaces(r)
  <2>1. pc[r] = "decide" /\ target[r] \in Requests /\ Skip(r, "replacing")
    BY <1>3 DEF ChatReplaces, IInv, TypeOK
  <2>2. MayTurn(r, "replacing")
    BY <2>1, HandlerTurns DEF Handler
  <2> QED BY <2>1, <2>2, SkipAway
<1>4. CASE ChatContinues(r)
  <2>1. pc[r] = "decide" /\ target[r] \in Requests
    BY <1>4 DEF ChatContinues, IInv, TypeOK
  <2>2. CASE snap[r].status = "waiting_user"
    BY <1>4, <2>1, <2>2, RegisterKeeps DEF ChatContinues
  <2>3. CASE snap[r].status # "waiting_user"
    <3>1. Skip(r, "done") /\ MayTurn(r, "done")
      BY <1>4, <2>1, <2>3, HandlerTurns DEF ChatContinues, Handler, Reading, Graph
    <3> QED BY <3>1, SkipAway
  <2> QED BY <2>2, <2>3
<1>5. CASE ResumeAdmits(r)
  <2>1. pc[r] = "check" /\ target[r] \in Requests
    BY <1>5 DEF ResumeAdmits, IInv, Aimed
  <2>2. CASE bridge = None /\ snap[r].status = "waiting_user"
    BY <1>5, <2>1, <2>2, RegisterKeeps DEF ResumeAdmits
  <2>3. CASE ~(bridge = None /\ snap[r].status = "waiting_user")
    <3>1. Skip(r, "done") /\ MayTurn(r, "done")
      BY <1>5, <2>1, <2>3, HandlerTurns DEF ResumeAdmits, Handler, Reading, Graph
    <3> QED BY <3>1, SkipAway
  <2> QED BY <2>2, <2>3
<1>6. CASE CancelAdmits(r)
  <2>1. PICK place \in {"cancelling", "done"} : Skip(r, place) /\ pc[r] = "check"
    BY <1>6 DEF CancelAdmits, Admit
  <2>2. target[r] \in Requests
    BY <1>6 DEF CancelAdmits, IInv, Aimed
  <2>3. MayTurn(r, place)
    BY <2>1, <2>2, HandlerTurns DEF Handler
  <2> QED BY <2>1, <2>3, SkipAway
<1>7. CASE CancelRun(r)
  BY <1>7, CancelKeeps
<1> QED BY <1>1, <1>2, <1>3, <1>4, <1>5, <1>6, <1>7 DEF Handle

\* A driver that saves what it has made of the run it read.
LEMMA DriverSaves ==
  ASSUME IInv, NEW r \in Requests, pc[r] \in Driving, snap[r] # NoRun,
         NEW new, Change(snap[r], new),
         NEW place \in (Graph \ {"validate"}) \cup {"last", "error"}, place # pc[r],
         UNCHANGED next \/ \E i \in Nat : Choose(r, i),
         place \in {"execute", "worker"} => next'[r] \in DOMAIN new.step,
         NEW conflict \in {"fail", "error"},
         Save(r, new, place, conflict)
  PROVE  IInv' /\ NothingLost
<1>1. MayTurn(r, place) /\ MayTurn(r, conflict)
  BY DriverTurns DEF Graph, Telling
<1>2. ChoosesFrom(r, place, new)
  BY DEF ChoosesFrom, Choose, IInv, TypeOK
<1> QED BY <1>1, <1>2, SaveKeeps DEF Driving

LEMMA DriverSkips ==
  ASSUME IInv, NEW r \in Requests, pc[r] \in Driving,
         NEW place \in (Graph \ {"validate", "execute", "worker"})
                          \cup {"last", "closing", "abandon"},
         place = "abandon" => pc[r] = "resume",
         Skip(r, place), UNCHANGED next \/ \E i \in Nat : Choose(r, i)
  PROVE  IInv' /\ NothingLost
BY DriverTurns, SkipAway DEF Graph, Telling

LEMMA StreamSkips ==
  ASSUME IInv, NEW r \in Requests, pc[r] \in Streams, NEW place \in Telling \cup {"closing"},
         Skip(r, place), Choose(r, 0)
  PROVE  IInv' /\ NothingLost
BY StreamTurns, SkipAway DEF Telling

LEMMA InsertKeeps ==
  ASSUME IInv, NEW r \in Requests, InsertRun(r)
  PROVE  IInv' /\ NothingLost
<1>1. PICK place \in {"validate", "error"} : pc' = [pc EXCEPT ![r] = place]
  BY DEF InsertRun, Go
<1>2. /\ pc[r] = "insert" /\ snap[r] = NoRun /\ db[r] = NoRun
      /\ db' = [db EXCEPT ![r] = NewRun] /\ target' = [target EXCEPT ![r] = r]
      /\ UNCHANGED <<bridge, snap, next>>
  BY DEF InsertRun, Aim, IInv, Unread, CreatedOnce, Later, Graph, Telling
<1>3. /\ db'[r] = NewRun /\ pc'[r] = place /\ target'[r] = r
      /\ \A p \in Requests : p # r => db'[p] = db[p] /\ pc'[p] = pc[p] /\ target'[p] = target[p]
  BY <1>1, <1>2 DEF IInv, TypeOK
<1>4. \A p \in Requests : p # r => target[p] # r
  BY <1>2 DEF IInv, Aimed
<1>5. TypeOK'
  BY <1>1, <1>2, NewRunIs DEF IInv, TypeOK, Streaming, Telling, Graph
<1>6. Unread'
  BY <1>2, <1>3 DEF IInv, Unread
<1>7. Aimed'
  BY <1>2, <1>3, NewRunIs DEF IInv, Aimed
<1>8. Known'
  BY <1>2, <1>3, <1>4 DEF IInv, Known
<1>9. CreatedOnce'
  BY <1>3 DEF IInv, CreatedOnce, Later, Telling, Graph
<1>10. Current'
  BY <1>2, <1>3, <1>4 DEF IInv, Current, Aimed
<1>11. PlanFirst'
  BY <1>2, <1>3, <1>4, NewRunIs, NoRunIs DEF IInv, PlanFirst
<1>12. NoLeakedSession'
  BY <1>2, <1>3 DEF IInv, NoLeakedSession, Streaming, Telling, Graph, TypeOK
<1>13. NothingLost
  BY <1>2, <1>3 DEF NothingLost
<1> QED BY <1>5, <1>6, <1>7, <1>8, <1>9, <1>10, <1>11, <1>12, <1>13 DEF IInv

LEMMA ScheduleKeeps ==
  ASSUME IInv, NEW r \in Requests, Schedule(r)
  PROVE  IInv' /\ NothingLost
<1>1. pc[r] = "schedule" /\ snap[r] # NoRun /\ pc[r] \in Driving /\ snap[r] \in Run
  BY HeldRun DEF Schedule, Driving, Graph
<1>2. PICK to \in Scheduled(snap[r]) :
        /\ Choose(r, to.next)
        /\ \/ Save(r, to.run, to.place, "fail")
           \/ to.run = snap[r] /\ Skip(r, to.place)
  BY DEF Schedule
<1>3. /\ Change(snap[r], to.run)
      /\ to.place \in {"ending", "finalize", "execute"} /\ to.next \in Nat
      /\ to.place = "execute" => to.next \in DOMAIN to.run.step
  BY <1>1, ScheduledIs
<1>4. next'[r] = to.next
  BY <1>2, <1>3 DEF Choose, IInv, TypeOK
<1>5. CASE Save(r, to.run, to.place, "fail")
  BY <1>1, <1>2, <1>3, <1>4, <1>5, DriverSaves DEF Graph
<1>6. CASE to.run = snap[r] /\ Skip(r, to.place)
  <2>1. MayTurn(r, to.place)
    BY <1>1, <1>3, DriverTurns DEF Graph
  <2>2. db' = db /\ Keeps(snap[r], db[target[r]])
    BY <1>1, <1>6 DEF Skip, IInv, Current, Matches
  <2>3. Executes(r, to.place)
    BY <1>2, <1>3, <1>4, <1>6, <2>2 DEF Executes, Choose, Keeps, IInv, TypeOK
  <2>4. IInv'
    BY <1>3, <1>6, <2>1, <2>3, SkipKeeps
  <2> QED BY <2>2, <2>4 DEF NothingLost
<1> QED BY <1>2, <1>5, <1>6

LEMMA DriveKeeps ==
  ASSUME IInv, NEW r \in Requests, Drive(r)
  PROVE  IInv' /\ NothingLost
<1> DEFINE run == snap[r]
<1>0. run \in Run
  BY HeldRun
<1>1. CASE InsertRun(r)
  BY <1>1, InsertKeeps
<1>2. CASE ResumeRun(r)
  <2>1. pc[r] = "resume" /\ run # NoRun /\ pc[r] \in Driving /\ UNCHANGED next
    BY <1>2 DEF ResumeRun, Driving
  <2>2. CASE Skip(r, "abandon") \/ Skip(r, "closing")
    BY <2>1, <2>2, DriverSkips
  <2>3. ASSUME NEW place \in {"schedule", "error"}, Save(r, Resumed(run), place, "error")
        PROVE  IInv' /\ NothingLost
    BY <1>0, <2>1, <2>3, ResumedIs, DriverSaves DEF Graph
  <2> QED BY <1>2, <2>2, <2>3 DEF ResumeRun
<1>3. CASE Validate(r)
  <2>1. pc[r] = "validate" /\ run # NoRun /\ pc[r] \in Driving /\ UNCHANGED next
    BY <1>3 DEF Validate, Driving, Graph
  <2>2. PICK n \in 1..MaxTodos : Save(r, Planned(run, n), "schedule", "fail")
    BY <1>3 DEF Validate
  <2>3. Unplanned(run)
    BY <2>1 DEF IInv, PlanFirst
  <2>4. Change(run, Planned(run, n))
    BY <1>0, <2>3, SessionAssumption, PlannedIs
  <2> QED BY <2>1, <2>2, <2>4, DriverSaves DEF Graph
<1>4. CASE Schedule(r)
  BY <1>4, ScheduleKeeps
<1>5. CASE Execute(r)
  <2>1. pc[r] = "execute" /\ run # NoRun /\ pc[r] \in Driving /\ UNCHANGED next
    BY <1>5 DEF Execute, Driving, Graph
  <2>2. Save(r, Started(run, next[r]), "worker", "fail")
    BY <1>5 DEF Execute
  <2>3. /\ Change(run, Started(run, next[r]))
        /\ next'[r] \in DOMAIN Started(run, next[r]).step
    BY <1>0, <2>1, StartedIs DEF IInv, Known
  <2> QED BY <2>1, <2>2, <2>3, DriverSaves DEF Graph
<1>6. CASE WorkerReturns(r)
  <2>1. pc[r] = "worker" /\ run # NoRun /\ next[r] \in DOMAIN run.step /\ pc[r] \in Driving
    BY <1>6 DEF WorkerReturns, Driving, Graph, IInv, Known
  <2>2. PICK new \in Returned(run, next[r], 0..(MaxTodos - Len(run.step))) :
          Save(r, new, "schedule", "fail")
    BY <1>6 DEF WorkerReturns
  <2>3. Choose(r, 0)
    BY <1>6 DEF WorkerReturns
  <2>4. 0..(MaxTodos - Len(run.step)) \in SUBSET Nat
    OBVIOUS
  <2>5. Change(run, new)
    BY <1>0, <2>1, <2>2, <2>4, ReturnedIs
  <2> QED BY <2>1, <2>2, <2>3, <2>5, DriverSaves DEF Graph
<1>7. CASE Finalize(r)
  <2>1. pc[r] = "finalize" /\ run # NoRun /\ pc[r] \in Driving /\ UNCHANGED next
    BY <1>7 DEF Finalize, Driving, Graph
  <2>2. CASE Skip(r, "fail")
    BY <2>1, <2>2, DriverSkips DEF Graph
  <2>3. ASSUME NEW verdict \in Verdict, Save(r, Decided(run, verdict), "ending", "fail")
        PROVE  IInv' /\ NothingLost
    BY <1>0, <2>1, <2>3, DecidedIs, DriverSaves DEF Graph
  <2> QED BY <1>7, <2>2, <2>3 DEF Finalize
<1>8. CASE EndGraph(r)
  BY <1>8, DriverSkips DEF EndGraph, Driving, Graph
<1>9. CASE FailRun(r)
  <2>1. pc[r] = "fail" /\ run # NoRun /\ pc[r] \in Driving /\ UNCHANGED next
    BY <1>9 DEF FailRun, Driving, Graph
  <2>2. Save(r, GivenUp(run), "last", "error")
    BY <1>9 DEF FailRun
  <2> QED BY <1>0, <2>1, <2>2, GivenUpIs, DriverSaves
<1> QED BY <1>1, <1>2, <1>3, <1>4, <1>5, <1>6, <1>7, <1>8, <1>9 DEF Drive

LEMMA CloseKeeps ==
  ASSUME IInv, NEW r \in Requests, Close(r)
  PROVE  IInv' /\ NothingLost
<1>1. /\ pc[r] = "closing" /\ pc' = [pc EXCEPT ![r] = "done"] /\ bridge' = None
      /\ UNCHANGED <<db, target, snap, next>>
  BY DEF Close, Go
<1>2. pc'[r] = "done" /\ \A p \in Requests : p # r => pc'[p] = pc[p]
  BY <1>1 DEF IInv, TypeOK
<1>3. TypeOK'
  BY <1>1 DEF IInv, TypeOK
<1>4. Current' /\ NoLeakedSession'
  BY <1>1 DEF IInv, Current, NoLeakedSession
<1>5. Aimed' /\ Unread' /\ Known'
  BY <1>1, <1>2 DEF IInv, Aimed, Unread, Known, Reading, Graph
<1>6. CreatedOnce'
  BY <1>1, <1>2 DEF IInv, CreatedOnce, Later, Telling
<1>7. PlanFirst'
  BY <1>1, <1>2 DEF IInv, PlanFirst, Driving, Graph
<1> QED BY <1>1, <1>3, <1>4, <1>5, <1>6, <1>7 DEF IInv, NothingLost

LEMMA RestartKeeps ==
  ASSUME IInv, Restart
  PROVE  IInv' /\ NothingLost
<1>1. /\ \A r \in Requests : pc'[r] \in {"new", "done"} /\ (pc'[r] = "new" => pc[r] = "new")
      /\ \A r \in Requests : snap'[r] = NoRun
      /\ bridge' = None /\ db' = db /\ target' = target
  BY DEF Restart
<1>2. TypeOK'
  BY NoRunIs DEF Restart, IInv, TypeOK
<1>3. Current' /\ NoLeakedSession' /\ Known' /\ Unread' /\ PlanFirst'
  BY <1>1, NoRunIs DEF IInv, Current, NoLeakedSession, Known, Unread, PlanFirst
<1>4. Aimed'
  BY <1>1 DEF IInv, Aimed, Reading, Graph
<1>5. CreatedOnce'
  BY <1>1 DEF IInv, CreatedOnce, Later, Telling, Graph
<1> QED BY <1>1, <1>2, <1>3, <1>4, <1>5 DEF IInv, NothingLost

LEMMA StutterKeeps ==
  ASSUME IInv, UNCHANGED vars
  PROVE  IInv' /\ NothingLost
BY DEF vars, IInv, TypeOK, Aimed, Unread, CreatedOnce, Current, Known, PlanFirst,
       NoLeakedSession, NothingLost

LEMMA NextKeeps == IInv /\ [Next]_vars => IInv' /\ NothingLost
<1> SUFFICES ASSUME IInv, [Next]_vars PROVE IInv' /\ NothingLost
  OBVIOUS
<1>1. ASSUME NEW r \in Requests, Arrive(r) PROVE IInv' /\ NothingLost
  BY <1>1, ArriveKeeps
<1>2. ASSUME NEW r \in Requests, Proceed(r) PROVE IInv' /\ NothingLost
  <2>1. CASE ReadRun(r)
    BY <2>1, ReadKeeps
  <2>2. CASE Handle(r)
    BY <2>2, HandleKeeps
  <2>3. CASE Drive(r)
    BY <2>3, DriveKeeps
  <2>4. CASE Tell(r)
    BY <2>4, StreamSkips DEF Tell, Streams, Telling
  <2>5. CASE Close(r)
    BY <2>5, CloseKeeps
  <2> QED BY <1>2, <2>1, <2>2, <2>3, <2>4, <2>5 DEF Proceed
<1>3. ASSUME NEW r \in Requests, BreaksOff(r) PROVE IInv' /\ NothingLost
  <2>1. CASE NodeRaises(r)
    BY <2>1, DriverSkips DEF NodeRaises, Driving, Graph
  <2>2. CASE HandlerRaises(r)
    BY <2>2, HandlerTurns, SkipAway DEF HandlerRaises, Handler, Reading, Graph
  <2>3. CASE OperationRaises(r) \/ TellNothing(r) \/ Disconnect(r)
    BY <2>3, StreamSkips
       DEF OperationRaises, TellNothing, Disconnect, Streams, Streaming, Telling, Graph
  <2> QED BY <1>3, <2>1, <2>2, <2>3 DEF BreaksOff
<1>4. CASE Restart
  BY <1>4, RestartKeeps
<1>5. CASE UNCHANGED vars
  BY <1>5, StutterKeeps
<1> QED BY <1>1, <1>2, <1>3, <1>4, <1>5 DEF Next, Quiet

-----------------------------------------------------------------------------
(* The theorems *)

\* The invariant of every interleaving of the requests.
THEOREM SessionInvariance == Spec => []IInv
<1>1. Init => IInv
  BY InitInv
<1>2. IInv /\ [Next]_vars => IInv'
  BY NextKeeps
<1> QED BY <1>1, <1>2, PTL DEF Spec

\* Every variable of the requests, the sessions and the runs keeps its type.
THEOREM SessionTypes == Spec => []TypeOK
<1>1. IInv => TypeOK
  BY DEF IInv
<1> QED BY <1>1, SessionInvariance, PTL

\* The step a request has been sent to execute is one of its run, so that looking it up
\* (run.step) never raises, although other requests save the run in between.
THEOREM DispatchIsKnown == Spec => []Known
<1>1. IInv => Known
  BY DEF IInv
<1> QED BY <1>1, SessionInvariance, PTL

\* However a stream ends, by its own, a disconnect, an error or a restart, the
\* session manager does not go on holding its bridge (session.py, unregister).
THEOREM SessionsEnd == Spec => []NoLeakedSession
<1>1. IInv => NoLeakedSession
  BY DEF IInv
<1> QED BY <1>1, SessionInvariance, PTL

\* Nobody overwrites a run he has not seen as it is: the revision that save_run
\* compares is enough, although requests read, await and save in any order.
THEOREM UpdatesAreKept == Spec => NoLostUpdate
<1>1. IInv /\ [Next]_vars => [NothingLost]_vars
  BY NextKeeps
<1>2. Spec => [][NothingLost]_vars
  BY <1>1, SessionInvariance, PTL DEF Spec
<1> QED BY <1>2 DEF NoLostUpdate, NothingLost

-----------------------------------------------------------------------------
(* A patient client *)

\* A run with a plan that is not over.
Live == {"running", "waiting_user"}

\* At most one request is being admitted; one that got past the check of the
\* bridge found the thread without one.
Heard == \A r, q \in Requests : pc[r] \in Handler /\ pc[q] \in Handler => r = q

Unlocked == \A r \in Requests : pc[r] \in Handler \ {"check"} => bridge = None

\* A stream holds the bridge from its first step to its last.
Locked == \A r \in Requests : pc[r] \in Streams => bridge = r

\* What a handler has decided on is so until it has registered its bridge; while a run
\* is at work no other is open.
Chosen ==
  \A r \in Requests :
    /\ pc[r] \in {"create", "insert"} => \A q \in Requests : ~IsOpen(db[q])
    /\ pc[r] \in {"decide", "replacing"} \cup Graph =>
         \A q \in Requests : IsOpen(db[q]) => q = target[r]
    /\ pc[r] = "replacing" /\ snap[r] # NoRun => snap[r] = db[target[r]]

\* Where the graph is with a run.  One that still has to be told of, or is about to be
\* failed, may have its verdict.
Fits(place, run) ==
  /\ place \in Graph \ {"ending", "fail"} => IsOpen(run)
  /\ place \in Graph \ {"validate", "ending", "fail"} => run.status # "planning"

Underway == \A r \in Requests : Fits(pc[r], db[target[r]])

\* The row of a run has a status.
Stated == \A q \in Requests : db[q] # NoRun => db[q].status \in Status

Patience == Heard /\ Unlocked /\ Locked /\ Chosen /\ Underway /\ Stated /\ OneActiveRun

\* All other runs are over, and stay as they are.
Others(q) ==
  \A p \in Requests : p # q =>
    db'[p] = db[p] /\ (db[p] # NoRun => IsOver(p) /\ IsOver(p)')

\* What a step does to the runs of the thread.
Begins(q) == db[q] = NoRun /\ db'[q].status = "planning" /\ Others(q)

Moves(q) ==
  /\ db[q] # NoRun /\ ~IsOver(q) /\ db'[q] # NoRun
  /\ \/ IsOver(q)'
     \/ OpenStatus(q)' \in {"running", OpenStatus(q)}
     \/ OpenStatus(q)' = "waiting_user" /\ OpenStatus(q) # "planning"
  /\ Others(q)

Untouched == db' = db /\ \A q \in Requests : IsOver(q)' <=> IsOver(q)

OneAtATime == Untouched \/ \E q \in Requests : Begins(q) \/ Moves(q)

\* What a request may make of the run it is about.
Changes(r) ==
  /\ target[r] \in Requests
  /\ IsOpen(db[target[r]]) \/ pc[r] = "fail"
  /\ db'[target[r]].status \in Live \cup Terminal
  /\ db'[target[r]].status = "waiting_user" => db[target[r]].status # "planning"
  /\ \A p \in Requests : p # target[r] => db'[p] = db[p]

LEMMA Alone ==
  ASSUME TypeOK, Patience, NEW r \in Requests, NEW q \in Requests, r # q
  PROVE  /\ pc[r] \in Handler \ {"check"} => pc[q] \in {"new", "done"}
         /\ pc[r] \in Streams => pc[q] \in {"new", "done", "check"}
<1>1. pc[q] \in {"new", "done"} \cup Handler \cup Streams
  BY DEF TypeOK, Streams
<1>2. ASSUME pc[r] \in Handler \ {"check"} PROVE pc[q] \in {"new", "done"}
  <2>1. bridge = None /\ pc[q] \notin Handler
    BY <1>2 DEF Patience, Unlocked, Heard
  <2>2. pc[q] \notin Streams
    BY <2>1, SessionAssumption DEF Patience, Locked
  <2> QED BY <1>1, <2>1, <2>2
<1>3. ASSUME pc[r] \in Streams PROVE pc[q] \in {"new", "done", "check"}
  <2>1. bridge = r
    BY <1>3 DEF Patience, Locked
  <2>2. pc[q] \notin Streams /\ pc[q] \notin Handler \ {"check"}
    BY <2>1, SessionAssumption DEF Patience, Locked, Unlocked
  <2> QED BY <1>1, <2>2
<1> QED BY <1>2, <1>3

LEMMA StatusIs ==
  ASSUME Patience, NEW q \in Requests
  PROVE  /\ db[q] = NoRun => ~IsOpen(db[q]) /\ ~IsOver(q)
         /\ db[q] # NoRun => IsOpen(db[q]) \/ db[q].status \in Terminal
BY NoRunIs DEF Patience, Stated, IsOpen, IsOver, Status, Terminal

\* The step of a graph is one of its run: that run is not over, all others are.
LEMMA GraphMoves ==
  ASSUME IInv, Patience, NEW r \in Requests, pc[r] \in Graph, NEW t, t = target[r],
         target' = target, \A q \in Requests : q # r => pc'[q] \notin {"ending", "fail"},
         db' = db \/ Changes(r), \A q \in Requests : db[q] # NoRun => db'[q] # NoRun
  PROVE  t \in Requests /\ Moves(t)
<1>1. t \in Requests /\ db[t] # NoRun /\ db'[t] # NoRun
  BY DEF IInv, Aimed, Reading, Graph
<1>2. \A q \in Requests : q # r => pc[q] \notin {"ending", "fail"}
  BY Alone DEF IInv, Streaming, Streams
<1>3. ASSUME NEW p \in Requests, p # t, db[p] # NoRun
      PROVE  IsOver(p) /\ IsOver(p)' /\ db'[p] = db[p]
  <2>1. db[p].status \in Terminal /\ db'[p] = db[p]
    BY <1>3, StatusIs DEF Patience, Chosen, Changes, IInv
  <2>2. ~Unsettled(p) /\ ~Unsettled(p)'
    BY <1>2, <1>3 DEF Unsettled
  <2> QED BY <2>1, <2>2 DEF IsOver
<1>4. Others(t)
  <2>1. \A p \in Requests : p # t => db'[p] = db[p]
    BY DEF Changes
  <2> QED BY <1>3, <2>1 DEF Others
<1>5. ~IsOver(t)
  <2>1. CASE pc[r] \in {"ending", "fail"}
    BY <2>1 DEF IsOver, Unsettled
  <2>2. CASE IsOpen(db[t])
    BY <2>2 DEF IsOver, IsOpen
  <2> QED BY <2>1, <2>2 DEF Patience, Underway, Fits
<1>6. \/ IsOver(t)'
      \/ OpenStatus(t)' \in {"running", OpenStatus(t)}
      \/ OpenStatus(t)' = "waiting_user" /\ OpenStatus(t) # "planning"
  <2>1. CASE db' = db
    BY <2>1 DEF OpenStatus
  <2>2. CASE Changes(r)
    BY <2>2 DEF Changes, OpenStatus, IsOpen, Live
  <2> QED BY <2>1, <2>2
<1> QED BY <1>1, <1>4, <1>5, <1>6 DEF Moves

\* Where no graph has a run to tell of, a run is over with its status.
LEMMA OthersMove ==
  ASSUME IInv, Patience, NEW r \in Requests, pc[r] \notin Graph,
         pc'[r] \notin {"ending", "fail"},
         \A q \in Requests : q # r => pc'[q] = pc[q] /\ target'[q] = target[q],
         db' = db \/ (pc[r] \in (Streaming \cup Handler) \ {"check"} /\ Changes(r)),
         \A q \in Requests : db[q] # NoRun => db'[q] # NoRun
  PROVE  OneAtATime
<1>1. \A q \in Requests : Unsettled(q)' <=> Unsettled(q)
  BY DEF Unsettled, Graph
<1>2. CASE db' = db
  BY <1>1, <1>2 DEF IsOver, OneAtATime, Untouched
<1>3. CASE pc[r] \in (Streaming \cup Handler) \ {"check"} /\ Changes(r)
  <2> PICK t : t = target[r]
    OBVIOUS
  <2>1. \A q \in Requests : ~Unsettled(q)
    <3>1. \A q \in Requests : q # r => pc[q] \in {"new", "done", "check"}
      BY <1>3, Alone DEF IInv, Streams
    <3> QED BY <3>1 DEF Unsettled, Graph
  <2>2. t \in Requests /\ IsOpen(db[t]) /\ db[t] # NoRun /\ db'[t] # NoRun
    BY <1>3, StatusIs DEF Changes, Graph, IInv
  <2>3. ASSUME NEW p \in Requests, p # t, db[p] # NoRun
        PROVE  IsOver(p) /\ IsOver(p)'
    <3>1. db[p].status \in Terminal /\ db'[p] = db[p]
      BY <1>3, <2>2, <2>3, StatusIs DEF Patience, OneActiveRun, Changes, IInv
    <3> QED BY <1>1, <2>1, <3>1 DEF IsOver
  <2>4. Others(t)
    BY <1>3, <2>3 DEF Others, Changes
  <2>5. ~IsOver(t)
    BY <2>2 DEF IsOver, IsOpen
  <2>6. \/ IsOver(t)'
        \/ OpenStatus(t)' \in {"running", OpenStatus(t)}
        \/ OpenStatus(t)' = "waiting_user" /\ OpenStatus(t) # "planning"
    BY <1>1, <1>3, <2>1 DEF Changes, OpenStatus, IsOpen, IsOver, Live
  <2> QED BY <2>2, <2>4, <2>5, <2>6 DEF Moves, OneAtATime
<1> QED BY <1>2, <1>3

\* A request goes from place to place; it may change the run it is about.
LEMMA TurnPatiently ==
  ASSUME IInv, Patience, NEW r \in Requests, NEW place,
         pc' = [pc EXCEPT ![r] = place], bridge' = bridge,
         \A q \in Requests : q # r => target'[q] = target[q] /\ snap'[q] = snap[q],
         \/ db' = db
         \/ pc[r] \in (Streaming \cup Handler) \ {"check"} /\ target' = target /\ Changes(r),
         \A q \in Requests : db[q] # NoRun => db'[q] # NoRun,
         pc[r] \in Graph => target' = target,
         place \in {"ending", "fail"} => pc[r] \in Graph,
         place \in Handler => pc[r] \in Handler \/ ~Deciding,
         place \in Handler \ {"check"} => bridge = None,
         place \in Streams => pc[r] \in Streams,
         place \in {"create", "insert"} => \A q \in Requests : ~IsOpen(db'[q]),
         place \in {"decide", "replacing"} \cup Graph =>
           \A q \in Requests : IsOpen(db'[q]) => q = target'[r],
         place = "replacing" => snap'[r] = NoRun \/ snap'[r] = db'[target'[r]],
         Fits(place, db'[target'[r]])
  PROVE  Patience' /\ OneAtATime
<1>1. pc'[r] = place /\ \A q \in Requests : q # r => pc'[q] = pc[q]
  BY DEF IInv, TypeOK
<1>2. Heard'
  BY <1>1 DEF Patience, Heard, Deciding
<1>3. Unlocked' /\ Locked'
  BY <1>1 DEF Patience, Unlocked, Locked
<1>4. \A q \in Requests : q # r /\ pc[q] \notin {"new", "done", "check"} => db' = db
  BY Alone DEF IInv, Streams
<1>5. Chosen'
  <2> SUFFICES ASSUME NEW q \in Requests
               PROVE  /\ pc'[q] \in {"create", "insert"} => \A p \in Requests : ~IsOpen(db'[p])
                      /\ pc'[q] \in {"decide", "replacing"} \cup Graph =>
                           \A p \in Requests : IsOpen(db'[p]) => p = target'[q]
                      /\ pc'[q] = "replacing" /\ snap'[q] # NoRun => snap'[q] = db'[target'[q]]
    BY DEF Chosen
  <2>1. CASE q = r
    BY <1>1, <2>1
  <2>2. CASE q # r
    BY <1>1, <1>4, <2>2 DEF Patience, Chosen, Graph
  <2> QED BY <2>1, <2>2
<1>6. Underway'
  <2> SUFFICES ASSUME NEW q \in Requests PROVE Fits(pc'[q], db'[target'[q]])
    BY DEF Underway
  <2>1. CASE q = r
    BY <1>1, <2>1
  <2>2. CASE q # r
    <3>1. CASE pc[q] \in Graph
      BY <1>1, <1>4, <2>2, <3>1 DEF Patience, Underway, Graph
    <3>2. CASE pc[q] \notin Graph
      BY <1>1, <2>2, <3>2 DEF Fits
    <3> QED BY <3>1, <3>2
  <2> QED BY <2>1, <2>2
<1>7. OneActiveRun'
  <2>1. CASE db' = db
    BY <2>1 DEF Patience, OneActiveRun
  <2>2. CASE Changes(r)
    <3>1. \A q \in Requests : IsOpen(db[q]) => q = target[r]
      BY <2>2 DEF Changes, Patience, Chosen, OneActiveRun, Graph
    <3> QED BY <2>2, <3>1 DEF Changes, OneActiveRun
  <2> QED BY <2>1, <2>2
<1>8. Stated'
  BY DEF Patience, Stated, Changes, Live, Status
<1>9. OneAtATime
  <2>1. CASE pc[r] \in Graph
    <3>1. \A q \in Requests : q # r => pc'[q] \notin {"ending", "fail"}
      BY <1>1, <2>1, Alone DEF IInv, Streaming, Streams
    <3>2. PICK t : t = target[r]
      OBVIOUS
    <3>3. t \in Requests /\ Moves(t)
      BY <2>1, <3>1, <3>2, GraphMoves
    <3> QED BY <3>3 DEF OneAtATime
  <2>2. CASE pc[r] \notin Graph
    BY <1>1, <2>2, OthersMove
  <2> QED BY <2>1, <2>2
<1> QED BY <1>2, <1>3, <1>5, <1>6, <1>7, <1>8, <1>9 DEF Patience

LEMMA SkipPatiently ==
  ASSUME IInv, Patience, NEW r \in Requests, NEW place, Skip(r, place),
         place \in {"ending", "fail"} => pc[r] \in Graph,
         place \in Handler => pc[r] \in Handler \/ ~Deciding,
         place \in Handler \ {"check"} => bridge = None,
         place \in Streams => pc[r] \in Streams,
         place \in {"create", "insert"} => \A q \in Requests : ~IsOpen(db[q]),
         place \in {"decide", "replacing"} \cup Graph =>
           \A q \in Requests : IsOpen(db[q]) => q = target[r],
         Fits(place, db[target[r]])
  PROVE  Patience' /\ OneAtATime
<1>1. /\ pc' = [pc EXCEPT ![r] = place] /\ bridge' = bridge /\ db' = db /\ target' = target
      /\ snap' = [snap EXCEPT ![r] = NoRun]
  BY DEF Skip, Go, Hold
<1>2. snap'[r] = NoRun /\ \A q \in Requests : q # r => snap'[q] = snap[q]
  BY <1>1 DEF IInv, TypeOK
<1>3. Fits(place, db'[target'[r]])
  BY <1>1
<1> QED BY <1>1, <1>2, <1>3, TurnPatiently

\* A request gives way: it ends, or it fails the run it is at work on.
GivesWay(r, place) ==
  /\ place \in {"done", "closing", "fail"} \cup Telling
  /\ place # "done" => pc[r] \in Streams
  /\ place = "fail" => pc[r] \in Graph

LEMMA GiveWayPatiently ==
  ASSUME IInv, Patience, NEW r \in Requests, NEW place, GivesWay(r, place), Skip(r, place)
  PROVE  Patience' /\ OneAtATime
<1>1. Fits(place, db[target[r]])
  BY DEF Fits, GivesWay, Graph, Telling
<1>2. /\ place \notin Handler \cup {"insert", "ending"} /\ (place \in Graph => place = "fail")
      /\ place \in Streams => pc[r] \in Streams
  BY DEF GivesWay, Handler, Streams, Streaming, Telling, Graph
<1>3. place = "fail" => pc[r] \in Graph /\ \A q \in Requests : IsOpen(db[q]) => q = target[r]
  BY DEF GivesWay, Patience, Chosen
<1> QED BY <1>1, <1>2, <1>3, SkipPatiently DEF Handler

\* What a save leaves the run and the request with.
GoesOn(r, place, new) ==
  \/ place = "done"
  \/ place = "create" /\ pc[r] = "replacing" /\ new.status \in Terminal
  \/ place \in {"last", "error"} /\ pc[r] \in Streaming
  \/ place = "ending" /\ pc[r] \in Graph
  \/ /\ place \in Graph \ {"validate", "ending", "fail"} /\ pc[r] \in Streaming
     /\ new.status \in Live

LEMMA SavePatiently ==
  ASSUME IInv, Patience, NEW r \in Requests,
         pc[r] \in (Streaming \cup Handler) \ {"check"}, snap[r] # NoRun,
         NEW new \in Run, NEW place,
         snap[r] = db[target[r]] =>
           /\ IsOpen(snap[r]) \/ pc[r] = "fail"
           /\ new.status \in Live \cup Terminal
           /\ new.status = "waiting_user" => snap[r].status # "planning"
           /\ GoesOn(r, place, new),
         NEW conflict, GivesWay(r, conflict), Save(r, new, place, conflict)
  PROVE  Patience' /\ OneAtATime
<1>1. CASE db[target[r]].rev # snap[r].rev
  <2>1. Skip(r, conflict)
    BY <1>1 DEF Save, Skip
  <2> QED BY <2>1, GiveWayPatiently
<1>2. CASE db[target[r]].rev = snap[r].rev
  <2>1. /\ db' = [db EXCEPT ![target[r]] = Saved(new)]
        /\ pc' = [pc EXCEPT ![r] = place]
        /\ snap' = [snap EXCEPT ![r] = IF place = "worker" THEN Saved(new) ELSE NoRun]
        /\ bridge' = bridge /\ target' = target
    BY <1>2 DEF Save, Go, Hold
  <2>2. target[r] \in Requests /\ snap[r] = db[target[r]] /\ GoesOn(r, place, new)
    BY <1>2 DEF IInv, Aimed, Current, Matches
  <2>3. Saved(new).status = new.status
    BY DEF Saved, Run
  <2>4. db'[target[r]].status = new.status /\ \A p \in Requests : p # target[r] => db'[p] = db[p]
    BY <2>1, <2>2, <2>3 DEF IInv, TypeOK
  <2>5. Changes(r)
    BY <2>2, <2>4 DEF Changes
  <2>6. /\ \A q \in Requests : q # r => target'[q] = target[q] /\ snap'[q] = snap[q]
        /\ \A q \in Requests : db[q] # NoRun => db'[q] # NoRun
    <3>1. db'[target[r]] # NoRun
      BY <2>5, NoRunIs DEF Changes, Live, Terminal
    <3> QED BY <2>1, <2>4, <3>1 DEF IInv, TypeOK
  <2>7. Fits(place, db'[target'[r]])
    BY <2>1, <2>2, <2>4 DEF GoesOn, Fits, Live, IsOpen, Status, Terminal, Graph
  <2>8. \A q \in Requests : IsOpen(db'[q]) => q = target[r]
    BY <2>4, <2>5 DEF Changes, Patience, Chosen, OneActiveRun, Graph
  <2>9. place = "create" => bridge = None /\ \A q \in Requests : ~IsOpen(db'[q])
    BY <2>2, <2>4, <2>8 DEF GoesOn, Patience, Unlocked, IsOpen, Terminal, Handler, Graph
  <2>10. /\ place \in Handler => place = "create" /\ pc[r] \in Handler
         /\ place \in Streams => pc[r] \in Streams
         /\ place \in {"ending", "fail"} => pc[r] \in Graph
         /\ place \notin {"insert", "decide", "replacing"}
    BY <2>2 DEF GoesOn, Handler, Streaming, Streams, Telling, Graph
  <2> QED BY <2>1, <2>5, <2>6, <2>7, <2>8, <2>9, <2>10, TurnPatiently
<1> QED BY <1>1, <1>2

\* A bridge is registered by a request that found none, for the run it decided on.
LEMMA RegisterPatiently ==
  ASSUME IInv, Patience, NEW r \in Requests, pc[r] \in Handler, bridge = None,
         NEW place \in {"insert", "resume"}, Register(r, place), UNCHANGED <<db, target>>,
         place = "insert" => \A q \in Requests : ~IsOpen(db[q])
  PROVE  Patience' /\ OneAtATime
<1>1. /\ pc' = [pc EXCEPT ![r] = place] /\ bridge' = r /\ db' = db /\ target' = target
      /\ snap' = [snap EXCEPT ![r] = NoRun]
  BY DEF Register, Go, Hold
<1>2. /\ pc'[r] = place /\ snap'[r] = NoRun
      /\ \A q \in Requests : q # r => pc'[q] = pc[q] /\ snap'[q] = snap[q]
  BY <1>1 DEF IInv, TypeOK
<1>3. \A q \in Requests : q # r => pc[q] \notin Handler \cup Streams
  BY SessionAssumption DEF Patience, Heard, Locked
<1>4. Heard' /\ Unlocked' /\ Locked'
  BY <1>1, <1>2, <1>3 DEF Heard, Unlocked, Locked, Handler, Streaming, Streams, Telling
<1>5. Chosen'
  BY <1>1, <1>2 DEF Patience, Chosen, Graph
<1>6. Underway'
  BY <1>1, <1>2 DEF Patience, Underway, Fits, Graph
<1>7. OneAtATime
  BY <1>1, <1>2, OthersMove DEF Handler, Graph
<1> QED BY <1>1, <1>4, <1>5, <1>6, <1>7 DEF Patience, Stated, OneActiveRun

LEMMA ArrivePatiently ==
  ASSUME IInv, Patience, NEW r \in Requests, Arrive(r), ~Deciding
  PROVE  Patience' /\ OneAtATime
<1>1. CASE ChatArrive(r)
  <2>1. PICK place \in {"find", "done"} :
          Skip(r, place) /\ (place = "find" => bridge = None)
    BY <1>1 DEF ChatArrive, Admit
  <2>2. Fits(place, db[target[r]])
    BY <2>1 DEF Fits, Graph
  <2> QED BY <2>1, <2>2, SkipPatiently DEF Streaming, Streams, Telling, Graph, Handler
<1>2. CASE ByRunArrive(r)
  <2>1. /\ \A q \in Requests : q # r => target'[q] = target[q]
        /\ pc' = [pc EXCEPT ![r] = "check"] /\ UNCHANGED <<db, bridge, snap>> /\ pc[r] = "new"
    BY <1>2 DEF ByRunArrive, MaySend, Aim, Go, IInv, TypeOK
  <2>2. Fits("check", db'[target'[r]])
    BY DEF Fits, Graph
  <2> QED BY <2>1, <2>2, TurnPatiently DEF Streaming, Streams, Telling, Graph
<1> QED BY <1>1, <1>2 DEF Arrive

LEMMA ReadPatiently ==
  ASSUME IInv, Patience, NEW r \in Requests, ReadRun(r)
  PROVE  Patience' /\ OneAtATime
<1>1. /\ pc[r] \in Reading /\ pc' = [pc EXCEPT ![r] = pc[r]] /\ UNCHANGED <<db, bridge, target>>
      /\ snap' = [snap EXCEPT ![r] = db[target[r]]]
  BY DEF ReadRun, Hold, IInv, TypeOK
<1>2. snap'[r] = db'[target'[r]] /\ \A q \in Requests : q # r => snap'[q] = snap[q]
  BY <1>1 DEF IInv, TypeOK
<1>3. Fits(pc[r], db'[target'[r]])
  BY <1>1 DEF Patience, Underway
<1>4. /\ pc[r] \in Handler \ {"check"} => bridge = None
      /\ pc[r] \in {"create", "insert"} => \A q \in Requests : ~IsOpen(db'[q])
      /\ pc[r] \in {"decide", "replacing"} \cup Graph =>
           \A q \in Requests : IsOpen(db'[q]) => q = target'[r]
  BY <1>1 DEF Patience, Unlocked, Chosen
<1> QED BY <1>1, <1>2, <1>3, <1>4, TurnPatiently DEF Graph

LEMMA CancelPatiently ==
  ASSUME IInv, Patience, NEW r \in Requests, CancelRun(r)
  PROVE  Patience' /\ OneAtATime
<1>1. pc[r] \in {"cancelling", "replacing", "abandon"} /\ snap[r] # NoRun
  BY DEF CancelRun
<1>2. PICK after \in {"done", "create", "last"}, error \in {"done", "error"} :
        /\ after = "create" <=> pc[r] = "replacing"
        /\ pc[r] = "abandon" <=> after = "last"
        /\ pc[r] = "abandon" <=> error = "error"
        /\ IF IsOpen(snap[r])
           THEN \E place \in {after, error} : Save(r, Cancelled(snap[r]), place, error)
           ELSE Skip(r, after)
  BY <1>1, Zenon DEF CancelRun
<1>3. CASE IsOpen(snap[r])
  <2>1. PICK place \in {after, error} : Save(r, Cancelled(snap[r]), place, error)
    BY <1>2, <1>3
  <2>2. Cancelled(snap[r]) \in Run /\ Cancelled(snap[r]).status = "cancelled"
    BY HeldRun, CancelledIs DEF Change
  <2>3. GoesOn(r, place, Cancelled(snap[r])) /\ GivesWay(r, error)
    BY <1>1, <1>2, <2>2 DEF GoesOn, GivesWay, Streaming, Streams, Telling, Terminal
  <2>4. pc[r] \in (Streaming \cup Handler) \ {"check"}
    BY <1>1 DEF Streaming, Handler
  <2>5. "cancelled" \in Terminal
    BY DEF Terminal
  <2> QED BY <1>1, <1>3, <2>1, <2>2, <2>3, <2>4, <2>5, SavePatiently
<1>4. CASE ~IsOpen(snap[r])
  <2>1. CASE pc[r] = "replacing"
    <3>1. bridge = None /\ \A q \in Requests : ~IsOpen(db[q])
      BY <1>1, <1>4, <2>1 DEF Patience, Unlocked, Chosen, Handler
    <3>2. Skip(r, "create") /\ Fits("create", db[target[r]])
      BY <1>2, <1>4, <2>1 DEF Fits, Graph
    <3> QED BY <2>1, <3>1, <3>2, SkipPatiently DEF Handler, Streaming, Streams, Telling, Graph
  <2>2. CASE pc[r] # "replacing"
    <3>1. GivesWay(r, after)
      BY <1>1, <1>2, <2>2 DEF GivesWay, Streaming, Streams, Telling
    <3> QED BY <1>2, <1>4, <3>1, GiveWayPatiently
  <2> QED BY <2>1, <2>2
<1> QED BY <1>3, <1>4

LEMMA HandlePatiently ==
  ASSUME IInv, Patience, NEW r \in Requests, Handle(r)
  PROVE  Patience' /\ OneAtATime
<1>1. CASE FindActive(r)
  <2>1. /\ pc[r] = "find" /\ pc' = [pc EXCEPT ![r] = "decide"] /\ UNCHANGED <<db, bridge>>
        /\ bridge = None
    BY <1>1 DEF FindActive, Go, Patience, Unlocked, Handler
  <2>2. \A q \in Requests : q # r => target'[q] = target[q] /\ snap'[q] = snap[q]
    BY <1>1 DEF FindActive, Aim, Hold, IInv, TypeOK
  <2>3. \A q \in Requests : IsOpen(db'[q]) => q = target'[r]
    BY <1>1, <2>1 DEF FindActive, Aim, IInv, TypeOK, Patience, OneActiveRun
  <2>4. Fits("decide", db'[target'[r]])
    BY DEF Fits, Graph
  <2> QED BY <2>1, <2>2, <2>3, <2>4, TurnPatiently DEF Handler, Streaming, Streams, Telling, Graph
<1>2. CASE ChatCreates(r)
  <2>1. pc[r] \in {"create", "decide"} /\ (pc[r] = "decide" => target[r] = None)
        /\ Register(r, "insert") /\ UNCHANGED <<db, target>>
    BY <1>2 DEF ChatCreates
  <2>2. bridge = None /\ \A q \in Requests : ~IsOpen(db[q])
    BY <2>1, SessionAssumption DEF Patience, Unlocked, Chosen, Handler
  <2> QED BY <2>1, <2>2, RegisterPatiently DEF Handler
<1>3. CASE ChatReplaces(r)
  <2>1. /\ pc[r] = "decide" /\ Skip(r, "replacing") /\ bridge = None
        /\ \A q \in Requests : IsOpen(db[q]) => q = target[r]
    BY <1>3 DEF ChatReplaces, Patience, Unlocked, Chosen, Handler
  <2>2. Fits("replacing", db[target[r]])
    BY DEF Fits, Graph
  <2> QED BY <2>1, <2>2, SkipPatiently DEF Handler, Streaming, Streams, Telling, Graph
<1>4. CASE ChatContinues(r)
  <2>1. pc[r] = "decide" /\ bridge = None
    BY <1>4 DEF ChatContinues, Patience, Unlocked, Handler
  <2>2. CASE Skip(r, "done")
    BY <2>2, GiveWayPatiently DEF GivesWay
  <2>3. CASE Register(r, "resume") /\ UNCHANGED <<db, target>>
    BY <2>1, <2>3, RegisterPatiently DEF Handler
  <2> QED BY <1>4, <2>2, <2>3 DEF ChatContinues
<1>5. CASE ResumeAdmits(r)
  <2>1. CASE Skip(r, "done")
    BY <2>1, GiveWayPatiently DEF GivesWay
  <2>2. CASE pc[r] = "check" /\ bridge = None /\ Register(r, "resume") /\ UNCHANGED <<db, target>>
    BY <2>2, RegisterPatiently DEF Handler
  <2> QED BY <1>5, <2>1, <2>2 DEF ResumeAdmits
<1>6. CASE CancelAdmits(r)
  <2>1. CASE Skip(r, "done")
    BY <2>1, GiveWayPatiently DEF GivesWay
  <2>2. CASE pc[r] = "check" /\ bridge = None /\ Skip(r, "cancelling")
    <3>1. Fits("cancelling", db[target[r]])
      BY DEF Fits, Graph
    <3> QED BY <2>2, <3>1, SkipPatiently DEF Handler, Streaming, Streams, Telling, Graph
  <2> QED BY <1>6, <2>1, <2>2 DEF CancelAdmits, Admit
<1>7. CASE CancelRun(r)
  BY <1>7, CancelPatiently
<1> QED BY <1>1, <1>2, <1>3, <1>4, <1>5, <1>6, <1>7 DEF Handle

LEMMA InsertPatiently ==
  ASSUME IInv, Patience, NEW r \in Requests, InsertRun(r)
  PROVE  Patience' /\ OneAtATime
<1>1. PICK place \in {"validate", "error"} : pc' = [pc EXCEPT ![r] = place]
  BY DEF InsertRun, Go
<1>2. /\ pc[r] = "insert" /\ db[r] = NoRun /\ \A q \in Requests : ~IsOpen(db[q])
      /\ db' = [db EXCEPT ![r] = NewRun] /\ target' = [target EXCEPT ![r] = r]
      /\ UNCHANGED <<bridge, snap>>
  BY DEF InsertRun, Aim, IInv, CreatedOnce, Later, Telling, Graph, Patience, Chosen
<1>3. /\ db'[r] = NewRun /\ pc'[r] = place /\ target'[r] = r
      /\ \A p \in Requests : p # r => db'[p] = db[p] /\ pc'[p] = pc[p] /\ target'[p] = target[p]
  BY <1>1, <1>2 DEF IInv, TypeOK
<1>4. NewRun.status = "planning"
  BY DEF NewRun, NoRun
<1>5. \A p \in Requests : p # r => pc[p] \in {"new", "done", "check"}
  BY <1>2, Alone DEF IInv, Streaming, Streams, Telling
<1>6. Heard' /\ Unlocked'
  BY <1>2, <1>3 DEF Patience, Heard, Unlocked, Handler
<1>7. Locked'
  BY <1>2, <1>3 DEF Patience, Locked, Streaming, Streams, Telling
<1>8. Chosen'
  BY <1>2, <1>3, <1>5 DEF Chosen, Graph
<1>9. Underway' /\ Stated'
  BY <1>3, <1>4, <1>5 DEF Patience, Underway, Stated, Fits, Graph, IsOpen, Status, Terminal
<1>10. OneActiveRun'
  BY <1>2, <1>3 DEF OneActiveRun
<1>11. \A q \in Requests : ~Unsettled(q) /\ ~Unsettled(q)'
  BY <1>2, <1>3, <1>5 DEF Unsettled
<1>12. Others(r)
  BY <1>2, <1>3, <1>11, StatusIs DEF Others, IsOver
<1> QED BY <1>2, <1>3, <1>4, <1>6, <1>7, <1>8, <1>9, <1>10, <1>12
        DEF Patience, OneAtATime, Begins

\* A node of the graph saves a run that it leaves open.
LEMMA NodePatiently ==
  ASSUME IInv, Patience, NEW r \in Requests, pc[r] \in Graph \ {"ending", "fail"},
         snap[r] # NoRun,
         NEW new \in Run, new.status \in Live \/ new.status = snap[r].status,
         pc[r] = "validate" => new.status = "running",
         NEW place \in Graph \ {"validate", "fail"},
         Save(r, new, place, "fail")
  PROVE  Patience' /\ OneAtATime
<1>1. ASSUME snap[r] = db[target[r]]
      PROVE  /\ IsOpen(snap[r]) /\ new.status \in Live
             /\ new.status = "waiting_user" => snap[r].status # "planning"
  <2>1. Fits(pc[r], snap[r])
    BY <1>1 DEF Patience, Underway
  <2> QED BY <2>1 DEF Fits, Graph, IsOpen, Status, Terminal, Live
<1>2. GivesWay(r, "fail") /\ pc[r] \in Streaming
  BY DEF GivesWay, Streaming, Streams
<1>3. snap[r] = db[target[r]] => GoesOn(r, place, new)
  BY <1>1, <1>2 DEF GoesOn
<1> QED BY <1>1, <1>2, <1>3, SavePatiently DEF Graph

\* The end of a run is saved: its verdict, or its failure.
LEMMA EndPatiently ==
  ASSUME IInv, Patience, NEW r \in Requests, pc[r] \in Graph \ {"ending"}, snap[r] # NoRun,
         NEW new \in Run, new.status \in Terminal,
         NEW place \in {"ending", "last"}, NEW conflict \in {"fail", "error"},
         Save(r, new, place, conflict)
  PROVE  Patience' /\ OneAtATime
<1>1. snap[r] = db[target[r]] => IsOpen(snap[r]) \/ pc[r] = "fail"
  BY DEF Patience, Underway, Fits
<1>2. GivesWay(r, conflict) /\ GoesOn(r, place, new)
  BY DEF GivesWay, GoesOn, Streaming, Streams, Telling
<1>3. pc[r] \in (Streaming \cup Handler) \ {"check"}
  BY DEF Streaming, Graph
<1> QED BY <1>1, <1>2, <1>3, SavePatiently DEF Terminal

LEMMA SchedulePatiently ==
  ASSUME IInv, Patience, NEW r \in Requests, Schedule(r)
  PROVE  Patience' /\ OneAtATime
<1>1. pc[r] = "schedule" /\ snap[r] # NoRun /\ snap[r] \in Run
  BY HeldRun DEF Schedule
<1>2. PICK to \in Scheduled(snap[r]) :
        Save(r, to.run, to.place, "fail") \/ Skip(r, to.place)
  BY DEF Schedule
<1>3. /\ to.run \in Run /\ to.place \in {"ending", "finalize", "execute"}
      /\ to.run.status \in Live \/ to.run.status = snap[r].status
  BY <1>1, ScheduledIs DEF Change, Live
<1>4. CASE Save(r, to.run, to.place, "fail")
  BY <1>1, <1>3, <1>4, NodePatiently DEF Graph
<1>5. CASE Skip(r, to.place)
  <2>1. Fits(to.place, db[target[r]])
    BY <1>1, <1>3 DEF Patience, Underway, Fits, Graph
  <2>2. pc[r] \in Graph /\ \A q \in Requests : IsOpen(db[q]) => q = target[r]
    BY <1>1 DEF Patience, Chosen, Graph
  <2>3. pc[r] \in Streams /\ to.place \notin Handler \cup {"insert"}
    BY <1>1, <1>3 DEF Handler, Streaming, Streams, Graph
  <2> QED BY <1>3, <1>5, <2>1, <2>2, <2>3, SkipPatiently DEF Handler
<1> QED BY <1>2, <1>4, <1>5

LEMMA DrivePatiently ==
  ASSUME IInv, Patience, NEW r \in Requests, Drive(r)
  PROVE  Patience' /\ OneAtATime
<1> DEFINE run == snap[r]
<1>0. run \in Run
  BY HeldRun
<1>1. CASE InsertRun(r)
  BY <1>1, InsertPatiently
<1>2. CASE ResumeRun(r)
  <2>1. pc[r] = "resume" /\ run # NoRun
    BY <1>2 DEF ResumeRun
  <2>2. CASE Skip(r, "closing")
    BY <2>1, <2>2, GiveWayPatiently DEF GivesWay, Streaming, Streams, Telling
  <2>3. CASE Skip(r, "abandon")
    BY <2>1, <2>3, SkipPatiently DEF Fits, Handler, Streaming, Streams, Telling, Graph
  <2>4. ASSUME MayResume(run), NEW place \in {"schedule", "error"},
               Save(r, Resumed(run), place, "error")
        PROVE  Patience' /\ OneAtATime
    <3>1. Resumed(run) \in Run /\ Resumed(run).status = "running"
      BY <1>0, ResumedIs DEF Change
    <3>2. GivesWay(r, "error") /\ GoesOn(r, place, Resumed(run))
      BY <2>1, <3>1 DEF GivesWay, GoesOn, Streaming, Streams, Telling, Graph, Live
    <3>3. IsOpen(run)
      BY <2>4 DEF MayResume, IsOpen, Status, Terminal
    <3> QED BY <2>1, <2>4, <3>1, <3>2, <3>3, SavePatiently DEF Streaming, Handler, Graph, Live
  <2> QED BY <1>2, <2>2, <2>3, <2>4 DEF ResumeRun
<1>3. CASE Validate(r)
  <2>1. pc[r] = "validate" /\ run # NoRun
    BY <1>3 DEF Validate
  <2>2. PICK n \in 1..MaxTodos : Save(r, Planned(run, n), "schedule", "fail")
    BY <1>3 DEF Validate
  <2>3. Unplanned(run)
    BY <2>1 DEF IInv, PlanFirst
  <2>4. Planned(run, n) \in Run /\ Planned(run, n).status = "running"
    BY <1>0, <2>3, SessionAssumption, PlannedIs DEF Change
  <2> QED BY <2>1, <2>2, <2>4, NodePatiently DEF Graph, Live
<1>4. CASE Schedule(r)
  BY <1>4, SchedulePatiently
<1>5. CASE Execute(r)
  <2> DEFINE new == Started(run, next[r])
  <2>1. pc[r] = "execute" /\ run # NoRun /\ Save(r, new, "worker", "fail")
    BY <1>5 DEF Execute
  <2>2. new \in Run /\ new.status = run.status
    BY <1>0, StartedIs DEF Change
  <2> QED BY <2>1, <2>2, NodePatiently DEF Graph
<1>6. CASE WorkerReturns(r)
  <2>1. pc[r] = "worker" /\ run # NoRun /\ next[r] \in DOMAIN run.step
    BY <1>6 DEF WorkerReturns, IInv, Known
  <2>2. PICK new \in Returned(run, next[r], 0..(MaxTodos - Len(run.step))) :
          Save(r, new, "schedule", "fail")
    BY <1>6 DEF WorkerReturns
  <2>3. 0..(MaxTodos - Len(run.step)) \in SUBSET Nat
    OBVIOUS
  <2>4. new \in Run /\ new.status \in {run.status, "waiting_user"}
    BY <1>0, <2>1, <2>2, <2>3, ReturnedIs DEF Change
  <2> QED BY <2>1, <2>2, <2>4, NodePatiently DEF Graph, Live
<1>7. CASE Finalize(r)
  <2>1. pc[r] = "finalize" /\ run # NoRun
    BY <1>7 DEF Finalize
  <2>2. CASE Skip(r, "fail")
    BY <2>1, <2>2, GiveWayPatiently DEF GivesWay, Streaming, Streams, Telling, Graph
  <2>3. ASSUME NEW verdict \in Verdict, Save(r, Decided(run, verdict), "ending", "fail")
        PROVE  Patience' /\ OneAtATime
    <3>1. Decided(run, verdict) \in Run /\ Decided(run, verdict).status = verdict
      BY <1>0, <2>3, DecidedIs DEF Change
    <3> QED BY <2>1, <2>3, <3>1, EndPatiently DEF Graph, Verdict, Terminal
  <2> QED BY <1>7, <2>2, <2>3 DEF Finalize
<1>8. CASE EndGraph(r)
  BY <1>8, GiveWayPatiently DEF EndGraph, GivesWay, Streaming, Streams, Telling, Graph
<1>9. CASE FailRun(r)
  <2>1. pc[r] = "fail" /\ run # NoRun /\ Save(r, GivenUp(run), "last", "error")
    BY <1>9 DEF FailRun
  <2>2. GivenUp(run) \in Run /\ GivenUp(run).status = "failed"
    BY <1>0, GivenUpIs DEF Change
  <2> QED BY <2>1, <2>2, EndPatiently DEF Graph, Terminal
<1> QED BY <1>1, <1>2, <1>3, <1>4, <1>5, <1>6, <1>7, <1>8, <1>9 DEF Drive

LEMMA ClosePatiently ==
  ASSUME IInv, Patience, NEW r \in Requests, Close(r)
  PROVE  Patience' /\ OneAtATime
<1>1. /\ pc[r] = "closing" /\ pc' = [pc EXCEPT ![r] = "done"] /\ bridge' = None
      /\ UNCHANGED <<db, target, snap>>
  BY DEF Close, Go
<1>2. pc'[r] = "done" /\ \A p \in Requests : p # r => pc'[p] = pc[p]
  BY <1>1 DEF IInv, TypeOK
<1>3. \A p \in Requests : p # r => pc[p] \in {"new", "done", "check"}
  BY <1>1, Alone DEF IInv, Streams
<1>4. Heard' /\ Unlocked' /\ Locked' /\ Chosen' /\ Underway'
  BY <1>1, <1>2, <1>3
     DEF Patience, Heard, Unlocked, Locked, Chosen, Underway, Fits,
         Handler, Streaming, Streams, Telling, Graph
<1>5. OneAtATime
  BY <1>1, <1>2, OthersMove DEF Graph
<1> QED BY <1>1, <1>4, <1>5 DEF Patience, Stated, OneActiveRun

LEMMA RestartPatiently ==
  ASSUME IInv, Patience, Restart
  PROVE  Patience' /\ OneAtATime
<1>1. /\ \A r \in Requests : pc'[r] \in {"new", "done"}
      /\ db' = db /\ target' = target
  BY DEF Restart
<1>2. Heard' /\ Unlocked' /\ Locked' /\ Chosen' /\ Underway'
  BY <1>1 DEF Heard, Unlocked, Locked, Chosen, Underway, Fits,
              Handler, Streaming, Streams, Telling, Graph
<1>3. OneAtATime
  <2>1. CASE \E r \in Requests : pc[r] \in Graph
    <3>1. PICK r \in Requests : pc[r] \in Graph
      BY <2>1
    <3>2. PICK t : t = target[r]
      OBVIOUS
    <3>3. t \in Requests /\ Moves(t)
      BY <1>1, <3>1, <3>2, GraphMoves
    <3> QED BY <3>3 DEF OneAtATime
  <2>2. CASE \A r \in Requests : pc[r] \notin Graph
    BY <1>1, <2>2 DEF OneAtATime, Untouched, IsOver, Unsettled, Graph
  <2> QED BY <2>1, <2>2
<1> QED BY <1>1, <1>2, <1>3 DEF Patience, Stated, OneActiveRun

LEMMA StepPatiently ==
  ASSUME IInv, Patience, habit.patient, [ClientNext]_<<vars, habit>>
  PROVE  Patience' /\ OneAtATime
<1>1. ASSUME NEW r \in Requests, ClientNext, Arrive(r) PROVE Patience' /\ OneAtATime
  <2>1. pc[r] = "new" /\ pc'[r] # "new"
    BY <1>1 DEF Arrive, ChatArrive, ByRunArrive, MaySend, Admit, Skip, Go, IInv, TypeOK
  <2>2. ~Deciding
    BY <1>1, <2>1 DEF ClientNext, MaySendNow
  <2> QED BY <1>1, <2>2, ArrivePatiently
<1>2. ASSUME NEW r \in Requests, Proceed(r) PROVE Patience' /\ OneAtATime
  <2>1. CASE Tell(r)
    BY <2>1, GiveWayPatiently DEF Tell, GivesWay, Streams, Telling
  <2> QED BY <1>2, <2>1, ReadPatiently, HandlePatiently, DrivePatiently, ClosePatiently
          DEF Proceed
<1>3. ASSUME NEW r \in Requests, BreaksOff(r) PROVE Patience' /\ OneAtATime
  <2>1. PICK place : GivesWay(r, place) /\ Skip(r, place)
    BY <1>3 DEF BreaksOff, NodeRaises, OperationRaises, HandlerRaises, TellNothing, Disconnect,
                GivesWay, Streams, Streaming, Telling, Graph
  <2> QED BY <2>1, GiveWayPatiently
<1>4. CASE Restart
  BY <1>4, RestartPatiently
<1>5. CASE UNCHANGED vars
  BY <1>5 DEF vars, Patience, Heard, Unlocked, Locked, Chosen, Underway, Stated, OneActiveRun,
              OneAtATime, Untouched, IsOver, Unsettled
<1> QED BY <1>1, <1>2, <1>3, <1>4, <1>5 DEF ClientNext, Next, Quiet, vars

\* A client sends what the server accepts.
LEMMA ClientsAreServed == ClientSpec => Spec
<1>1. ClientInit => Init
  BY DEF ClientInit
<1>2. [ClientNext]_<<vars, habit>> => [Next]_vars
  BY DEF ClientNext
<1> QED BY <1>1, <1>2, PTL DEF ClientSpec, Spec

\* The invariant of the requests of a patient client.
THEOREM PatientInvariance == ClientSpec => [](habit.patient => Patience)
<1>1. ClientInit => Patience
  <2> SUFFICES ASSUME Init PROVE Patience
    BY DEF ClientInit
  <2>1. \A r \in Requests : pc[r] = "new" /\ ~IsOpen(db[r])
    BY NoRunIs DEF Init, IsOpen, Status, Terminal
  <2>2. \A r \in Requests : db[r] = NoRun
    BY DEF Init
  <2> QED BY <2>1, <2>2
          DEF Patience, Heard, Unlocked, Locked, Chosen, Underway, Fits, Stated, OneActiveRun,
                      Handler, Streaming, Streams, Telling, Graph
<1>2. /\ IInv /\ (habit.patient => Patience) /\ [ClientNext]_<<vars, habit>>
      => (habit.patient => Patience)'
  BY StepPatiently DEF ClientNext
<1> QED BY <1>1, <1>2, ClientsAreServed, SessionInvariance, PTL DEF ClientSpec

\* A patient client has one request at a time that drives a run, and no run is
\* cancelled under its driver (routes.py: the bridge is checked before the awaits
\* of a handler and registered after them).
THEOREM PatientHasOneDriver == ClientSpec => []PatientOneDriver
<1>1. IInv /\ Patience => OneDriver
  <2> SUFFICES ASSUME IInv, Patience, NEW r \in Requests, NEW q \in Requests,
                      pc[q] \in Streaming, r # q
               PROVE  pc[r] \in {"new", "done", "check"}
    BY DEF OneDriver, Streaming, Graph
  <2> QED BY Alone DEF IInv, Streams
<1> QED BY <1>1, ClientsAreServed, SessionInvariance, PatientInvariance, PTL DEF PatientOneDriver

\* The conversation of a patient client has at most one run that is not over,
\* although find_active_by_thread and the insert of the next run are apart.
THEOREM PatientHasOneRun == ClientSpec => []PatientOneActiveRun
<1>1. Patience => OneActiveRun
  BY DEF Patience
<1> QED BY <1>1, PatientInvariance, PTL DEF PatientOneActiveRun

\* While a worker is at work, the bridge of the conversation is its request's own:
\* the answers of a patient client find their way back.
THEOREM PatientIsHeard == ClientSpec => []PatientAnswersReachTheDriver
<1>1. Patience => AnswersReachTheDriver
  BY DEF Patience, Locked, AnswersReachTheDriver, Streaming, Streams, Telling, Graph
<1> QED BY <1>1, PatientInvariance, PTL DEF PatientAnswersReachTheDriver

LEMMA OneRunMoves ==
  ASSUME IInv, Patience, OneAtATime
  PROVE  [Thread!TNext]_(Thread!tvars)
<1> DEFINE Opened == {[run |-> p, status |-> OpenStatus(p)] :
                        p \in {p \in Requests : db[p] # NoRun /\ ~IsOver(p)}}
           Ended  == {[run |-> p, left |-> db[p]] : p \in {p \in Requests : IsOver(p)}}
<1>0. /\ \A p \in Requests : IsOver(p) => db[p] # NoRun
      /\ \A p \in Requests : IsOver(p)' => db'[p] # NoRun
  BY NoRunIs DEF IsOver, Terminal
<1>1. CASE Untouched
  BY <1>1 DEF Untouched, Thread!tvars, OpenStatus
<1>2. ASSUME NEW q \in Requests, Begins(q) PROVE Thread!Begin
  <2> DEFINE x == [run |-> q, status |-> "planning"]
  <2>1. db'[q] # NoRun /\ ~IsOver(q)' /\ OpenStatus(q)' = "planning"
    BY <1>2, NoRunIs DEF Begins, IsOver, OpenStatus, IsOpen, Status, Terminal
  <2>2. Opened = {} /\ Opened' = {x}
    BY <1>0, <1>2, <2>1 DEF Begins, Others
  <2>3. Ended' = Ended /\ \A o \in Ended : o.run # q
    BY <1>0, <1>2, <2>1 DEF Begins, Others
  <2>4. x \in Opened' /\ x.run = q /\ x.status = "planning"
    BY <2>2
  <2> QED BY <2>2, <2>3, <2>4 DEF Thread!Begin
<1>3. ASSUME NEW q \in Requests, Moves(q) PROVE [Thread!TNext]_(Thread!tvars)
  <2> DEFINE x == [run |-> q, status |-> OpenStatus(q)]
  <2>1. Opened = {x}
    BY <1>0, <1>3 DEF Moves, Others
  <2>2. CASE IsOver(q)'
    <3> DEFINE y == [run |-> q, left |-> db'[q]]
    <3>1. Opened' = {}
      BY <1>0, <1>3, <2>2 DEF Moves, Others
    <3>2. Ended' = Ended \cup {y}
      BY <1>0, <1>3, <2>2 DEF Moves, Others
    <3> QED BY <2>1, <3>1, <3>2 DEF Thread!TNext, Thread!Finish
  <2>3. CASE ~IsOver(q)'
    <3> DEFINE y == [run |-> q, status |-> OpenStatus(q)']
    <3>1. Opened' = {y}
      BY <1>0, <1>3, <2>3 DEF Moves, Others
    <3>2. Ended' = Ended
      BY <1>0, <1>3, <2>3 DEF Moves, Others
    <3>3. \/ y.status = "running"
          \/ y.status = "waiting_user" /\ x.status # "planning"
          \/ y = x
      BY <1>3, <2>3 DEF Moves
    <3> QED BY <2>1, <3>1, <3>2, <3>3 DEF Thread!TNext, Thread!Move, Thread!tvars
  <2> QED BY <2>2, <2>3
<1> QED BY <1>1, <1>2, <1>3 DEF OneAtATime, Thread!TNext

\* The requests of a patient client keep the promise of a thread: its runs come one
\* after another, as Conversation takes them, and what a run has left is never
\* touched again - also when streams break off and the process restarts.  A run is over
\* when its verdict is saved and the request that gave it can no longer take it back:
\* until it has told of the verdict (_emit), its failure to do so fails the run
\* (engine.py, _fail_run).
THEOREM PatientKeepsThread == ClientSpec => PatientThread
<1>1. /\ IInv /\ (habit.patient => Patience) /\ [ClientNext]_<<vars, habit>>
      => [habit.patient => [Thread!TNext]_(Thread!tvars)]_vars
  BY StepPatiently, OneRunMoves
<1> QED BY <1>1, ClientsAreServed, SessionInvariance, PatientInvariance, PTL
        DEF ClientSpec, PatientThread

\* A run of a patient client that is over in this sense stays so and is never changed
\* again: no cancel, no resume and no other request's _fail_run comes too late (engine.py).
THEOREM PatientRunsStay == ClientSpec => PatientTerminalStays
<1>1. ASSUME OneAtATime, NEW q \in Requests, IsOver(q) PROVE IsOver(q)' /\ db'[q] = db[q]
  <2>1. db[q] # NoRun
    BY <1>1, NoRunIs DEF IsOver, Terminal
  <2> QED BY <1>1, <2>1 DEF OneAtATime, Untouched, Begins, Moves, Others
<1>2. /\ IInv /\ (habit.patient => Patience) /\ [ClientNext]_<<vars, habit>>
      => [habit.patient =>
            \A q \in Requests : IsOver(q) => IsOver(q)' /\ db'[q] = db[q]]_vars
  BY <1>1, StepPatiently
<1> QED BY <1>2, ClientsAreServed, SessionInvariance, PatientInvariance, PTL
        DEF ClientSpec, PatientTerminalStays
=============================================================================
