-------------------------- MODULE AgentThreadProofs --------------------------
(***************************************************************************)
(* What a worker's thread may do, and that it hears its answers, for any   *)
(* skills, tools, files of skills and number of executions.                *)
(***************************************************************************)
EXTENDS AgentThread, TLAPS

ThreadType == [task : 0..MaxTries, skills : SUBSET Skills,
               route : {"absent", "matched", "no_match", "failed"},
               calls : SUBSET Tools, approval : BOOLEAN,
               asks : SUBSET AsksItself, heard : SUBSET AsksItself]

Ruling == [decision : {"none", "matched", "no_match", "ambiguous", "raises"},
           names : SUBSET Skills, sound : BOOLEAN]

HistoryOK ==
  /\ ruled \in [0..MaxTries -> Ruling]
  /\ step.thread <= step.tries
  /\ \A n \in 1..MaxTries : n > step.tries => cp[n] = NoThread

\* The route of a thread is what the router has said of its task.
RouteTrue(t) ==
  /\ t.route # "absent"
  /\ t.route # "failed" => t.task \in 1..step.tries /\ ruled[t.task].sound
  /\ t.route = "matched" => t.skills = ruled[t.task].names

\* A thread that waits: for an approval, or at the interrupts of all calls it has left.
Stopped(t) ==
  /\ RouteTrue(t)
  /\ \/ t.approval /\ t.asks = {}
     \/ ~t.approval /\ t.asks # {} /\ t.calls \subseteq t.asks

\* The answer to a stopped thread grants what the user has approved.
Answered(t) ==
  /\ Stopped(t) /\ Continues
  /\ t.approval =>
       (IF step.answer.says = "approve" THEN t.calls \cap ApprovalOn ELSE step.answer.for)
         \cap t.calls \cap ApprovalOn \subseteq approved

\* The step between two executions.
StepOK ==
  /\ pc # "rest" => step.status = "running" /\ step.thread # 0
  /\ step.status = "waiting" /\ step.kind = "agent_interrupt" =>
       step.thread # 0 /\ Stopped(Thread)
  /\ step.status = "pending" =>
       IF step.thread # 0 THEN Answered(Thread)
       ELSE Continues => step.kind # "agent_interrupt"

\* The thread within one.
Quiet(t) == t.calls = {} /\ t.asks = {} /\ ~t.approval

WorkOK ==
  /\ pc = "start" =>
       \/ Thread = NoThread /\ (Continues => step.kind # "agent_interrupt")
       \/ Answered(Thread)
  /\ pc = "route" => Quiet(Thread) /\ Thread.task \in {0, step.tries}
  /\ pc = "model" => Quiet(Thread) /\ RouteTrue(Thread)
  /\ pc = "tools" =>
       /\ ~Thread.approval /\ Thread.asks \subseteq Thread.calls /\ RouteTrue(Thread)
       /\ Thread.calls \cap ApprovalOn \subseteq approved
  /\ pc \in {"route", "model", "tools"} /\ ~Continues => Thread.task = step.tries

\* The last call that was performed.
ActOK ==
  act # NoAct =>
    /\ act.task \in 1..step.tries
    /\ pc \in {"start", "route"} => act.task # step.tries
    /\ ruled[act.task].sound /\ act.granted
    /\ act.governed => act.openers \cap ruled[act.task].names # {}

AInv == TypeOK /\ HistoryOK /\ StepOK /\ WorkOK /\ ActOK

StepType == [status : {"pending", "running", "waiting", "over"}, tries : 0..MaxTries,
             thread : 0..MaxTries, answer : Payloads, words : BOOLEAN,
             kind : {"none", "agent_interrupt", "question"}]

CatalogOK == catalog = NotLoaded \/ \A s \in Skills : catalog[s] \in Contents /\ Valid(catalog[s])

LEMMA Typed ==
  TypeOK <=> /\ CatalogOK /\ step \in StepType /\ cp \in [1..MaxTries -> ThreadType]
             /\ pc \in {"rest", "start", "route", "model", "tools"} /\ approved \subseteq Tools
BY DEF TypeOK, CatalogOK, StepType, ThreadType

-----------------------------------------------------------------------------
(* Fields of what is updated *)

LEMMA NoThreadTyped == NoThread \in ThreadType
<1>1. 0 \in 0..MaxTries
  BY ThreadAssumption
<1> QED BY <1>1 DEF NoThread, ThreadType

Ended(s) == [s EXCEPT !.status = "over"]
Waiting(s, kind) == [s EXCEPT !.status = "waiting", !.kind = kind]
Awaiting(s) ==
  [s EXCEPT !.status = "pending", !.thread = 0, !.answer = NoAnswer, !.words = FALSE]

LEMMA EndedStep ==
  ASSUME NEW s \in StepType
  PROVE  /\ Ended(s) \in StepType /\ Ended(s).status = "over"
         /\ Ended(s).thread = s.thread /\ Ended(s).tries = s.tries
BY DEF StepType, Ended

LEMMA WaitingStep ==
  ASSUME NEW s \in StepType, NEW kind \in {"agent_interrupt", "question"}
  PROVE  /\ Waiting(s, kind) \in StepType /\ Waiting(s, kind).status = "waiting"
         /\ Waiting(s, kind).kind = kind /\ Waiting(s, kind).thread = s.thread
         /\ Waiting(s, kind).tries = s.tries
BY DEF StepType, Waiting

LEMMA AwaitingStep ==
  ASSUME NEW s \in StepType
  PROVE  /\ Awaiting(s) \in StepType /\ Awaiting(s).status = "pending"
         /\ Awaiting(s).thread = 0 /\ Awaiting(s).tries = s.tries /\ Awaiting(s).answer = NoAnswer
<1>1. 0 \in 0..MaxTries /\ NoAnswer \in Payloads
  BY ThreadAssumption DEF Payloads
<1> QED BY <1>1 DEF StepType, Awaiting

\* Threads of the same task and route as r.
Like(t, r) == t \in ThreadType /\ t.task = r.task /\ t.route = r.route /\ t.skills = r.skills

WithDecision(r, c)    == [r EXCEPT !.calls = c, !.approval = FALSE]
WithHeard(r, h)       == [r EXCEPT !.asks = {}, !.heard = h]
WithCalls(r, c, a)    == [r EXCEPT !.calls = c, !.approval = a, !.heard = {}]
WithoutCall(r, x)     == [r EXCEPT !.calls = @ \ {x}]
WithAsk(r, x)         == [r EXCEPT !.asks = @ \cup {x}]
WithRoute(r, st, k)   == [r EXCEPT !.route = st, !.skills = k]
WithTask(r, n, st, k) == [r EXCEPT !.task = n, !.route = st, !.skills = k]

LEMMA DecidedThread ==
  ASSUME NEW r \in ThreadType, NEW c \in SUBSET Tools
  PROVE  LET t == WithDecision(r, c) IN
         Like(t, r) /\ t.calls = c /\ ~t.approval /\ t.asks = r.asks
BY DEF ThreadType, Like, WithDecision

LEMMA ReenteredThread ==
  ASSUME NEW r \in ThreadType, NEW h \in SUBSET AsksItself
  PROVE  LET t == WithHeard(r, h) IN
         Like(t, r) /\ t.calls = r.calls /\ t.approval = r.approval /\ t.asks = {}
BY DEF ThreadType, Like, WithHeard

LEMMA CalledThread ==
  ASSUME NEW r \in ThreadType, NEW c \in SUBSET Tools, NEW a \in BOOLEAN
  PROVE  LET t == WithCalls(r, c, a) IN
         Like(t, r) /\ t.calls = c /\ t.approval = a /\ t.asks = r.asks
BY DEF ThreadType, Like, WithCalls

LEMMA SettledThread ==
  ASSUME NEW r \in ThreadType, NEW x
  PROVE  LET t == WithoutCall(r, x) IN
         Like(t, r) /\ t.calls = r.calls \ {x} /\ t.approval = r.approval /\ t.asks = r.asks
BY DEF ThreadType, Like, WithoutCall

LEMMA AskingThread ==
  ASSUME NEW r \in ThreadType, NEW x \in AsksItself
  PROVE  LET t == WithAsk(r, x) IN
         Like(t, r) /\ t.calls = r.calls /\ t.approval = r.approval /\ t.asks = r.asks \cup {x}
BY DEF ThreadType, Like, WithAsk

LEMMA RoutedThread ==
  ASSUME NEW r \in ThreadType, NEW st \in {"matched", "no_match", "failed"}, NEW k \in SUBSET Skills
  PROVE  LET t == WithRoute(r, st, k) IN
         /\ t \in ThreadType /\ t.task = r.task /\ t.route = st /\ t.skills = k
         /\ t.calls = r.calls /\ t.approval = r.approval /\ t.asks = r.asks
BY DEF ThreadType, WithRoute

LEMMA TaskThread ==
  ASSUME NEW r \in ThreadType, NEW n \in 0..MaxTries,
         NEW st \in {"absent", "matched", "no_match", "failed"}, NEW k \in SUBSET Skills
  PROVE  LET t == WithTask(r, n, st, k) IN
         /\ t \in ThreadType /\ t.task = n
         /\ t.calls = r.calls /\ t.approval = r.approval /\ t.asks = r.asks
BY DEF ThreadType, WithTask

-----------------------------------------------------------------------------
(* What the steps of an execution have in common *)

\* The thread at work.
LEMMA AtWork ==
  ASSUME AInv, pc # "rest"
  PROVE  /\ step \in StepType /\ step.status = "running"
         /\ step.thread \in 1..MaxTries /\ step.tries \in 1..MaxTries /\ step.thread <= step.tries
         /\ Thread \in ThreadType
<1>1. step \in StepType /\ step.status = "running" /\ step.thread # 0
      /\ cp \in [1..MaxTries -> ThreadType] /\ step.thread <= step.tries
  BY Typed DEF AInv, StepOK, HistoryOK
<1>2. step.thread \in 0..MaxTries /\ step.tries \in 0..MaxTries
  BY <1>1 DEF StepType
<1>3. step.thread \in 1..MaxTries /\ step.tries \in 1..MaxTries
  BY <1>1, <1>2, ThreadAssumption
<1> QED BY <1>1, <1>3 DEF Thread

\* A step that changes the thread at work leaves the others.
LEMMA OnlyThis ==
  ASSUME AInv, pc # "rest", NEW t \in ThreadType, On(t),
         step' \in StepType, step'.thread = step.thread, step'.tries = step.tries
  PROVE  /\ cp' \in [1..MaxTries -> ThreadType] /\ Thread' = t
         /\ \A n \in 1..MaxTries : n > step'.tries => cp'[n] = NoThread
<1>1. cp \in [1..MaxTries -> ThreadType] /\ cp' = [cp EXCEPT ![step.thread] = t]
  BY Typed DEF AInv, On
<1>2. step.thread \in 1..MaxTries /\ step.thread <= step.tries /\ step.tries \in 1..MaxTries
  BY AtWork
<1>3. Thread' = t
  BY <1>1, <1>2 DEF Thread
<1>4. ASSUME NEW n \in 1..MaxTries, n > step'.tries PROVE cp'[n] = NoThread
  <2>1. n # step.thread
    BY <1>2, <1>4, ThreadAssumption
  <2> QED BY <1>1, <1>4, <2>1 DEF AInv, HistoryOK
<1> QED BY <1>1, <1>2, <1>3, <1>4

\* An execution that ends for good.
LEMMA EndsKeeps ==
  ASSUME AInv, pc # "rest", step' = [step EXCEPT !.status = "over"], pc' = "rest",
         CatalogOK', UNCHANGED <<cp, ruled, approved, act>>
  PROVE  AInv'
<1>1. step' \in StepType /\ step'.status = "over" /\ step'.thread = step.thread
      /\ step'.tries = step.tries
  <2>1. step' = Ended(step)
    BY DEF Ended
  <2> QED BY <2>1, AtWork, EndedStep
<1>2. TypeOK' /\ HistoryOK'
  BY <1>1, Typed DEF AInv, HistoryOK, TypeOK, CatalogOK, StepType, ThreadType
<1>3. StepOK' /\ WorkOK'
  BY <1>1 DEF StepOK, WorkOK
<1>4. ActOK'
  BY <1>1 DEF AInv, ActOK
<1> QED BY <1>2, <1>3, <1>4 DEF AInv

LEMMA TypeParts ==
  ASSUME CatalogOK', step' \in StepType, cp' \in [1..MaxTries -> ThreadType],
         pc' \in {"rest", "start", "route", "model", "tools"}, approved' \subseteq Tools
  PROVE  TypeOK'
BY DEF TypeOK, CatalogOK, StepType, ThreadType

LEMMA CatalogKept == ASSUME AInv, catalog' = catalog PROVE CatalogOK'
BY Typed DEF AInv, CatalogOK

\* A step that changes nothing but the thread at work and the place in it.
LEMMA ThreadStepKeeps ==
  ASSUME AInv, pc # "rest", NEW t \in ThreadType, On(t),
         pc' \in {"route", "model", "tools"}, WorkOK', ActOK',
         UNCHANGED <<catalog, step, ruled, approved>>
  PROVE  AInv'
<1>1. /\ step \in StepType /\ step' \in StepType /\ step'.thread = step.thread
      /\ step'.tries = step.tries /\ step.status = "running" /\ step.thread # 0
  BY AtWork DEF AInv, StepOK
<1>2. HistoryOK' /\ cp' \in [1..MaxTries -> ThreadType]
  BY <1>1, OnlyThis DEF AInv, HistoryOK
<1>3. CatalogOK' /\ approved' \subseteq Tools
  BY CatalogKept, Typed DEF AInv
<1>4. TypeOK'
  BY <1>1, <1>2, <1>3, TypeParts
<1>5. StepOK'
  BY <1>1 DEF StepOK
<1> QED BY <1>2, <1>4, <1>5 DEF AInv

\* An execution that waits for an answer to its thread.
LEMMA StopsKeeps ==
  ASSUME AInv, pc \in {"model", "tools"}, NEW t \in ThreadType, On(t), Waits("agent_interrupt"),
         Stopped(t), approved' \subseteq Tools, ActOK', UNCHANGED <<catalog, ruled>>
  PROVE  AInv'
<1>1. /\ step' \in StepType /\ step'.status = "waiting" /\ step'.thread = step.thread
      /\ step'.tries = step.tries /\ step.thread # 0 /\ pc' = "rest"
  <2>1. step' = Waiting(step, "agent_interrupt") /\ pc' = "rest"
    BY DEF Waits, Waiting
  <2> QED BY <2>1, AtWork, WaitingStep
<1>2. HistoryOK' /\ cp' \in [1..MaxTries -> ThreadType] /\ Thread' = t
  BY <1>1, OnlyThis DEF AInv, HistoryOK
<1>3. TypeOK'
  BY <1>1, <1>2, CatalogKept, TypeParts
<1>4. StepOK' /\ WorkOK'
  BY <1>1, <1>2 DEF StepOK, WorkOK, Stopped, RouteTrue
<1> QED BY <1>2, <1>3, <1>4 DEF AInv

\* An execution that asks the user itself, or waits for prerequisites.
LEMMA AsksKeeps ==
  ASSUME AInv, pc = "model", Waits("question") \/ AwaitsTodos,
         UNCHANGED <<catalog, cp, ruled, approved, act>>
  PROVE  AInv'
<1>1. /\ step' \in StepType /\ step'.tries = step.tries /\ step'.thread <= step'.tries
      /\ pc' = "rest"
      /\ \/ step'.status = "waiting" /\ step'.kind = "question"
         \/ step'.status = "pending" /\ step'.thread = 0 /\ step'.answer = NoAnswer
  <2>1. (step' = Waiting(step, "question") \/ step' = Awaiting(step)) /\ pc' = "rest"
    BY DEF Waits, Waiting, AwaitsTodos, Awaiting
  <2>2. 0 <= step.tries
    BY AtWork, ThreadAssumption
  <2> QED BY <2>1, <2>2, AtWork, WaitingStep, AwaitingStep
<1>2. HistoryOK' /\ cp' \in [1..MaxTries -> ThreadType] /\ approved' \subseteq Tools
  BY <1>1, Typed DEF AInv, HistoryOK
<1>3. TypeOK'
  BY <1>1, <1>2, CatalogKept, TypeParts
<1>4. StepOK' /\ WorkOK'
  BY <1>1 DEF StepOK, WorkOK, Continues
<1>5. ActOK'
  BY <1>1 DEF AInv, ActOK
<1> QED BY <1>2, <1>3, <1>4, <1>5 DEF AInv

-----------------------------------------------------------------------------
(* Every step keeps the invariant *)

LEMMA ThreadInit == Init => AInv
<1> SUFFICES ASSUME Init PROVE AInv
  OBVIOUS
<1>1. 0 \in 0..MaxTries /\ NoAnswer \in Payloads /\ step = [status |-> "pending", tries |-> 0,
        thread |-> 0, answer |-> NoAnswer, words |-> FALSE, kind |-> "none"]
  BY ThreadAssumption DEF Init, Payloads
<1>2. step \in StepType /\ step.status = "pending" /\ step.thread = 0 /\ step.tries = 0
      /\ step.kind = "none"
  BY <1>1 DEF StepType
<1>3. TypeOK
  BY <1>2, NoThreadTyped, Typed DEF Init, CatalogOK
<1>4. HistoryOK
  <2>1. ruled = [n \in 0..MaxTries |-> NoRuling]
    BY DEF Init
  <2>0. NoRuling \in Ruling
    BY DEF NoRuling, Ruling
  <2>2. ruled \in [0..MaxTries -> Ruling]
    BY <2>0, <2>1
  <2>3. \A n \in 1..MaxTries : cp[n] = NoThread
    BY DEF Init
  <2> QED BY <1>2, <2>2, <2>3 DEF HistoryOK
<1>5. StepOK /\ WorkOK /\ ActOK
  BY <1>2 DEF Init, StepOK, WorkOK, ActOK
<1> QED BY <1>3, <1>4, <1>5 DEF AInv

LEMMA BeginKeeps == AInv /\ Begin => AInv'
<1> SUFFICES ASSUME AInv, Begin PROVE AInv'
  OBVIOUS
<1>1. /\ pc = "rest" /\ step.status = "pending" /\ step.tries < MaxTries /\ pc' = "start"
      /\ step' = [step EXCEPT !.status = "running", !.tries = @ + 1,
                              !.thread = IF @ # 0 THEN @ ELSE step.tries + 1]
      /\ UNCHANGED <<catalog, cp, ruled, approved, act>>
  BY DEF Begin
<1>2. /\ step \in StepType /\ cp \in [1..MaxTries -> ThreadType] /\ approved \subseteq Tools
      /\ step.thread <= step.tries
  BY Typed DEF AInv, HistoryOK
<1>3. step.tries \in 0..MaxTries /\ step.thread \in 0..MaxTries
  BY <1>2 DEF StepType
<1>4. step.tries + 1 \in 1..MaxTries /\ step.tries + 1 \in 0..MaxTries
  BY <1>1, <1>3, ThreadAssumption
<1>5. /\ step' \in StepType /\ step'.status = "running" /\ step'.tries = step.tries + 1
      /\ step'.thread = (IF step.thread # 0 THEN step.thread ELSE step.tries + 1)
      /\ step'.answer = step.answer /\ step'.words = step.words /\ step'.kind = step.kind
  BY <1>1, <1>2, <1>3, <1>4 DEF StepType
<1>6. step'.thread # 0 /\ step'.thread <= step'.tries /\ \A n \in 1..step.tries : n \in 1..step'.tries
  BY <1>2, <1>3, <1>4, <1>5, ThreadAssumption
<1>7. HistoryOK'
  <2>1. \A n \in 1..MaxTries : n > step'.tries => n > step.tries
    BY <1>3, <1>5, ThreadAssumption
  <2> QED BY <1>1, <1>6, <2>1 DEF AInv, HistoryOK
<1>8. TypeOK'
  BY <1>1, <1>2, <1>5, CatalogKept, TypeParts
<1>9. StepOK'
  BY <1>1, <1>5, <1>6 DEF StepOK
<1>10. WorkOK'
  <2>1. CASE step.thread # 0
    <3>1. Answered(Thread) /\ Thread' = Thread
      BY <1>1, <1>5, <2>1 DEF AInv, StepOK, Thread
    <3> QED BY <1>1, <1>5, <1>6, <3>1
         DEF WorkOK, Answered, Stopped, RouteTrue, Continues
  <2>2. CASE step.thread = 0
    <3>1. Continues => step.kind # "agent_interrupt"
      BY <1>1, <2>2 DEF AInv, StepOK
    <3>2. step.tries + 1 > step.tries
      BY <1>3
    <3>3. Thread' = NoThread
      BY <1>1, <1>4, <1>5, <2>2, <3>2 DEF AInv, HistoryOK, Thread
    <3> QED BY <1>1, <1>5, <3>1, <3>3 DEF WorkOK, Continues
  <2> QED BY <2>1, <2>2
<1>11. ActOK'
  <2>1. \A n \in 1..step.tries : n # step'.tries
    BY <1>3, <1>5
  <2> QED BY <1>1, <1>6, <2>1 DEF AInv, ActOK
<1> QED BY <1>7, <1>8, <1>9, <1>10, <1>11 DEF AInv

LEMMA BuildKeeps == AInv /\ Build => AInv'
<1> SUFFICES ASSUME AInv, Build PROVE AInv'
  OBVIOUS
<1>1. PICK files \in [Skills -> Contents] :
        IF \A s \in Skills : Valid(files[s])
        THEN catalog' = files /\ UNCHANGED <<step, pc>>
        ELSE Over /\ UNCHANGED catalog
  BY DEF Build
<1>2. pc = "start" /\ UNCHANGED <<cp, ruled, approved, act>>
  BY DEF Build
<1>3. CASE \A s \in Skills : Valid(files[s])
  <2>1. CatalogOK' /\ UNCHANGED <<step, pc>>
    BY <1>1, <1>3 DEF CatalogOK, Valid
  <2>2. TypeOK'
    BY <1>2, <2>1, TypeParts, Typed DEF AInv
  <2>3. HistoryOK' /\ StepOK' /\ WorkOK' /\ ActOK'
    BY <1>2, <2>1 DEF AInv, HistoryOK, StepOK, WorkOK, ActOK, Answered, Stopped, RouteTrue,
       Continues, Thread, Quiet
  <2> QED BY <2>2, <2>3 DEF AInv
<1>4. CASE ~\A s \in Skills : Valid(files[s])
  BY <1>1, <1>2, <1>4, CatalogKept, EndsKeeps DEF Over
<1> QED BY <1>3, <1>4

LEMMA StartsTaskKeeps == AInv /\ StartsTask => AInv'
<1> SUFFICES ASSUME AInv, StartsTask PROVE AInv'
  OBVIOUS
<1> DEFINE t == WithTask(NoThread, step.tries, Thread.route, Thread.skills)
<1>1. /\ pc = "start" /\ ~Continues /\ On(t) /\ pc' = "route"
      /\ UNCHANGED <<catalog, step, ruled, approved, act>>
  BY DEF StartsTask, WithTask
<1>2. /\ Thread.route \in {"absent", "matched", "no_match", "failed"}
      /\ Thread.skills \in SUBSET Skills /\ step.tries \in 0..MaxTries /\ step \in StepType
  BY <1>1, AtWork DEF ThreadType, StepType
<1>3. t \in ThreadType /\ t.calls = {} /\ ~t.approval /\ t.asks = {} /\ t.task = step.tries
  <2>1. NoThread.calls = {} /\ ~NoThread.approval /\ NoThread.asks = {}
    BY DEF NoThread
  <2> QED BY <1>2, <2>1, NoThreadTyped, TaskThread
<1> HIDE DEF t
<1>4. Thread' = t
  BY <1>1, <1>2, <1>3, OnlyThis
<1>5. WorkOK' /\ ActOK'
  BY <1>1, <1>3, <1>4 DEF AInv, WorkOK, ActOK, Quiet
<1> QED BY <1>1, <1>3, <1>5, ThreadStepKeeps

LEMMA DecidesKeeps == AInv /\ Decides => AInv'
<1> SUFFICES ASSUME AInv, Decides PROVE AInv'
  OBVIOUS
<1>1. /\ pc = "start" /\ Continues /\ Thread.approval
      /\ UNCHANGED <<catalog, ruled, approved, act>>
  BY DEF Decides
<1>2. CASE step.answer.says \notin {"approve", "reject", "list"}
  <2>1. Over /\ UNCHANGED cp
    BY <1>2 DEF Decides
  <2> QED BY <1>1, <2>1, CatalogKept, EndsKeeps DEF Over
<1>3. CASE step.answer.says \in {"approve", "reject", "list"}
  <2> DEFINE left == (Thread.calls \ ApprovalOn) \cup (Granted(step.answer) \cap Thread.calls)
             t == WithDecision(Thread, left)
  <2>1. On(t) /\ pc' = (IF left = {} THEN "model" ELSE "tools") /\ UNCHANGED step
    BY <1>3 DEF Decides, WithDecision
  <2>2. Thread \in ThreadType /\ step \in StepType
    BY <1>1, AtWork
  <2>3. left \in SUBSET Tools
    BY <2>2 DEF ThreadType
  <2>4. Like(t, Thread) /\ t.calls = left /\ ~t.approval /\ t.asks = Thread.asks
    BY <2>2, <2>3, DecidedThread
  <2>5. Answered(Thread)
    BY <1>1 DEF AInv, WorkOK, NoThread
  <2>6. left \cap ApprovalOn \subseteq approved
    BY <1>1, <2>5 DEF Answered, Granted
  <2>7. RouteTrue(Thread) /\ Thread.asks = {}
    BY <1>1, <2>5 DEF Answered, Stopped
  <2> HIDE DEF left, t
  <2>8. Thread' = t
    BY <1>1, <2>1, <2>2, <2>4, OnlyThis DEF Like
  <2>9. WorkOK'
    <3>1. RouteTrue(t)
      BY <2>4, <2>7 DEF Like, RouteTrue
    <3>2. RouteTrue(Thread)'
      BY <1>1, <2>1, <2>8, <3>1 DEF RouteTrue
    <3> QED BY <1>1, <2>1, <2>4, <2>6, <2>7, <2>8, <3>2 DEF WorkOK, Quiet, Continues
  <2>10. ActOK'
    BY <1>1, <2>1 DEF AInv, ActOK
  <2> QED BY <1>1, <2>1, <2>4, <2>9, <2>10, ThreadStepKeeps DEF Like
<1> QED BY <1>2, <1>3

LEMMA ReentersKeeps == AInv /\ Reenters => AInv'
<1> SUFFICES ASSUME AInv, Reenters PROVE AInv'
  OBVIOUS
<1> DEFINE h == IF step.answer.says \in {"yes", "no"} THEN Thread.asks ELSE {}
           t == WithHeard(Thread, h)
<1>1. /\ pc = "start" /\ Continues /\ Thread.asks # {} /\ On(t) /\ pc' = "tools"
      /\ UNCHANGED <<catalog, step, ruled, approved, act>>
  BY DEF Reenters, WithHeard
<1>2. Thread \in ThreadType /\ step \in StepType
  BY <1>1, AtWork
<1>3. h \in SUBSET AsksItself /\ Thread.asks \subseteq AsksItself
  BY <1>2 DEF ThreadType
<1>4. /\ Like(t, Thread) /\ t.calls = Thread.calls /\ t.approval = Thread.approval
      /\ t.asks = {}
  BY <1>2, <1>3, ReenteredThread
<1>5. Answered(Thread)
  BY <1>1 DEF AInv, WorkOK, NoThread
<1>6. RouteTrue(Thread) /\ ~Thread.approval /\ Thread.calls \subseteq Thread.asks
  BY <1>1, <1>5 DEF Answered, Stopped
<1>7. Thread.calls \cap ApprovalOn = {}
  BY <1>3, <1>6, ThreadAssumption
<1> HIDE DEF h, t
<1>8. Thread' = t
  BY <1>1, <1>2, <1>4, OnlyThis DEF Like
<1>9. WorkOK'
  <2>1. RouteTrue(t)
    BY <1>4, <1>6 DEF Like, RouteTrue
  <2>2. RouteTrue(Thread)'
    BY <1>1, <1>8, <2>1 DEF RouteTrue
  <2> QED BY <1>1, <1>4, <1>6, <1>7, <1>8, <2>2 DEF WorkOK, Continues
<1>10. ActOK'
  BY <1>1 DEF AInv, ActOK
<1> QED BY <1>1, <1>4, <1>9, <1>10, ThreadStepKeeps DEF Like

LEMMA ContinuesNothingKeeps == AInv /\ ContinuesNothing => AInv'
<1> SUFFICES ASSUME AInv, ContinuesNothing PROVE AInv'
  OBVIOUS
<1>1. /\ pc = "start" /\ Continues /\ ~Thread.approval /\ Thread.asks = {}
      /\ UNCHANGED <<catalog, cp, ruled, approved, act>>
      /\ Over \/ (pc' = "route" /\ UNCHANGED step)
  BY DEF ContinuesNothing
<1>2. CASE Over
  BY <1>1, <1>2, CatalogKept, EndsKeeps DEF Over
<1>3. CASE pc' = "route" /\ UNCHANGED step
  <2>1. Thread = NoThread
    BY <1>1 DEF AInv, WorkOK, Answered, Stopped
  <2>2. Thread' = Thread
    BY <1>1, <1>3 DEF Thread
  <2>3. WorkOK'
    BY <1>1, <1>3, <2>1, <2>2 DEF WorkOK, Quiet, NoThread, Continues
  <2>4. StepOK' /\ HistoryOK' /\ ActOK'
    BY <1>1, <1>3 DEF AInv, StepOK, HistoryOK, ActOK
  <2>5. TypeOK'
    BY <1>1, <1>3 DEF AInv, TypeOK, Valid
  <2> QED BY <2>3, <2>4, <2>5 DEF AInv
<1> QED BY <1>1, <1>2, <1>3

LEMMA RouteTaskKeeps == AInv /\ RouteTask => AInv'
<1> SUFFICES ASSUME AInv, RouteTask PROVE AInv'
  OBVIOUS
<1>1. /\ pc = "route" /\ pc' = "model" /\ UNCHANGED <<catalog, step, approved, act>>
  BY DEF RouteTask
<1>2. PICK d \in Decisions :
        /\ On(Routed(d))
        /\ ruled' = [ruled EXCEPT ![Thread.task] =
             [decision |-> d.decision, names |-> d.names,
              sound |-> Thread.task # 0 /\ ~d.twice /\ CanSelect(d.names)
                          /\ d.decision \in {"matched", "no_match"}]]
  BY DEF RouteTask
<1> DEFINE sound == Thread.task # 0 /\ ~d.twice /\ CanSelect(d.names)
                      /\ d.decision \in {"matched", "no_match"}
           ruling == [decision |-> d.decision, names |-> d.names, sound |-> sound]
<1>3. /\ step \in StepType /\ step.tries \in 1..MaxTries /\ Thread \in ThreadType
      /\ Quiet(Thread) /\ Thread.task \in {0, step.tries}
  BY <1>1, AtWork DEF AInv, WorkOK
<1>4. /\ d.names \in SUBSET Skills
      /\ d.decision \in {"matched", "no_match", "ambiguous", "raises"}
      /\ (d.decision \in {"no_match"} => d.names = {} /\ ~d.twice)
  BY DEF Decisions
<1>5. PICK st \in {"matched", "no_match", "failed"}, k \in SUBSET Skills :
        /\ Routed(d) = WithRoute(Thread, st, k)
        /\ st # "failed" => sound
        /\ st = "matched" => k = d.names
  <2>1. CASE Thread.task = 0
    <3>1. Routed(d) = WithRoute(Thread, "failed", {})
      BY <2>1 DEF Routed, Route, WithRoute
    <3> QED BY <3>1
  <2>2. CASE Thread.task # 0 /\ d.decision = "matched" /\ ~d.twice /\ CanSelect(d.names)
    BY <1>4, <2>2 DEF Routed, Route, WithRoute
  <2>3. CASE Thread.task # 0 /\ d.decision = "no_match"
    <3>1. CanSelect(d.names) /\ ~d.twice
      BY <1>4, <2>3 DEF CanSelect
    <3>2. Routed(d) = WithRoute(Thread, "no_match", {})
      BY <2>3 DEF Routed, Route, WithRoute
    <3> QED BY <2>3, <3>1, <3>2
  <2>4. CASE /\ Thread.task # 0 /\ d.decision # "no_match"
             /\ ~(d.decision = "matched" /\ ~d.twice /\ CanSelect(d.names))
    <3>1. Routed(d) = WithRoute(Thread, "failed", {})
      BY <2>4 DEF Routed, Route, WithRoute
    <3> QED BY <3>1
  <2> QED BY <2>1, <2>2, <2>3, <2>4
<1> DEFINE t == WithRoute(Thread, st, k)
<1>6. /\ t \in ThreadType /\ t.task = Thread.task /\ t.route = st /\ t.skills = k
      /\ t.calls = Thread.calls /\ t.approval = Thread.approval /\ t.asks = Thread.asks
  BY <1>3, RoutedThread
<1>7. /\ ruling \in Ruling
      /\ ruling.sound = sound /\ ruling.names = d.names
  BY <1>4 DEF Ruling
<1>8. On(t) /\ ruled' = [ruled EXCEPT ![Thread.task] = ruling]
  BY <1>2, <1>5
<1>9. Thread.task # 0 => Thread.task \in 1..step.tries
  BY <1>3, ThreadAssumption
<1>10. Thread.task \in 0..MaxTries
  BY <1>3 DEF ThreadType
<1>11. sound => Thread.task # 0
  OBVIOUS
<1> HIDE DEF t, ruling, sound
<1>12. /\ cp' \in [1..MaxTries -> ThreadType] /\ Thread' = t
       /\ \A n \in 1..MaxTries : n > step'.tries => cp'[n] = NoThread
  BY <1>1, <1>3, <1>6, <1>8, OnlyThis
<1>13. /\ ruled \in [0..MaxTries -> Ruling]
       /\ ruled'[Thread.task] = ruling
       /\ \A n \in 0..MaxTries : n # Thread.task => ruled'[n] = ruled[n]
       /\ ruled' \in [0..MaxTries -> Ruling]
  BY <1>7, <1>8, <1>10 DEF AInv, HistoryOK
<1>14. HistoryOK'
  BY <1>1, <1>12, <1>13 DEF AInv, HistoryOK
<1>15. TypeOK'
  BY <1>1, <1>3, <1>12, CatalogKept, TypeParts, Typed DEF AInv
<1>16. StepOK'
  BY <1>1, <1>3, AtWork DEF StepOK
<1>17. WorkOK'
  <2>1. RouteTrue(Thread)'
    BY <1>1, <1>5, <1>6, <1>7, <1>9, <1>11, <1>12, <1>13 DEF RouteTrue
  <2>2. Thread'.task = Thread.task /\ Quiet(Thread')
    BY <1>3, <1>6, <1>12 DEF Quiet
  <2> QED BY <1>1, <2>1, <2>2 DEF AInv, WorkOK, Quiet, Continues
<1>18. ActOK'
  <2>1. act # NoAct => act.task \in 1..step.tries /\ act.task # step.tries
    BY <1>1 DEF AInv, ActOK
  <2>2. \A n \in 1..step.tries : n \in 0..MaxTries /\ n # 0
    BY <1>3, ThreadAssumption
  <2>3. act # NoAct => ruled'[act.task] = ruled[act.task]
    BY <1>3, <1>13, <2>1, <2>2
  <2> QED BY <1>1, <2>1, <2>3 DEF AInv, ActOK
<1> QED BY <1>14, <1>15, <1>16, <1>17, <1>18 DEF AInv

\* An execution that ends, whatever ended it.
LEMMA OverKeeps ==
  AInv /\ (ModelRefused \/ Raises \/ ToolRaises) => AInv'
<1> SUFFICES ASSUME AInv, ModelRefused \/ Raises \/ ToolRaises PROVE AInv'
  OBVIOUS
<1>1. pc # "rest" /\ Over /\ UNCHANGED <<catalog, cp, ruled, approved, act>>
  BY DEF ModelRefused, Raises, ToolRaises
<1>2. step' = [step EXCEPT !.status = "over"] /\ pc' = "rest"
  BY <1>1 DEF Over
<1> QED BY <1>1, <1>2, CatalogKept, EndsKeeps

\* An answer of the model, its own or made up.
LEMMA ModelDone == AInv /\ (ModelAnswers \/ ModelUnavailable) => AInv'
<1> SUFFICES ASSUME AInv, ModelAnswers \/ ModelUnavailable PROVE AInv'
  OBVIOUS
<1>1. /\ pc = "model" /\ UNCHANGED <<catalog, cp, ruled, approved, act>>
      /\ Over \/ Waits("question") \/ AwaitsTodos
  BY DEF ModelAnswers, ModelUnavailable
<1>2. CASE Over
  <2>1. step' = [step EXCEPT !.status = "over"] /\ pc' = "rest"
    BY <1>2 DEF Over
  <2> QED BY <1>1, <2>1, CatalogKept, EndsKeeps
<1>3. CASE Waits("question") \/ AwaitsTodos
  BY <1>1, <1>3, AsksKeeps
<1> QED BY <1>1, <1>2, <1>3

LEMMA ModelCallsKeeps == AInv /\ ModelCalls => AInv'
<1> SUFFICES ASSUME AInv, ModelCalls PROVE AInv'
  OBVIOUS
<1>1. PICK calls \in SUBSET Tools \ {{}} :
        LET stops == calls \cap ApprovalOn # {} IN
          /\ On([Thread EXCEPT !.calls = calls, !.approval = stops, !.heard = {}])
          /\ IF stops THEN Waits("agent_interrupt") ELSE pc' = "tools" /\ UNCHANGED step
  BY DEF ModelCalls
<1> DEFINE stops == calls \cap ApprovalOn # {}
           t == WithCalls(Thread, calls, stops)
<1>2. /\ pc = "model" /\ approved' = {} /\ UNCHANGED <<catalog, ruled, act>>
      /\ Thread \in ThreadType /\ step \in StepType /\ step.status = "running" /\ step.thread # 0
  BY AtWork, ThreadAssumption DEF ModelCalls, AInv, StepOK
<1>3. /\ Like(t, Thread) /\ t.calls = calls /\ t.approval = stops /\ t.asks = Thread.asks
  BY <1>2, CalledThread
<1>4. Quiet(Thread) /\ RouteTrue(Thread)
  BY <1>2 DEF AInv, WorkOK
<1>5. On(t)
  BY <1>1 DEF WithCalls
<1>6. RouteTrue(t) /\ t.asks = {} /\ t \in ThreadType
  BY <1>3, <1>4 DEF Like, RouteTrue, Quiet
<1> HIDE DEF t
<1>7. CASE stops
  <2>1. Waits("agent_interrupt")
    BY <1>1, <1>7
  <2>2. Stopped(t)
    BY <1>3, <1>6, <1>7 DEF Stopped
  <2>3. ActOK'
    BY <1>2, <2>1 DEF AInv, ActOK, Waits, StepType
  <2> QED BY <1>2, <1>5, <1>6, <2>1, <2>2, <2>3, StopsKeeps
<1>8. CASE ~stops
  <2>1. pc' = "tools" /\ UNCHANGED step
    BY <1>1, <1>8
  <2>2. /\ cp' \in [1..MaxTries -> ThreadType] /\ Thread' = t
        /\ \A n \in 1..MaxTries : n > step'.tries => cp'[n] = NoThread
    BY <1>2, <1>5, <1>6, <2>1, OnlyThis
  <2>3. RouteTrue(Thread)'
    BY <1>2, <1>6, <2>1, <2>2 DEF RouteTrue
  <2>4. WorkOK'
    BY <1>2, <1>3, <1>6, <1>8, <2>1, <2>2, <2>3 DEF AInv, WorkOK, Like, Continues
  <2>5. HistoryOK' /\ StepOK' /\ ActOK'
    BY <1>2, <2>1, <2>2 DEF AInv, HistoryOK, StepOK, ActOK
  <2>6. TypeOK'
    BY <1>2, <2>1, <2>2, CatalogKept, TypeParts
  <2> QED BY <2>4, <2>5, <2>6 DEF AInv
<1> QED BY <1>7, <1>8

\* The calls that are left, after one of them.
LEMMA SettleKeeps ==
  ASSUME AInv, pc = "tools", NEW t, Like(t, Thread), ~t.approval,
         t.calls \subseteq Thread.calls, t.asks \subseteq t.calls, Settle(t),
         ActOK', UNCHANGED <<catalog, ruled, approved>>
  PROVE  AInv'
<1>1. /\ On(t) /\ t \in ThreadType /\ step \in StepType /\ step.thread # 0
      /\ RouteTrue(Thread) /\ Thread.calls \cap ApprovalOn \subseteq approved
      /\ ~Continues => Thread.task = step.tries
  BY AtWork, ThreadAssumption DEF Settle, Like, AInv, WorkOK, StepOK
<1>2. RouteTrue(t)
  BY <1>1 DEF Like, RouteTrue
<1>3. CASE t.calls = {} \/ ~(t.calls \subseteq t.asks)
  <2>1. /\ UNCHANGED step
        /\ pc' = IF t.calls = {} THEN "model" ELSE "tools"
    BY <1>3 DEF Settle
  <2>2. Thread' = t
    BY <1>1, <2>1, OnlyThis
  <2>3. RouteTrue(Thread)'
    BY <1>2, <2>1, <2>2 DEF RouteTrue
  <2>4. WorkOK'
    BY <1>1, <2>1, <2>2, <2>3 DEF WorkOK, Quiet, Continues, Like
  <2> QED BY <1>1, <2>1, <2>4, ThreadStepKeeps
<1>4. CASE t.calls # {} /\ t.calls \subseteq t.asks
  <2>1. Waits("agent_interrupt")
    BY <1>4 DEF Settle
  <2>2. Stopped(t)
    BY <1>2, <1>4 DEF Stopped
  <2>3. approved' \subseteq Tools
    BY Typed DEF AInv
  <2> QED BY <1>1, <2>1, <2>2, <2>3, StopsKeeps
<1> QED BY <1>3, <1>4

LEMMA SettlePlace ==
  ASSUME pc = "tools", step \in StepType, NEW t, Settle(t)
  PROVE  pc' \in {"model", "tools", "rest"} /\ step'.tries = step.tries
BY DEF Settle, Waits, StepType

LEMMA ToolRefusedKeeps == ASSUME NEW x \in Tools PROVE AInv /\ ToolRefused(x) => AInv'
<1> SUFFICES ASSUME AInv, ToolRefused(x) PROVE AInv'
  OBVIOUS
<1> DEFINE t == WithoutCall(Thread, x)
<1>1. /\ pc = "tools" /\ x \in Thread.calls \ Thread.asks /\ Settle(t)
      /\ UNCHANGED <<catalog, ruled, approved, act>>
  BY DEF ToolRefused, WithoutCall
<1>2. Thread \in ThreadType /\ step \in StepType /\ ~Thread.approval /\ Thread.asks \subseteq Thread.calls
  BY <1>1, AtWork DEF AInv, WorkOK
<1>3. Like(t, Thread) /\ t.calls = Thread.calls \ {x} /\ ~t.approval /\ t.asks = Thread.asks
  BY <1>2, SettledThread
<1> HIDE DEF t
<1>4. ActOK'
  BY <1>1, <1>2, SettlePlace DEF AInv, ActOK
<1> QED BY <1>1, <1>2, <1>3, <1>4, SettleKeeps

LEMMA ToolPerformedKeeps == ASSUME NEW x \in Tools PROVE AInv /\ ToolPerformed(x) => AInv'
<1> SUFFICES ASSUME AInv, ToolPerformed(x) PROVE AInv'
  OBVIOUS
<1>1. /\ pc = "tools" /\ x \in Thread.calls \ Thread.asks /\ CanSelect(Active) /\ MayPerform(x)
      /\ act' = [tool |-> x, task |-> Thread.task, governed |-> x \in GovernedTools,
                 openers |-> {s \in Names : x \in catalog[s].tools},
                 granted |-> x \in ApprovalOn => x \in approved]
      /\ UNCHANGED <<catalog, ruled, approved>>
  BY DEF ToolPerformed
<1>2. PICK t : /\ Settle(t)
               /\ \/ t = WithoutCall(Thread, x)
                  \/ x \in AsksItself /\ t = WithAsk(Thread, x)
  <2>1. CASE Settle([Thread EXCEPT !.calls = @ \ {x}])
    BY <2>1 DEF WithoutCall
  <2>2. CASE x \in AsksItself \ Thread.heard /\ Settle([Thread EXCEPT !.asks = @ \cup {x}])
    BY <2>2 DEF WithAsk
  <2> QED BY <2>1, <2>2 DEF ToolPerformed
<1>3. /\ Thread \in ThreadType /\ step \in StepType /\ ~Thread.approval
      /\ Thread.asks \subseteq Thread.calls /\ RouteTrue(Thread)
      /\ Thread.calls \cap ApprovalOn \subseteq approved
  BY <1>1, AtWork DEF AInv, WorkOK
<1>4. Like(t, Thread) /\ ~t.approval /\ t.calls \subseteq Thread.calls /\ t.asks \subseteq t.calls
  <2>1. CASE t = WithoutCall(Thread, x)
    BY <1>1, <1>3, <2>1, SettledThread
  <2>2. CASE x \in AsksItself /\ t = WithAsk(Thread, x)
    BY <1>1, <1>3, <2>2, AskingThread
  <2> QED BY <1>2, <2>1, <2>2
<1>5. pc' \in {"model", "tools", "rest"} /\ step'.tries = step.tries
  BY <1>1, <1>2, <1>3, SettlePlace
<1>6. Thread.task \in 1..step.tries /\ ruled[Thread.task].sound
  BY <1>1, <1>3 DEF MayPerform, RouteTrue
<1>7. x \in GovernedTools =>
        {s \in Names : x \in catalog[s].tools} \cap ruled[Thread.task].names # {}
  <2>1. SUFFICES ASSUME x \in GovernedTools
                 PROVE  \E s \in Names : x \in catalog[s].tools /\ s \in ruled[Thread.task].names
    OBVIOUS
  <2>2. PICK s \in Active : x \in catalog[s].tools
    BY <1>1, <2>1 DEF MayPerform, Allowed
  <2>3. s \in Names
    BY <1>1, <2>2 DEF CanSelect
  <2>4. s \in Thread.skills /\ Thread.route = "matched"
    BY <2>2 DEF Active
  <2> QED BY <1>3, <2>2, <2>3, <2>4 DEF RouteTrue
<1>8. x \in ApprovalOn => x \in approved
  BY <1>1, <1>3
<1>9. ActOK'
  BY <1>1, <1>5, <1>6, <1>7, <1>8 DEF ActOK
<1> QED BY <1>1, <1>2, <1>4, <1>9, SettleKeeps

\* What the run makes of an answer is an answer, and it grants what the user has.
LEMMA TranslateSound ==
  ASSUME NEW a \in Answers
  PROVE  /\ Translate(a) \in Payloads /\ Translate(a) # NoAnswer /\ Translate(a).for = a.for
         /\ a.for \subseteq ApprovalOn
         /\ Thread.approval => (Translate(a).says = "approve" <=> a.says = "yes")
<1>1. CASE a \in [says : {"yes", "no", "words"}, for : {{}}]
  <2>1. a = [says |-> a.says, for |-> {}] /\ a.says \in {"yes", "no", "words"}
    BY <1>1
  <2> DEFINE says == IF Thread.approval /\ a.says = "yes" THEN "approve"
                     ELSE IF Thread.approval /\ a.says = "no" THEN "reject" ELSE a.says
  <2>2. Translate(a) = [says |-> says, for |-> {}]
    BY <2>1 DEF Translate
  <2>3. says \in {"yes", "no", "words", "approve", "reject"} /\ says # "none"
    BY <2>1
  <2>4. Translate(a) \in Payloads
    <3>1. says \in {"yes", "no", "words"} \/ says \in {"approve", "reject"}
      BY <2>3
    <3> QED BY <2>2, <3>1 DEF Payloads, Answers
  <2> QED BY <2>1, <2>2, <2>3, <2>4 DEF NoAnswer
<1>2. CASE a \in [says : {"list"}, for : SUBSET ApprovalOn]
  <2>1. a.says = "list" /\ a.for \subseteq ApprovalOn
    BY <1>2
  <2>2. Translate(a) = a
    BY <2>1 DEF Translate
  <2> QED BY <2>1, <2>2 DEF Payloads, NoAnswer
<1> QED BY <1>1, <1>2 DEF Answers

Heard(s, a)     == [s EXCEPT !.status = "pending", !.answer = a, !.words = FALSE]
Told(s, a, w)   == [s EXCEPT !.status = "pending", !.answer = a, !.words = w, !.thread = 0]

LEMMA HeardStep ==
  ASSUME NEW s \in StepType, NEW a \in Payloads
  PROVE  /\ Heard(s, a) \in StepType /\ Heard(s, a).status = "pending" /\ Heard(s, a).answer = a
         /\ ~Heard(s, a).words /\ Heard(s, a).thread = s.thread /\ Heard(s, a).tries = s.tries
BY DEF StepType, Heard

LEMMA ToldStep ==
  ASSUME NEW s \in StepType, NEW a \in Payloads, NEW w \in BOOLEAN
  PROVE  /\ Told(s, a, w) \in StepType /\ Told(s, a, w).status = "pending"
         /\ Told(s, a, w).thread = 0 /\ Told(s, a, w).tries = s.tries
         /\ Told(s, a, w).kind = s.kind
<1>1. 0 \in 0..MaxTries
  BY ThreadAssumption
<1> QED BY <1>1 DEF StepType, Told

LEMMA AnswerKeeps == AInv /\ Answer => AInv'
<1> SUFFICES ASSUME AInv, Answer PROVE AInv'
  OBVIOUS
<1>1. pc = "rest" /\ step.status = "waiting" /\ UNCHANGED <<catalog, cp, pc, ruled, act>>
  BY DEF Answer
<1>2. PICK a \in Answers :
        \/ /\ step.kind = "agent_interrupt"
           /\ step' = Heard(step, Translate(a))
           /\ approved' = IF a.says = "yes" THEN Thread.calls \cap ApprovalOn ELSE a.for
        \/ /\ step.kind = "question"
           /\ \E w \in BOOLEAN : step' = Told(step, a, w)
           /\ UNCHANGED approved
  BY DEF Answer, Heard, Told
<1>3. /\ step \in StepType /\ cp \in [1..MaxTries -> ThreadType] /\ approved \subseteq Tools
      /\ step.thread <= step.tries
  BY Typed DEF AInv, HistoryOK
<1>4. step.tries \in 0..MaxTries /\ step.thread \in 0..MaxTries
  BY <1>3 DEF StepType
<1>5. /\ a \in Payloads /\ Translate(a) \in Payloads /\ Translate(a) # NoAnswer
      /\ Translate(a).for = a.for /\ a.for \subseteq ApprovalOn
      /\ Thread.approval => (Translate(a).says = "approve" <=> a.says = "yes")
  BY TranslateSound DEF Payloads
<1>6. CASE step.kind = "agent_interrupt"
  <2>1. /\ step' = Heard(step, Translate(a))
        /\ approved' = IF a.says = "yes" THEN Thread.calls \cap ApprovalOn ELSE a.for
    BY <1>2, <1>6
  <2>2. /\ step' \in StepType /\ step'.status = "pending" /\ step'.answer = Translate(a)
        /\ ~step'.words /\ step'.thread = step.thread /\ step'.tries = step.tries
    BY <1>3, <1>5, <2>1, HeardStep
  <2>3. step.thread # 0 /\ Stopped(Thread) /\ Thread' = Thread
    BY <1>1, <1>6, <2>2 DEF AInv, StepOK, Thread
  <2>4. approved' \subseteq Tools
    BY <1>5, <2>1, ThreadAssumption
  <2>5. Answered(Thread)'
    <3>1. Stopped(Thread)' /\ Continues'
      BY <1>1, <1>5, <2>2, <2>3 DEF Stopped, RouteTrue, Continues
    <3>2. CASE Thread.approval
      BY <1>5, <2>1, <2>2, <2>3, <3>1, <3>2 DEF Answered
    <3>3. CASE ~Thread.approval
      BY <2>3, <3>1, <3>3 DEF Answered
    <3> QED BY <3>2, <3>3
  <2>6. HistoryOK' /\ ActOK'
    BY <1>1, <2>2 DEF AInv, HistoryOK, ActOK
  <2>7. StepOK' /\ WorkOK'
    BY <1>1, <2>2, <2>3, <2>5 DEF StepOK, WorkOK
  <2>8. TypeOK'
    BY <1>1, <1>3, <2>2, <2>4, CatalogKept, TypeParts, Typed DEF AInv
  <2> QED BY <2>6, <2>7, <2>8 DEF AInv
<1>7. CASE step.kind = "question"
  <2>1. PICK w \in BOOLEAN : step' = Told(step, a, w) /\ UNCHANGED approved
    BY <1>2, <1>7
  <2>2. /\ step' \in StepType /\ step'.status = "pending" /\ step'.thread = 0
        /\ step'.tries = step.tries /\ step'.kind = "question"
    BY <1>3, <1>5, <1>7, <2>1, ToldStep
  <2>3. HistoryOK'
    BY <1>1, <1>4, <2>2 DEF AInv, HistoryOK
  <2>4. ActOK'
    BY <1>1, <2>2 DEF AInv, ActOK
  <2>5. StepOK' /\ WorkOK'
    BY <1>1, <2>2 DEF StepOK, WorkOK
  <2>6. TypeOK'
    BY <1>1, <1>3, <2>1, <2>2, CatalogKept, TypeParts, Typed DEF AInv
  <2> QED BY <2>3, <2>4, <2>5, <2>6 DEF AInv
<1> QED BY <1>2, <1>6, <1>7

LEMMA RestartKeeps == AInv /\ Restart => AInv'
<1> SUFFICES ASSUME AInv, Restart PROVE AInv'
  OBVIOUS
<1>1. /\ catalog' = NotLoaded /\ pc' = "rest" /\ UNCHANGED <<step, cp, ruled, approved, act>>
  BY DEF Restart
<1>2. CatalogOK'
  BY <1>1 DEF CatalogOK
<1>3. TypeOK'
  BY <1>1, <1>2, TypeParts, Typed DEF AInv
<1>4. Thread' = Thread
  BY <1>1 DEF Thread
<1>5. HistoryOK' /\ StepOK' /\ WorkOK' /\ ActOK'
  BY <1>1, <1>4 DEF AInv, HistoryOK, StepOK, WorkOK, ActOK, Answered, Stopped, RouteTrue,
     Continues
<1> QED BY <1>3, <1>5 DEF AInv

LEMMA StutterKeeps == AInv /\ UNCHANGED vars => AInv'
<1> SUFFICES ASSUME AInv, UNCHANGED vars PROVE AInv'
  OBVIOUS
<1>1. TypeOK'
  BY DEF AInv, TypeOK, Valid, vars
<1>2. HistoryOK' /\ StepOK' /\ WorkOK' /\ ActOK'
  BY DEF AInv, vars, HistoryOK, StepOK, WorkOK, ActOK, Answered, Stopped, RouteTrue, Continues,
     Thread, Quiet
<1> QED BY <1>1, <1>2 DEF AInv

LEMMA AgentStep == AInv /\ [Next]_vars => AInv'
<1> SUFFICES ASSUME AInv, [Next]_vars PROVE AInv'
  OBVIOUS
<1>1. CASE Begin \/ Build \/ StartsTask \/ Decides \/ Reenters \/ ContinuesNothing \/ RouteTask
  BY <1>1, BeginKeeps, BuildKeeps, StartsTaskKeeps, DecidesKeeps, ReentersKeeps,
     ContinuesNothingKeeps, RouteTaskKeeps
<1>2. CASE ModelRefused \/ Raises \/ ToolRaises
  BY <1>2, OverKeeps
<1>3. CASE ModelCalls \/ ModelAnswers \/ ModelUnavailable
  BY <1>3, ModelCallsKeeps, ModelDone
<1>4. CASE \E x \in Tools : ToolRefused(x) \/ ToolPerformed(x)
  BY <1>4, ToolRefusedKeeps, ToolPerformedKeeps
<1>5. CASE Answer \/ Restart
  BY <1>5, AnswerKeeps, RestartKeeps
<1>6. CASE UNCHANGED vars
  BY <1>6, StutterKeeps
<1> QED BY <1>1, <1>2, <1>3, <1>4, <1>5, <1>6 DEF Next

-----------------------------------------------------------------------------
(* The properties *)

\* The invariant: a thread that waits has stopped where its answer will find it, its
\* route is what the router said of its task, and the calls at work are approved.
THEOREM AgentInvariance == Spec => []AInv
<1>1. Init => AInv
  BY ThreadInit
<1>2. AInv /\ [Next]_vars => AInv'
  BY AgentStep
<1> QED BY <1>1, <1>2, PTL DEF Spec

\* The step, the threads and the catalog have their types: also the catalog that is
\* read again after a restart names only tools that exist.
THEOREM AgentTypes == Spec => []TypeOK
<1>1. AInv => TypeOK
  BY DEF AInv
<1> QED BY <1>1, AgentInvariance, PTL

\* A governed tool is performed only under a skill the router chose for that very task
\* (SkillRoutingMiddleware.awrap_tool_call), over interrupts, answers and restarts.
THEOREM AlwaysOpened == Spec => []OpenedByTheRouter
<1>1. AInv => OpenedByTheRouter
  BY DEF AInv, ActOK, OpenedByTheRouter
<1> QED BY <1>1, AgentInvariance, PTL

\* A tool of interrupt_on is performed only when the user has approved that call.
THEOREM AlwaysApproved == Spec => []NothingUnapproved
<1>1. AInv => NothingUnapproved
  BY DEF AInv, ActOK, NothingUnapproved
<1> QED BY <1>1, AgentInvariance, PTL

\* An answer reaches the task or the call it answers (_apply_resume and execute).
THEOREM AnswersHeard == Spec => []AnswersAreHeard
<1>1. AInv => AnswersAreHeard
  <2> SUFFICES ASSUME AInv PROVE AnswersAreHeard
    OBVIOUS
  <2>1. pc = "start" /\ Continues /\ step.kind = "agent_interrupt" =>
          Thread.approval \/ Thread.asks # {}
    BY DEF AInv, WorkOK, Answered, Stopped
  <2>2. pc \in {"route", "model", "tools"} /\ ~Continues => Thread.task = step.tries
    BY DEF AInv, WorkOK
  <2>3. step \in StepType
    BY Typed DEF AInv
  <2>4. step.words \/ step.answer = NoAnswer => ~Continues
    BY DEF Continues
  <2> QED BY <2>1, <2>2, <2>4 DEF AnswersAreHeard
<1> QED BY <1>1, AgentInvariance, PTL
=============================================================================
