----------------------------- MODULE AgentThread -----------------------------
(***************************************************************************)
(* The thread of a worker: how a step of a run starts it, how the answers  *)
(* of the user continue it, and which tools its skills open to it.         *)
(* AgentStepExecutor.execute (workflow/executor.py), _apply_resume         *)
(* (workflow/engine.py), SkillRoutingMiddleware and SkillCatalog.          *)
(*                                                                         *)
(* One step of one run: the threads of steps share nothing but the catalog *)
(* of their worker.  The model, the router and the agent library are free  *)
(* to do what their interfaces admit.  The checkpoints of a thread and the *)
(* step survive a restart; the catalog is read again, from files that may  *)
(* have changed.                                                           *)
(***************************************************************************)
EXTENDS Integers

CONSTANTS
  Skills, Tools,
  ApprovalOn,   \* interrupt_on: tools the library asks the user about
  AsksItself,   \* tools that may interrupt themselves (open_scenario)
  Contents,     \* what the file of a skill may say
  NoFile, NotLoaded,
  MaxTries      \* a bound of the model: executions of the step

ASSUME ThreadAssumption ==
  /\ ApprovalOn \subseteq Tools /\ AsksItself \subseteq Tools \ ApprovalOn
  /\ NoFile \in Contents
  /\ MaxTries \in Nat

VARIABLES
  catalog,   \* the one of the agent, NotLoaded until the agent is built
  step,      \* [status, tries: attempt_count, thread: agent_thread_id or 0,
             \*  answer: resume_payload, words: resume_user_input is not empty,
             \*  kind: of its waiting_context]
  cp,        \* the threads, by the attempt that began them
  pc,        \* where the execution is
  ruled,     \* history: what the router said of a task
  approved,  \* history: the calls the user has approved
  act        \* history: the last tool call that was performed

vars == <<catalog, step, cp, pc, ruled, approved, act>>

\* A thread: the attempt whose task is its last message, its route, the calls of the
\* last answer of the model, those that wait for approval or at an interrupt of their
\* own, and those whose interrupt has been decided.
NoThread == [task |-> 0, route |-> "absent", skills |-> {}, calls |-> {},
             approval |-> FALSE, asks |-> {}, heard |-> {}]

NoAnswer == [says |-> "none", for |-> {}]
Answers  == [says : {"yes", "no", "words"}, for : {{}}] \cup [says : {"list"}, for : SUBSET ApprovalOn]
Payloads == Answers \cup {NoAnswer} \cup [says : {"approve", "reject"}, for : {{}}]

NoRuling == [decision |-> "none", names |-> {}, sound |-> FALSE]
NoAct    == [tool |-> "none"]

Thread == cp[step.thread]
On(t)  == cp' = [cp EXCEPT ![step.thread] = t]

-----------------------------------------------------------------------------
(* SkillCatalog *)

Valid(f) == f = NoFile \/ (f.tools \subseteq Tools /\ (f.required => f.tools # {}))

Names         == {s \in Skills : catalog[s] # NoFile}
GovernedTools == UNION {catalog[s].tools : s \in {n \in Names : catalog[n].required}}
CanSelect(names) == names \subseteq Names

Init ==
  /\ catalog = NotLoaded
  /\ step = [status |-> "pending", tries |-> 0, thread |-> 0, answer |-> NoAnswer,
             words |-> FALSE, kind |-> "none"]
  /\ cp = [n \in 1..MaxTries |-> NoThread]
  /\ pc = "rest"
  /\ ruled = [n \in 0..MaxTries |-> NoRuling]
  /\ approved = {} /\ act = NoAct

-----------------------------------------------------------------------------
(* _execute_node and execute *)

Begin ==
  /\ pc = "rest" /\ step.status = "pending" /\ step.tries < MaxTries
  /\ step' = [step EXCEPT !.status = "running", !.tries = @ + 1,
                          !.thread = IF @ # 0 THEN @ ELSE step.tries + 1]
  /\ pc' = "start"
  /\ UNCHANGED <<catalog, cp, ruled, approved, act>>

Over == step' = [step EXCEPT !.status = "over"] /\ pc' = "rest"

\* A slip: the files are taken as they are.
BuildUnchecked ==
  /\ pc = "start" /\ catalog = NotLoaded
  /\ catalog' \in [Skills -> Contents]
  /\ UNCHANGED <<step, cp, pc, ruled, approved, act>>

\* _get_agent, once in a process, from the files as they are: a catalog that cannot
\* be loaded fails the run.
Build ==
  /\ pc = "start" /\ catalog = NotLoaded
  /\ \E files \in [Skills -> Contents] :
       IF \A s \in Skills : Valid(files[s])
       THEN catalog' = files /\ UNCHANGED <<step, pc>>
       ELSE Over /\ UNCHANGED catalog
  /\ UNCHANGED <<cp, ruled, approved, act>>

\* A slip: any payload is taken for the answer to an interrupt.
ContinuesAlways == step.answer # NoAnswer

\* Command(resume) or a new task.
Continues == step.answer # NoAnswer /\ ~step.words

StartsTask ==
  /\ pc = "start" /\ catalog # NotLoaded /\ ~Continues
  /\ On([NoThread EXCEPT !.task = step.tries, !.route = Thread.route, !.skills = Thread.skills])
  /\ pc' = "route"
  /\ UNCHANGED <<catalog, step, ruled, approved, act>>

\* The decisions the library wants, one for each call that waits for approval.
Granted(a) == IF a.says = "approve" THEN Thread.calls \cap ApprovalOn ELSE a.for

\* An answer in any other form raises.
Decides ==
  /\ pc = "start" /\ catalog # NotLoaded /\ Continues /\ Thread.approval
  /\ IF step.answer.says \in {"approve", "reject", "list"}
     THEN LET left == (Thread.calls \ ApprovalOn) \cup (Granted(step.answer) \cap Thread.calls) IN
            /\ On([Thread EXCEPT !.calls = left, !.approval = FALSE])
            /\ pc' = IF left = {} THEN "model" ELSE "tools"
            /\ UNCHANGED step
     ELSE Over /\ UNCHANGED cp
  /\ UNCHANGED <<catalog, ruled, approved, act>>

\* The call is made again from its beginning; its interrupt returns a yes or a no.
Reenters ==
  /\ pc = "start" /\ catalog # NotLoaded /\ Continues /\ Thread.asks # {}
  /\ On([Thread EXCEPT !.asks = {},
                       !.heard = IF step.answer.says \in {"yes", "no"} THEN Thread.asks ELSE {}])
  /\ pc' = "tools"
  /\ UNCHANGED <<catalog, step, ruled, approved, act>>

\* A thread that has not stopped is not continued: the library raises, or runs
\* it without a task.
ContinuesNothing ==
  /\ pc = "start" /\ catalog # NotLoaded /\ Continues
  /\ ~Thread.approval /\ Thread.asks = {}
  /\ Over \/ (pc' = "route" /\ UNCHANGED step)
  /\ UNCHANGED <<catalog, cp, ruled, approved, act>>

-----------------------------------------------------------------------------
(* abefore_agent *)

Decisions ==
  [decision : {"matched"}, names : SUBSET Skills \ {{}}, twice : BOOLEAN]
    \cup [decision : {"no_match", "ambiguous", "raises"}, names : {{}}, twice : {FALSE}]

Route(status, skills) == [Thread EXCEPT !.route = status, !.skills = skills]

Routed(d) ==
  IF Thread.task = 0 THEN Route("failed", {})
  ELSE IF d.decision = "matched" /\ ~d.twice /\ CanSelect(d.names) THEN Route("matched", d.names)
  ELSE IF d.decision = "no_match" THEN Route("no_match", {})
  ELSE Route("failed", {})

RouteTask ==
  /\ pc = "route"
  /\ \E d \in Decisions :
       /\ On(Routed(d))
       /\ ruled' = [ruled EXCEPT ![Thread.task] =
            [decision |-> d.decision, names |-> d.names,
             sound |-> Thread.task # 0 /\ ~d.twice /\ CanSelect(d.names) /\ d.decision \in {"matched", "no_match"}]]
  /\ pc' = "model"
  /\ UNCHANGED <<catalog, step, approved, act>>

-----------------------------------------------------------------------------
(* awrap_model_call, and what the model answers *)

Active  == IF Thread.route = "matched" THEN Thread.skills ELSE {}
Allowed == (Tools \ GovernedTools) \cup UNION {catalog[s].tools : s \in Active}

Works == Thread.route \in {"matched", "no_match"} /\ CanSelect(Active)

\* SKILL_ROUTING_FAILED, or a catalog that no longer has a skill of the route.
ModelRefused ==
  /\ pc = "model" /\ ~Works
  /\ Over
  /\ UNCHANGED <<catalog, cp, ruled, approved, act>>

Waits(kind) == step' = [step EXCEPT !.status = "waiting", !.kind = kind] /\ pc' = "rest"

\* The model may name any tool, also one it was not shown; the library stops at
\* those that want an approval.
ModelCalls ==
  /\ pc = "model" /\ Works
  /\ \E calls \in SUBSET Tools \ {{}} :
       LET stops == calls \cap ApprovalOn # {} IN
         /\ On([Thread EXCEPT !.calls = calls, !.approval = stops, !.heard = {}])
         /\ IF stops THEN Waits("agent_interrupt") ELSE pc' = "tools" /\ UNCHANGED step
  /\ approved' = {}
  /\ UNCHANGED <<catalog, ruled, act>>

\* The step is pending again when its prerequisites have succeeded.
AwaitsTodos ==
  /\ step' = [step EXCEPT !.status = "pending", !.thread = 0, !.answer = NoAnswer, !.words = FALSE]
  /\ pc' = "rest"

\* Success or failure, a question of its own, or prerequisites.
ModelAnswers ==
  /\ pc = "model" /\ Works
  /\ Over \/ Waits("question") \/ AwaitsTodos
  /\ UNCHANGED <<catalog, cp, ruled, approved, act>>

\* The retry middleware has tried the model as often as it may, or not again after an
\* error that will not pass: the answer is made up, LLM_UNAVAILABLE.  What a tool call
\* has found missing before still becomes a todo.
ModelUnavailable ==
  /\ pc = "model" /\ Works
  /\ Over \/ AwaitsTodos
  /\ UNCHANGED <<catalog, cp, ruled, approved, act>>

\* A guard of the execution, the bridge or the model raises anything else.
Raises ==
  /\ pc \in {"model", "tools"}
  /\ Over
  /\ UNCHANGED <<catalog, cp, ruled, approved, act>>

-----------------------------------------------------------------------------
(* awrap_tool_call *)

\* With the calls that are left the worker goes on, or stops when all of them ask.
Settle(t) ==
  /\ On(t)
  /\ IF t.calls = {} THEN pc' = "model" /\ UNCHANGED step
     ELSE IF t.calls \subseteq t.asks THEN Waits("agent_interrupt")
     ELSE UNCHANGED <<pc, step>>

\* A slip: the guard trusts the filter of the tools the model was shown.
MayPerformShown(t) == Thread.route # "failed"

MayPerform(t) == Thread.route # "failed" /\ t \in Allowed

ToolRefused(t) ==
  /\ pc = "tools" /\ t \in Thread.calls \ Thread.asks /\ CanSelect(Active)
  /\ ~MayPerform(t)
  /\ Settle([Thread EXCEPT !.calls = @ \ {t}])
  /\ UNCHANGED <<catalog, ruled, approved, act>>

\* The call is performed by the client.  A tool that asks goes no further now.
ToolPerformed(t) ==
  /\ pc = "tools" /\ t \in Thread.calls \ Thread.asks /\ CanSelect(Active)
  /\ MayPerform(t)
  /\ act' = [tool |-> t, task |-> Thread.task, governed |-> t \in GovernedTools,
             openers |-> {s \in Names : t \in catalog[s].tools},
             granted |-> t \in ApprovalOn => t \in approved]
  /\ \/ Settle([Thread EXCEPT !.calls = @ \ {t}])
     \/ /\ t \in AsksItself \ Thread.heard
        /\ Settle([Thread EXCEPT !.asks = @ \cup {t}])
  /\ UNCHANGED <<catalog, ruled, approved>>

\* select raises in the guard.
ToolRaises ==
  /\ pc = "tools" /\ ~CanSelect(Active)
  /\ Over
  /\ UNCHANGED <<catalog, cp, ruled, approved, act>>

-----------------------------------------------------------------------------
(* The user, and the process *)

\* A slip: what is not understood is a yes.
TranslateLoosely(a) ==
  IF ~Thread.approval \/ a.says = "list" THEN a
  ELSE [a EXCEPT !.says = IF a.says = "no" THEN "reject" ELSE "approve"]

\* _translate_agent_interrupt_resume
Translate(a) ==
  CASE Thread.approval /\ a.says = "yes" -> [a EXCEPT !.says = "approve"]
    [] Thread.approval /\ a.says = "no"  -> [a EXCEPT !.says = "reject"]
    [] OTHER                             -> a

\* _apply_resume: a question gets a new thread, and the answer may be without words.
Answer ==
  /\ pc = "rest" /\ step.status = "waiting"
  /\ \E a \in Answers :
       \/ /\ step.kind = "agent_interrupt"
          /\ step' = [step EXCEPT !.status = "pending", !.answer = Translate(a), !.words = FALSE]
          /\ approved' = IF a.says = "yes" THEN Thread.calls \cap ApprovalOn ELSE a.for
       \/ /\ step.kind = "question"
          /\ \E words \in BOOLEAN :
               step' = [step EXCEPT !.status = "pending", !.answer = a, !.words = words, !.thread = 0]
          /\ UNCHANGED approved
  /\ UNCHANGED <<catalog, cp, pc, ruled, act>>

\* A step at work stays running; nothing continues it.
Restart ==
  /\ catalog # NotLoaded
  /\ catalog' = NotLoaded /\ pc' = "rest"
  /\ UNCHANGED <<step, cp, ruled, approved, act>>

-----------------------------------------------------------------------------
Next ==
  \/ Begin \/ Build \/ StartsTask \/ Decides \/ Reenters \/ ContinuesNothing
  \/ RouteTask \/ ModelRefused \/ ModelCalls \/ ModelAnswers \/ ModelUnavailable \/ Raises
  \/ \E t \in Tools : ToolRefused(t) \/ ToolPerformed(t)
  \/ ToolRaises
  \/ Answer \/ Restart

Spec == Init /\ [][Next]_vars

-----------------------------------------------------------------------------
TypeOK ==
  /\ catalog = NotLoaded \/ \A s \in Skills : catalog[s] \in Contents /\ Valid(catalog[s])
  /\ step \in [status : {"pending", "running", "waiting", "over"}, tries : 0..MaxTries,
               thread : 0..MaxTries, answer : Payloads, words : BOOLEAN,
               kind : {"none", "agent_interrupt", "question"}]
  /\ cp \in [1..MaxTries -> [task : 0..MaxTries, skills : SUBSET Skills,
                             route : {"absent", "matched", "no_match", "failed"},
                             calls : SUBSET Tools, approval : BOOLEAN,
                             asks : SUBSET AsksItself, heard : SUBSET AsksItself]]
  /\ pc \in {"rest", "start", "route", "model", "tools"}
  /\ approved \subseteq Tools

\* A tool is performed for a task the router has ruled on, and one that a skill
\* governs only under a skill the router has chosen for that very task: also after an
\* interrupt, an answer, and a restart with other skills.
OpenedByTheRouter ==
  act # NoAct =>
    /\ ruled[act.task].sound
    /\ act.governed => act.openers \cap ruled[act.task].names # {}

\* A tool that wants an approval is performed when the user has approved that call.
NothingUnapproved == act # NoAct => act.granted

\* An answer with words becomes the task of an execution of its own, and one without
\* goes to the call that asked - unless the worker itself has asked.
AnswersAreHeard ==
  /\ pc \in {"route", "model", "tools"} /\ (step.words \/ step.answer = NoAnswer) =>
       Thread.task = step.tries
  /\ pc = "start" /\ Continues /\ step.kind = "agent_interrupt" =>
       Thread.approval \/ Thread.asks # {}
=============================================================================
