---------------------------- MODULE PlanValidator ----------------------------
(***************************************************************************)
(* The deterministic check of a planner's draft and the steps made from it *)
(* (workflow/validator.py).  A draft comes from a language model and is    *)
(* not trusted: refs may repeat, dangle or point forward.                  *)
(***************************************************************************)
EXTENDS WorkflowSchemas

CONSTANT Refs   \* the short names a draft uses for its own todos

\* DraftStep.  A worker outside Workers is one the catalog does not know.
Todo(workers) == [ref        : Refs,
                  worker     : workers,
                  source     : {"user_intent", "requirement"},
                  depends_on : SUBSET Refs,
                  required   : BOOLEAN]

\* PlanValidator.validate up to the first raise: no todo at all, a repeated
\* ref, the wrong source, an unknown worker, a dependency on an unknown ref or
\* on one that does not come before.
Valid(draft, source) ==
  /\ draft # <<>>
  /\ \A i, j \in DOMAIN draft : draft[i].ref = draft[j].ref => i = j
  /\ \A i \in DOMAIN draft :
        /\ draft[i].source = source
        /\ draft[i].worker \in Workers
        /\ \A r \in draft[i].depends_on : \E j \in 1..(i - 1) : draft[j].ref = r

\* The step made from the i-th todo when n steps exist already: refs become
\* step ids, and a todo without dependencies inherits those it is given.
MakeStep(draft, i, n, owner, key, depth, inherited) ==
  [worker     |-> draft[i].worker,
   owner      |-> owner,
   key        |-> key,
   depends_on |-> IF draft[i].depends_on = {}
                  THEN inherited
                  ELSE {n + j : j \in {k \in DOMAIN draft :
                                         draft[k].ref \in draft[i].depends_on}},
   required   |-> draft[i].required,
   status     |-> "pending",
   error      |-> "none",
   attempts   |-> 0,
   depth      |-> depth,
   expanded   |-> {}]

\* A slip: the todos of one requirement do not wait for those of the one before.
AddStepsUnchained(step, draft, owner, key, depth, inherited) ==
  [i \in 1..(Len(step) + Len(draft)) |->
     IF i <= Len(step)
     THEN step[i]
     ELSE MakeStep(draft, i - Len(step), Len(step), owner, key, depth, {})]

\* The table of steps with the draft's steps added after the n existing ones.
AddSteps(step, draft, owner, key, depth, inherited) ==
  [i \in 1..(Len(step) + Len(draft)) |->
     IF i <= Len(step)
     THEN step[i]
     ELSE MakeStep(draft, i - Len(step), Len(step), owner, key, depth, inherited)]

\* terminal_step_ids: the ids in ids no step of ids depends on.
TerminalSteps(step, ids) ==
  {t \in ids : \A i \in ids : t \notin step[i].depends_on}
=============================================================================
