----------------------------- MODULE RunPromise -----------------------------
(***************************************************************************)
(* What a run promises the session that started it, with no scheduler, no  *)
(* graph and no worker: a set of todos, each closed once and for all as    *)
(* succeeded or failed, and a verdict that speaks of every one of them.    *)
(* Until the verdict is settled it may still be taken back: then the run   *)
(* has failed, whatever its todos say.                                     *)
(* The life of a run is the one of the white paper, section 3.1            *)
(* (RunStatus in models/workflow_schemas.py).                              *)
(***************************************************************************)
VARIABLES
  st,       \* the status of the run
  settled,  \* that status stands
  todos,    \* the todos the run has grown to
  must,     \* those that are required
  ok,       \* those that succeeded
  bad       \* those that failed, were blocked or were cancelled

pvars == <<st, settled, todos, must, ok, bad>>

Open  == {"running", "waiting_user"}

PInit == st = "planning" /\ ~settled /\ todos = {} /\ must = {} /\ ok = {} /\ bad = {}

Adopt ==
  /\ st = "planning" /\ st' = "running" /\ ~settled'
  /\ todos' # {} /\ must' \subseteq todos'
  /\ ok' = {} /\ bad' = {}

\* Todos are added and closed while the run is open; a closed one stays closed,
\* and a required one stays required.
Work ==
  /\ st \in Open /\ st' \in Open /\ ~settled'
  /\ todos \subseteq todos' /\ must' \cap todos = must
  /\ ok \subseteq ok' /\ bad \subseteq bad'
  /\ ok' \cap bad' = {} /\ ok' \cup bad' \subseteq todos

Verdict ==
  IF must \cap bad = {} THEN "succeeded"
  ELSE IF ok = {}       THEN "failed"
  ELSE "partially_succeeded"

\* The verdict is given when every todo is closed.
Conclude ==
  /\ st = "running" /\ ok \cup bad = todos
  /\ st' = Verdict /\ ~settled'
  /\ UNCHANGED <<todos, must, ok, bad>>

\* The verdict stands.
Settle ==
  /\ st \notin {"planning"} \cup Open
  /\ ~settled /\ settled'
  /\ UNCHANGED <<st, todos, must, ok, bad>>

\* A run given up as failed: its todos may stay open, or all be closed with a verdict
\* that is taken back.
GiveUp ==
  /\ ~settled /\ settled' /\ st' = "failed"
  /\ bad \subseteq bad' /\ bad' \subseteq todos \ ok
  /\ UNCHANGED <<todos, must, ok>>

\* Cancelling closes every open todo.
Cancel ==
  /\ st \in {"planning"} \cup Open /\ st' = "cancelled" /\ settled'
  /\ bad' = todos \ ok
  /\ UNCHANGED <<todos, must, ok>>

PNext == Adopt \/ Work \/ Conclude \/ Settle \/ GiveUp \/ Cancel

PSpec == PInit /\ [][PNext]_pvars
=============================================================================
