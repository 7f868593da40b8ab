---------------------------- MODULE SessionClients ----------------------------
(***************************************************************************)
(* Clients of a conversation, by their habits (external): RunSessions with *)
(* the requests a client really sends.  The server accepts any of them; a  *)
(* patient client sends nothing while a handler of an earlier request of   *)
(* its own is still deciding.                                              *)
(***************************************************************************)
EXTENDS RunSessions

CONSTANT
  Habits   \* how many requests a client sends, how many todos its runs may
           \* have (both bounds of the model), and whether it is patient

ASSUME HabitsAssumption ==
  /\ Requests \subseteq Nat
  /\ Habits \subseteq [requests : Nat, todos : Nat, patient : BOOLEAN]

VARIABLE habit

ClientInit == Init /\ habit \in Habits

Deciding == \E q \in Requests : pc[q] \in Handler

\* Requests are numbered in the order in which they are sent.
MaySendNow(r) ==
  /\ r <= habit.requests
  /\ \A q \in Requests : q < r => pc[q] # "new"
  /\ habit.patient => ~Deciding

ClientNext ==
  /\ Next
  /\ \A r \in Requests : pc[r] = "new" /\ pc'[r] # "new" => MaySendNow(r)
  /\ \A q \in Requests : Len(db'[q].step) <= habit.todos
  /\ UNCHANGED habit

ClientSpec ==
  /\ ClientInit /\ [][ClientNext]_<<vars, habit>>
  /\ \A r \in Requests : WF_vars(Proceed(r))

-----------------------------------------------------------------------------
(* What a patient client may rely on.  Of one that is not, two_active_runs   *)
(* shows what happens.                                                       *)

\* One request at a time drives a run of the conversation, and a run is not cancelled
\* under its driver.
PatientOneDriver == habit.patient => OneDriver

\* A conversation has at most one run that is not over.
PatientOneActiveRun == habit.patient => OneActiveRun

\* While a worker of a request is at work the bridge of the conversation is the
\* request's own: the answers of its tools find their way back.
PatientAnswersReachTheDriver == habit.patient => AnswersReachTheDriver

\* The request that gave a run its verdict still has to tell of it, or could not and is
\* about to fail the run.
Unsettled(q) == \E r \in Requests : target[r] = q /\ pc[r] \in {"ending", "fail"}

IsOver(q)     == db[q].status \in Terminal /\ ~Unsettled(q)
OpenStatus(q) == IF IsOpen(db[q]) THEN db[q].status ELSE "running"

\* The conversation keeps the promise of a thread: whatever the requests do in between,
\* its runs come one after another, and nobody changes what one has left.  A verdict
\* that may still be taken back is no end: the run is running.
Thread == INSTANCE ThreadPromise WITH
  open <- {[run |-> q, status |-> OpenStatus(q)] :
             q \in {p \in Requests : db[p] # NoRun /\ ~IsOver(p)}},
  over <- {[run |-> q, left |-> db[q]] : q \in {p \in Requests : IsOver(p)}}

PatientThread == [][habit.patient => [Thread!TNext]_(Thread!tvars)]_vars

\* A run that is over is never changed again, once the request that gave its verdict has
\* told of it.
PatientTerminalStays ==
  [][habit.patient => \A q \in Requests : IsOver(q) => IsOver(q)' /\ db'[q] = db[q]]_vars
=============================================================================
