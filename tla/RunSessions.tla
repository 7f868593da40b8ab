----------------------------- MODULE RunSessions -----------------------------
(***************************************************************************)
(* The HTTP requests of one conversation (thread_id), the session manager  *)
(* that lets one of them in at a time, and the persisted runs they drive:  *)
(* api/routes.py, bridge/session.py, and of workflow/engine.py the order   *)
(* in which its operations read a run and save it back.                    *)
(*                                                                         *)
(* Every await on the database is a point where the event loop may switch  *)
(* to another request, so a read and the save that follows are two actions *)
(* and what was read is kept in snap.  A save is one transaction that      *)
(* checks the revision.                                                    *)
(*                                                                         *)
(* What an operation makes of the run it has read is in RunRecord.  A run  *)
(* has the id of the request that creates it.                              *)
(***************************************************************************)
EXTENDS RunRecord

CONSTANTS
  Requests,
  None,       \* no request, no run
  MaxTodos    \* a bound of the model: todos of a run

ASSUME SessionAssumption ==
  None \notin Requests /\ MaxTodos \in Nat \ {0}

VARIABLES
  db,      \* workflow_runs: the run created by each request
  bridge,  \* SessionManager._bridges[thread_id]: the request that registered it
  pc,      \* where a request is
  target,  \* the run it is about
  snap,    \* the run as it read it last; NoRun before the read
  next     \* next_step_id of its graph state: the step it executes; 0 is None

vars == <<db, bridge, pc, target, snap, next>>

Handler   == {"find", "decide", "replacing", "create", "check", "cancelling"}
Graph     == {"validate", "schedule", "execute", "worker", "finalize", "ending", "fail"}
Streaming == {"insert", "resume", "abandon"} \cup Graph

\* The operation has returned or raised, and its stream is to end with the last event
\* or with an error; "mute" is a stream whose error could not be written.
Telling == {"last", "error", "mute"}

\* Where the next thing a request does is to read its run.
Reading == {"check", "replacing", "cancelling", "resume", "abandon"} \cup (Graph \ {"ending"})

Init ==
  /\ db = [r \in Requests |-> NoRun]
  /\ bridge = None
  /\ pc = [r \in Requests |-> "new"]
  /\ target = [r \in Requests |-> None]
  /\ snap = [r \in Requests |-> NoRun]
  /\ next = [r \in Requests |-> 0]

Go(r, place) == pc' = [pc EXCEPT ![r] = place]
Hold(r, run) == snap' = [snap EXCEPT ![r] = run]
Aim(r, q)    == target' = [target EXCEPT ![r] = q]
Choose(r, i) == next' = [next EXCEPT ![r] = i]

-----------------------------------------------------------------------------
(* Persistence *)

ReadRun(r) ==
  /\ pc[r] \in Reading /\ snap[r] = NoRun
  /\ Hold(r, db[target[r]])
  /\ UNCHANGED <<db, bridge, pc, target, next>>

Saved(run) == [run EXCEPT !.rev = run.rev + 1]

\* A slip: the revision is not compared.
SaveBlind(r, new, place, conflict) ==
  /\ db' = [db EXCEPT ![target[r]] = Saved(new)]
  /\ Go(r, place)
  /\ Hold(r, IF place = "worker" THEN Saved(new) ELSE NoRun)
  /\ UNCHANGED <<bridge, target>>

\* A slip: a save that is refused is tried again as it was.
SaveRetries(r, new, place, conflict) ==
  /\ IF db[target[r]].rev = snap[r].rev
     THEN /\ db' = [db EXCEPT ![target[r]] = Saved(new)]
          /\ Go(r, place)
          /\ Hold(r, IF place = "worker" THEN Saved(new) ELSE NoRun)
     ELSE UNCHANGED <<db, pc, snap>>
  /\ UNCHANGED <<bridge, target>>

\* save_run: the run read in snap, changed to new, is written if nobody saved
\* in between; otherwise ConcurrentRunUpdateError takes the request elsewhere.
\* Only the execute node goes on working with the run it saved.
Save(r, new, place, conflict) ==
  /\ IF db[target[r]].rev = snap[r].rev
     THEN /\ db' = [db EXCEPT ![target[r]] = Saved(new)]
          /\ Go(r, place)
          /\ Hold(r, IF place = "worker" THEN Saved(new) ELSE NoRun)
     ELSE /\ db' = db
          /\ Go(r, conflict)
          /\ Hold(r, NoRun)
  /\ UNCHANGED <<bridge, target>>

\* The request goes on without saving.
Skip(r, place) == Go(r, place) /\ Hold(r, NoRun) /\ UNCHANGED <<db, bridge, target>>

-----------------------------------------------------------------------------
(* The handlers.  Until one registers a bridge the next request comes in. *)

MaySend(r) == pc[r] = "new"

\* The guard of every handler: 409 when the thread has a bridge.
Admit(r, place) == Skip(r, IF bridge = None THEN place ELSE "done")

Register(r, place) == bridge' = r /\ Go(r, place) /\ Hold(r, NoRun)

ChatArrive(r) == MaySend(r) /\ Admit(r, "find")

\* A slip: only a run that waits for the user is found.
FindWaiting(r) ==
  /\ pc[r] = "find"
  /\ LET open == {q \in Requests : db[q].status = "waiting_user"} IN
       \E q \in IF open = {} THEN {None} ELSE open :
         Aim(r, q) /\ Hold(r, IF q = None THEN NoRun ELSE db[q])
  /\ Go(r, "decide")
  /\ UNCHANGED <<db, bridge>>

\* find_active_by_thread; of several open runs the one updated last, here any.
FindActive(r) ==
  /\ pc[r] = "find"
  /\ LET open == {q \in Requests : IsOpen(db[q])} IN
       \E q \in IF open = {} THEN {None} ELSE open :
         Aim(r, q) /\ Hold(r, IF q = None THEN NoRun ELSE db[q])
  /\ Go(r, "decide")
  /\ UNCHANGED <<db, bridge>>

\* No run is open: a new one is created.  An open one is cancelled first if the
\* chat replaces it, continued if it waits for the user, and else refuses the
\* chat with 409.
ChatCreates(r) ==
  /\ \/ pc[r] = "create"
     \/ pc[r] = "decide" /\ target[r] = None
  /\ Register(r, "insert")
  /\ UNCHANGED <<db, target>>

ChatReplaces(r) ==
  /\ pc[r] = "decide" /\ target[r] # None
  /\ Skip(r, "replacing")

ChatContinues(r) ==
  /\ pc[r] = "decide" /\ target[r] # None
  /\ IF snap[r].status = "waiting_user"
     THEN Register(r, "resume") /\ UNCHANGED <<db, target>>
     ELSE Skip(r, "done")

\* /runs/{run_id}/resume and /cancel read the run before they look for a bridge.
ByRunArrive(r) ==
  /\ MaySend(r)
  /\ \E q \in Requests : db[q] # NoRun /\ Aim(r, q)
  /\ Go(r, "check")
  /\ UNCHANGED <<db, bridge, snap>>

\* A slip: the stream starts, but no bridge is registered for it.
ResumeUnregistered(r) ==
  /\ pc[r] = "check" /\ snap[r] # NoRun
  /\ IF bridge = None /\ snap[r].status = "waiting_user"
     THEN Skip(r, "resume")
     ELSE Skip(r, "done")

ResumeAdmits(r) ==
  /\ pc[r] = "check" /\ snap[r] # NoRun
  /\ IF bridge = None /\ snap[r].status = "waiting_user"
     THEN Register(r, "resume") /\ UNCHANGED <<db, target>>
     ELSE Skip(r, "done")

\* A slip: a run is cancelled whoever drives it.
CancelAdmitsAlways(r) == pc[r] = "check" /\ snap[r] # NoRun /\ Skip(r, "cancelling")

CancelAdmits(r) == pc[r] = "check" /\ snap[r] # NoRun /\ Admit(r, "cancelling")

\* A slip: a run that is over is cancelled as well.
CancelRunAlways(r) ==
  /\ pc[r] \in {"cancelling", "replacing", "abandon"} /\ snap[r] # NoRun
  /\ Save(r, Cancelled(snap[r]), "done", "done")

\* cancel_run, for /cancel, for a chat that replaces, and for the answer that
\* abandons a question.  It may raise after its save, with the event that tells of it.
CancelRun(r) ==
  /\ pc[r] \in {"cancelling", "replacing", "abandon"} /\ snap[r] # NoRun
  /\ LET after == CASE pc[r] = "cancelling" -> "done"
                    [] pc[r] = "replacing"  -> "create"
                    [] pc[r] = "abandon"    -> "last"
         error == IF pc[r] = "abandon" THEN "error" ELSE "done"
     IN  IF IsOpen(snap[r])
         THEN \E place \in {after, error} : Save(r, Cancelled(snap[r]), place, error)
         ELSE Skip(r, after)

\* A query of a handler fails: 500.
HandlerRaises(r) ==
  pc[r] \in {"find", "check", "replacing", "cancelling"} /\ Skip(r, "done") /\ Choose(r, 0)

-----------------------------------------------------------------------------
(* The stream of a request drives a run: create_run or resume_run, then the  *)
(* nodes of the graph, each with a read and a save of its own.               *)

\* The event that tells of a new run, or of an answer, is written outside of the try.
InsertRun(r) ==
  /\ pc[r] = "insert"
  /\ db' = [db EXCEPT ![r] = NewRun]
  /\ Aim(r, r)
  /\ Go(r, "validate") \/ Go(r, "error")
  /\ UNCHANGED <<bridge, snap, next>>

\* resume_run refuses a run that has no question, before the stream needs the database
\* to say so; a user may also call off the run.
ResumeRun(r) ==
  /\ pc[r] = "resume" /\ snap[r] # NoRun
  /\ IF MayResume(snap[r])
     THEN \/ Skip(r, "abandon")
          \/ \E place \in {"schedule", "error"} : Save(r, Resumed(snap[r]), place, "error")
     ELSE Skip(r, "closing")
  /\ UNCHANGED next

Validate(r) ==
  /\ pc[r] = "validate" /\ snap[r] # NoRun
  /\ \E n \in 1..MaxTodos : Save(r, Planned(snap[r], n), "schedule", "fail")
  /\ UNCHANGED next

\* A run the scheduler leaves as it was is not saved; a step that is dispatched may or
\* may not have been ready before.
Schedule(r) ==
  /\ pc[r] = "schedule" /\ snap[r] # NoRun
  /\ \E to \in Scheduled(snap[r]) :
       /\ Choose(r, to.next)
       /\ \/ /\ to.run # snap[r] \/ to.place = "execute"
             /\ Save(r, to.run, to.place, "fail")
          \/ /\ to.run = snap[r]
             /\ Skip(r, to.place)

\* The step is marked as running, whatever became of it since it was dispatched.
Execute(r) ==
  /\ pc[r] = "execute" /\ snap[r] # NoRun
  /\ Save(r, Started(snap[r], next[r]), "worker", "fail")
  /\ UNCHANGED next

\* A slip: no time limit on the answers of the client.
WorkerWaits(r) ==
  /\ pc[r] = "worker" /\ bridge = r
  /\ Save(r, Closed(snap[r], next[r]), "schedule", "fail")
  /\ Choose(r, 0)

WorkerReturns(r) ==
  /\ pc[r] = "worker"
  /\ \E new \in Returned(snap[r], next[r], 0..(MaxTodos - Len(snap[r].step))) :
       Save(r, new, "schedule", "fail")
  /\ Choose(r, 0)

Finalize(r) ==
  /\ pc[r] = "finalize" /\ snap[r] # NoRun
  /\ IF MayDecide(snap[r])
     THEN \E verdict \in Verdict : Save(r, Decided(snap[r], verdict), "ending", "fail")
     ELSE Skip(r, "fail")
  /\ UNCHANGED next

\* The event that tells of the last save is written, and the graph returns.
EndGraph(r) == pc[r] = "ending" /\ Skip(r, "last") /\ UNCHANGED next

\* Also when the last save cannot be told of.
NodeRaises(r) == pc[r] \in Graph \ {"fail"} /\ Skip(r, "fail") /\ Choose(r, 0)

\* A slip: the todos are forgotten, but not the question one of them has asked.
FailRunForgets(r) ==
  /\ pc[r] = "fail" /\ snap[r] # NoRun
  /\ Save(r, [snap[r] EXCEPT !.status = "failed", !.step = <<>>], "last", "error")
  /\ UNCHANGED next

FailRun(r) ==
  /\ pc[r] = "fail" /\ snap[r] # NoRun
  /\ Save(r, GivenUp(snap[r]), "last", "error")
  /\ UNCHANGED next

-----------------------------------------------------------------------------
(* The end of a request *)

\* A query or an event fails where no node runs: create_run, resume_run and _fail_run
\* raise, and so does the reading of the run for the last event.
OperationRaises(r) ==
  pc[r] \in {"insert", "resume", "abandon", "fail", "last"} /\ Skip(r, "error") /\ Choose(r, 0)

\* The last event, or the error, is in the queue: the stream sends it and breaks off.
Tell(r) == pc[r] \in {"last", "error"} /\ Skip(r, "closing") /\ Choose(r, 0)

\* The error cannot be written either.  The stream waits on for an event.
TellNothing(r) == pc[r] = "error" /\ Skip(r, "mute") /\ Choose(r, 0)

\* A slip: the stream that breaks off does not unregister.
DisconnectLeaks(r) == pc[r] \in Streaming \cup Telling /\ Skip(r, "done") /\ Choose(r, 0)

\* The client goes away: the task that drives the run is cancelled.
Disconnect(r) == pc[r] \in Streaming \cup Telling /\ Skip(r, "closing") /\ Choose(r, 0)

\* The finally of the stream: unregister pops whatever bridge the thread has.
Close(r) ==
  /\ pc[r] = "closing"
  /\ bridge' = None
  /\ Go(r, "done")
  /\ UNCHANGED <<db, target, snap, next>>

\* The process stops and starts again: only the database remains.
Restart ==
  /\ \E r \in Requests : pc[r] \notin {"new", "done"}
  /\ pc' = [r \in Requests |-> IF pc[r] = "new" THEN "new" ELSE "done"]
  /\ snap' = [r \in Requests |-> NoRun]
  /\ next' = [r \in Requests |-> 0]
  /\ bridge' = None
  /\ UNCHANGED <<db, target>>

-----------------------------------------------------------------------------
Arrive(r) == UNCHANGED next /\ (ChatArrive(r) \/ ByRunArrive(r))

Handle(r) ==
  /\ UNCHANGED next
  /\ \/ FindActive(r) \/ ChatCreates(r) \/ ChatReplaces(r) \/ ChatContinues(r)
     \/ ResumeAdmits(r) \/ CancelAdmits(r) \/ CancelRun(r)

Drive(r) == InsertRun(r) \/ ResumeRun(r) \/ Validate(r) \/ Schedule(r) \/ Execute(r)
              \/ WorkerReturns(r) \/ Finalize(r) \/ EndGraph(r) \/ FailRun(r)

\* What the event loop does for a request once it has arrived.
Proceed(r) == ReadRun(r) \/ Handle(r) \/ Drive(r) \/ Tell(r) \/ Close(r)

\* What may go wrong with it.
BreaksOff(r) ==
  NodeRaises(r) \/ OperationRaises(r) \/ HandlerRaises(r) \/ TellNothing(r) \/ Disconnect(r)

\* Every request that was sent has been answered.
Quiet == (\A r \in Requests : pc[r] \in {"new", "done"}) /\ UNCHANGED vars

Next ==
  \/ \E r \in Requests : Arrive(r) \/ Proceed(r) \/ BreaksOff(r)
  \/ Restart
  \/ Quiet

Spec == Init /\ [][Next]_vars

\* The event loop runs every ready task, queries return, and workers answer or
\* time out.  Clients need not send, nor go away, and nothing need go wrong.
FairSpec == Spec /\ \A r \in Requests : WF_vars(Proceed(r))

-----------------------------------------------------------------------------
(* What the session manager and the revisions promise *)

TypeOK ==
  /\ db \in [Requests -> Run]
  /\ bridge \in Requests \cup {None}
  /\ pc \in [Requests -> {"new", "closing", "done"} \cup Handler \cup Streaming \cup Telling]
  /\ target \in [Requests -> Requests \cup {None}]
  /\ snap \in [Requests -> Run]
  /\ next \in [Requests -> Nat]

\* One request at a time drives a run of the conversation, and a run is not cancelled
\* under its driver.
OneDriver ==
  \A r, q \in Requests : pc[q] \in Streaming /\ r # q =>
    /\ pc[r] \notin Streaming
    /\ pc[r] \in {"cancelling", "replacing"} /\ IsOpen(snap[r]) /\ pc[q] \in Graph =>
         target[q] # target[r]

\* A conversation has at most one run that is not over.
OneActiveRun ==
  \A p, q \in Requests : IsOpen(db[p]) /\ IsOpen(db[q]) => p = q

\* While a worker of a request is at work the bridge of the conversation is the
\* request's own: the answers of its tools find their way back.
AnswersReachTheDriver ==
  \A r \in Requests : pc[r] = "worker" => bridge = r

\* A bridge belongs to a stream that is still open, however it ends: a thread is
\* never locked by a request that is gone.
NoLeakedSession ==
  bridge # None => pc[bridge] \in Streaming \cup Telling \cup {"closing"}

\* No update is lost: whoever changes a run has seen it as it was.
NoLostUpdate ==
  [][\A q \in Requests : db[q] # NoRun /\ db'[q] # db[q] =>
       \E r \in Requests : target[r] = q /\ pc'[r] # pc[r] /\ snap[r] = db[q]]_vars

\* Every request that has arrived is answered, whatever becomes of its run: also one
\* that finds its run changed by another whenever it saves.  Only an error that cannot
\* be written leaves a stream open.  (Of finitely many requests: in the end none is
\* under way, which TLC checks faster than a ~> for each.)
Answered == <>[](\A r \in Requests : pc[r] \in {"new", "mute", "done"})
=============================================================================
