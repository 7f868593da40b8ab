----------------------------- MODULE EventStream -----------------------------
(***************************************************************************)
(* What the client of a run is told: the events of one request after the   *)
(* other, numbered by the database, queued by the bridge and sent by the   *)
(* generator of the response, up to the event that ends the stream.        *)
(* _stream_workflow_response and _finish_workflow_stream (api/routes.py),  *)
(* _emit of the bridge and of the engine, and next_sequence.               *)
(*                                                                         *)
(* The graph and the tool calls of a worker are coroutines that emit; a    *)
(* call is silent while it waits for its answer.  One request at a time    *)
(* drives the run (RunSessions); of the run there is what its last event   *)
(* depends on.                                                             *)
(***************************************************************************)
EXTENDS Integers, Sequences

CONSTANTS
  Calls,     \* the calls a worker may make at a time
  Graph,     \* the coroutine that drives the graph
  MaxRev,    \* bounds of the model: saves before the run must come to an end,
  MaxCall,   \* events before no call is begun,
  MaxSeq     \* and events before no stream is opened

ASSUME EventAssumption ==
  /\ Graph \notin Calls
  /\ MaxRev \in Nat /\ MaxCall \in Nat /\ MaxSeq \in Nat

Coroutines == Calls \cup {Graph}

Ends   == {"paused", "done", "error"}    \* done with interrupted, done, and error
Kind   == {"update", "tool", "interrupt"} \cup Ends
Status == {"none", "absent", "running", "waiting", "over", "cancelled"}

VARIABLES
  run,      \* [status, asked: has a waiting_context, open: a step waits for the user, rev]
  seq,      \* workflow_sequences
  bridge,   \* [counted: knows the repository, seq: _sequence, rev: _workflow_revision]
  queue,    \* _queue, a sequence of frames
  co,       \* by coroutine: the kinds still to emit, the number allocated for the first,
            \* and whether it waits for the client
  pc,       \* where _run_and_emit is
  gen,      \* the generator of the response: "none", "open" or "closing"
  client    \* what the client knows: numbers seen, revision shown, kind of the last event

vars == <<run, seq, bridge, queue, co, pc, gen, client>>

Silent == [out |-> <<>>, num |-> 0, asks |-> FALSE]

Init ==
  /\ run = [status |-> "none", asked |-> FALSE, open |-> FALSE, rev |-> 0]
  /\ seq = 0
  /\ bridge = [counted |-> FALSE, seq |-> 0, rev |-> 0]
  /\ queue = <<>>
  /\ co = [c \in Coroutines |-> Silent]
  /\ pc = "over" /\ gen = "none"
  /\ client = [seen |-> {}, rev |-> 0, last |-> "none"]

Says(c, kinds) == co' = [co EXCEPT ![c].out = kinds]
Still          == \A c \in Coroutines : co[c].out = <<>> /\ ~co[c].asks

-----------------------------------------------------------------------------
(* _emit *)

\* Two slips: the write lock is not held, and the number is not stored.
NumberUnlocked(c) ==
  /\ co[c].out # <<>> /\ co[c].num = 0 /\ bridge.counted
  /\ seq' = seq + 1
  /\ co' = [co EXCEPT ![c].num = seq + 1]
  /\ UNCHANGED <<run, bridge, queue, pc, gen, client>>

NumberUnsaved(c) ==
  /\ co[c].out # <<>> /\ bridge.counted
  /\ \A d \in Coroutines : co[d].num = 0
  /\ co' = [co EXCEPT ![c].num = seq + 1]
  /\ UNCHANGED <<run, seq, bridge, queue, pc, gen, client>>

\* next_sequence.  The write lock is released without an await between that and the
\* put into the queue, so no other number is allocated before Put.
Number(c) ==
  /\ co[c].out # <<>> /\ bridge.counted
  /\ \A d \in Coroutines : co[d].num = 0
  /\ seq' = seq + 1
  /\ co' = [co EXCEPT ![c].num = seq + 1]
  /\ UNCHANGED <<run, bridge, queue, pc, gen, client>>

\* A bridge that knows no repository counts by itself.
Put(c) ==
  /\ co[c].out # <<>> /\ (bridge.counted => co[c].num # 0)
  /\ LET n == IF bridge.counted THEN co[c].num ELSE bridge.seq + 1 IN
       /\ bridge' = [bridge EXCEPT !.seq = n]
       /\ queue' = Append(queue, [kind |-> Head(co[c].out), seq |-> n, rev |-> bridge.rev,
                                  counted |-> bridge.counted])
  /\ co' = [co EXCEPT ![c].out = Tail(@), ![c].num = 0]
  /\ UNCHANGED <<run, seq, pc, gen, client>>

\* The database fails.  In the graph, or in a call of its worker, that fails the node
\* and so the run; what raises outside the graph becomes an error event, and an error
\* that cannot be told is suppressed.
EmitFails(c) ==
  /\ co[c].out # <<>> /\ co[c].num = 0 /\ bridge.counted
  /\ pc' = CASE pc \in {"work", "finish"} -> "failing"
             [] pc = "error"             -> "mute"
             [] OTHER                    -> "error"
  /\ co' = [d \in Coroutines |-> IF d = Graph /\ pc' = "error"
                                 THEN [Silent EXCEPT !.out = <<"error">>] ELSE Silent]
  /\ UNCHANGED <<run, seq, bridge, queue, gen, client>>

-----------------------------------------------------------------------------
(* The requests *)

\* A chat creates the run; a chat or a resume continues it when it waits.
Start ==
  /\ gen = "none" /\ run.status \in {"none", "waiting"}
  /\ run.rev <= MaxRev /\ seq <= MaxSeq
  /\ gen' = "open"
  /\ bridge' = [counted |-> FALSE, seq |-> 0, rev |-> 0]
  /\ pc' = IF run.status = "none" THEN "create" ELSE "resume"
  /\ client' = [client EXCEPT !.last = "none"]
  /\ UNCHANGED <<run, seq, queue, co>>

CreateRun ==
  /\ pc = "create"
  /\ run' = [run EXCEPT !.status = "running"]
  /\ bridge' = [bridge EXCEPT !.counted = TRUE]
  /\ Says(Graph, <<"update">>)
  /\ pc' = "opening"
  /\ UNCHANGED <<seq, queue, gen, client>>

\* The engine saves the run and tells of it in one or two events.
SaveAndTell(new, kinds, place) ==
  /\ run' = [new EXCEPT !.rev = @ + 1]
  /\ bridge' = [bridge EXCEPT !.counted = TRUE, !.rev = new.rev + 1]
  /\ Says(Graph, kinds)
  /\ pc' = place
  /\ UNCHANGED <<seq, queue, gen, client>>

CanResume == run.status = "waiting" /\ run.asked

\* The question gets its answer, or is abandoned with the run.
ResumeRun ==
  /\ pc = "resume" /\ CanResume
  /\ \/ SaveAndTell([run EXCEPT !.status = "running", !.asked = FALSE, !.open = FALSE],
                    <<"update">>, "opening")
     \/ SaveAndTell([run EXCEPT !.status = "cancelled", !.asked = FALSE],
                    <<"update">>, "abandoned")

Errs == Says(Graph, <<"error">>) /\ pc' = "error"

\* A slip: the error of an operation is not reported.
ResumeRefusedSilently ==
  /\ pc = "resume" /\ ~CanResume
  /\ pc' = "over"
  /\ UNCHANGED <<run, seq, bridge, queue, co, gen, client>>

\* resume_run raises before it gives the bridge the repository.
ResumeRefused ==
  /\ pc = "resume" /\ ~CanResume
  /\ Errs
  /\ UNCHANGED <<run, seq, bridge, queue, gen, client>>

\* /cancel, or a chat that replaces: of a run nobody drives yet, or any longer.
Cancel ==
  /\ gen = "none" \/ pc = "resume"
  /\ run.status \in {"running", "waiting"}
  /\ run' = [run EXCEPT !.status = "cancelled", !.asked = FALSE, !.rev = @ + 1]
  /\ UNCHANGED <<seq, bridge, queue, co, pc, gen, client>>

-----------------------------------------------------------------------------
(* The graph *)

AtNode  == pc \in {"opening", "work"} /\ Still
Updates == {<<"update">>, <<"update", "update">>}

\* Plan, dispatch, start or close of a step.  A dispatch clears the waiting_context
\* of a question that is still open.
Works ==
  /\ AtNode /\ run.rev < MaxRev
  /\ \E kinds \in Updates :
       SaveAndTell([run EXCEPT !.status = "running", !.asked = FALSE], kinds, "work")

Asks ==
  /\ AtNode /\ run.rev < MaxRev
  /\ SaveAndTell([run EXCEPT !.status = "waiting", !.asked = TRUE, !.open = TRUE],
                 <<"update">>, "work")

\* A slip: a save without an event.
PausesSilently ==
  /\ AtNode /\ run.open /\ run.status = "running"
  /\ SaveAndTell([run EXCEPT !.status = "waiting"], <<>>, "finish")

\* The scheduler pauses the run, or finds it paused, and the graph returns.
Pauses ==
  /\ AtNode /\ run.open /\ run.status = "running"
  /\ SaveAndTell([run EXCEPT !.status = "waiting"], <<"update">>, "finish")

Waits ==
  /\ AtNode /\ run.status = "waiting"
  /\ pc' = "finish"
  /\ UNCHANGED <<run, seq, bridge, queue, co, gen, client>>

Finalizes ==
  /\ AtNode /\ ~run.open
  /\ SaveAndTell([run EXCEPT !.status = "over", !.asked = FALSE], <<"update">>, "finish")

\* A node raises, also when it has told of its last save; the tool calls of its worker
\* are cancelled.
NodeRaises ==
  /\ pc \in {"opening", "work", "finish"} /\ co[Graph].out = <<>>
  /\ pc' = "failing"
  /\ co' = [c \in Coroutines |-> Silent]
  /\ UNCHANGED <<run, seq, bridge, queue, gen, client>>

FailRun ==
  /\ pc = "failing"
  /\ SaveAndTell([run EXCEPT !.status = "over", !.asked = FALSE], <<"update">>, "failed")

\* A query or a save outside the graph fails.  A run that cannot be created is absent,
\* but the bridge knows it and the repository by then.
OperationRaises ==
  /\ pc \in {"create", "resume", "failing", "finish"} /\ Still
  /\ Errs
  /\ run' = IF pc = "create" THEN [run EXCEPT !.status = "absent"] ELSE run
  /\ \E known \in BOOLEAN :
       /\ known => pc # "resume" \/ CanResume
       /\ pc = "create" => known
       /\ bridge' = [bridge EXCEPT !.counted = @ \/ known]
  /\ UNCHANGED <<seq, queue, gen, client>>

-----------------------------------------------------------------------------
(* The tool calls *)

Begins(c) ==
  /\ pc = "work" /\ co[Graph].out = <<>> /\ seq < MaxCall
  /\ co[c].out = <<>> /\ ~co[c].asks
  /\ \/ co' = [co EXCEPT ![c].out = <<"tool", "tool">>, ![c].asks = TRUE]
     \/ Says(c, <<"tool", "tool", "tool", "tool">>)     \* replayed from the ledger
  /\ UNCHANGED <<run, seq, bridge, queue, pc, gen, client>>

\* The answer arrives, or the time is over.
Answered(c) ==
  /\ co[c].asks /\ co[c].out = <<>>
  /\ \E kinds \in {<<"tool", "tool">>, <<>>} :
       co' = [co EXCEPT ![c].out = kinds, ![c].asks = FALSE]
  /\ UNCHANGED <<run, seq, bridge, queue, pc, gen, client>>

-----------------------------------------------------------------------------
(* The end of the stream *)

\* A slip: the status alone decides what the client is told.
FinishByStatus ==
  /\ pc \in {"finish", "failed", "abandoned"} /\ Still
  /\ bridge' = [bridge EXCEPT !.rev = run.rev]
  /\ Says(Graph, IF run.status = "waiting" THEN <<"interrupt", "paused">> ELSE <<"done">>)
  /\ pc' = "last"
  /\ UNCHANGED <<run, seq, queue, gen, client>>

\* _finish_workflow_stream; an abandoned run comes back as it was read.
Finish ==
  /\ pc \in {"finish", "failed", "abandoned"} /\ Still
  /\ bridge' = [bridge EXCEPT !.rev = IF pc = "abandoned" THEN run.rev - 1 ELSE run.rev]
  /\ Says(Graph, IF CanResume THEN <<"interrupt", "paused">> ELSE <<"done">>)
  /\ pc' = "last"
  /\ UNCHANGED <<run, seq, queue, gen, client>>

\* The client drops an event whose number it has seen, and shows an update.
Receives(frame) ==
  client' = IF frame.seq \in client.seen THEN client
            ELSE [seen |-> client.seen \cup {frame.seq},
                  rev  |-> IF frame.kind = "update" THEN frame.rev ELSE client.rev,
                  last |-> frame.kind]

Deliver ==
  /\ gen = "open" /\ queue # <<>>
  /\ Receives(Head(queue))
  /\ queue' = Tail(queue)
  /\ gen' = IF Head(queue).kind \in Ends THEN "closing" ELSE "open"
  /\ UNCHANGED <<run, seq, bridge, co, pc>>

\* The client goes away, or the process stops.
Disconnect ==
  /\ gen = "open"
  /\ gen' = "closing"
  /\ UNCHANGED <<run, seq, bridge, queue, co, pc, client>>

Close ==
  /\ gen = "closing"
  /\ gen' = "none" /\ pc' = "over" /\ queue' = <<>>
  /\ co' = [c \in Coroutines |-> Silent]
  /\ UNCHANGED <<run, seq, bridge, client>>

-----------------------------------------------------------------------------
GraphStep == CreateRun \/ ResumeRun \/ ResumeRefused \/ Works \/ Asks \/ Pauses \/ Waits
               \/ Finalizes \/ FailRun \/ Finish

Emits(c) == Number(c) \/ Put(c)

Next ==
  \/ Start \/ Cancel \/ GraphStep \/ NodeRaises \/ OperationRaises
  \/ \E c \in Coroutines : Emits(c) \/ EmitFails(c)
  \/ \E c \in Calls : Begins(c) \/ Answered(c)
  \/ Deliver \/ Disconnect \/ Close

Spec == Init /\ [][Next]_vars

\* The event loop runs what is ready, queries return, and calls time out; nobody
\* need send a request or go away, and nothing need fail.
FairSpec ==
  /\ Spec
  /\ WF_vars(GraphStep) /\ WF_vars(Deliver) /\ WF_vars(Close)
  /\ \A c \in Coroutines : WF_vars(Emits(c))
  /\ \A c \in Calls : WF_vars(Answered(c))

-----------------------------------------------------------------------------
Frame == [kind : Kind, seq : Nat, rev : Nat, counted : BOOLEAN]

TypeOK ==
  /\ run \in [status : Status, asked : BOOLEAN, open : BOOLEAN, rev : Nat]
  /\ seq \in Nat
  /\ bridge \in [counted : BOOLEAN, seq : Nat, rev : Nat]
  /\ queue \in Seq(Frame)
  /\ co \in [Coroutines -> [out : Seq(Kind), num : 0..seq, asks : BOOLEAN]]
  /\ pc \in {"create", "resume", "opening", "abandoned", "work", "failing", "failed", "finish",
             "last", "error", "mute", "over"}
  /\ gen \in {"none", "open", "closing"}
  /\ client \in [seen : SUBSET (1..(seq + 1)), rev : Nat, last : Kind \cup {"none"}]

\* Events with a number of the run arrive in the order of their numbers, also those of
\* calls that emit at the same time, and after every event of the streams before.
FramesInOrder ==
  \A i \in DOMAIN queue : queue[i].counted =>
    /\ \A j \in DOMAIN queue : i < j => queue[i].seq < queue[j].seq
    /\ \A n \in client.seen : n < queue[i].seq

\* What a stream ends with is so: a pause can be resumed, unless the run has been
\* cancelled since; and a run that works on, or whose question can be answered, is
\* not reported as done.
LastFrameIsTrue ==
  gen = "none" =>
    /\ client.last = "paused" => CanResume \/ run.status = "cancelled"
    /\ client.last = "done"   => run.status # "running" /\ ~CanResume

\* A client that has read a stream to its regular end shows the run as it is.
ClientIsUpToDate ==
  gen = "none" /\ client.last \in {"paused", "done"} =>
    client.rev = run.rev \/ run.status = "cancelled"

\* A stream comes to an end, unless its error cannot be told.
StreamEnds == gen = "open" ~> (gen = "none" \/ pc = "mute")

-----------------------------------------------------------------------------
\* The numbers of a run grow from stream to stream (repository.py), and the client
\* tells an event it knows by its number.
NothingTakenForOld == \A i \in DOMAIN queue : queue[i].seq \notin client.seen
=============================================================================
