---------------------------- MODULE EngineRecord ----------------------------
(***************************************************************************)
(* The workflow engine as the requests of a conversation see it: each node *)
(* makes of the persisted run what RunRecord says, which is what           *)
(* RunSessions lets the node of a request do with the run it has read.     *)
(***************************************************************************)
EXTENDS WorkflowEngine

Record == INSTANCE RunRecord

StateOf(s) ==
  CASE s.status \in Schedulable  -> "open"
    [] s.status = "running"      -> "running"
    [] s.status = "waiting_user" -> "asking"
    [] s.status \in StepTerminal -> "over"

\* The revision is the business of those who save.
Row ==
  [status |-> status, rev |-> 0, step |-> [i \in DOMAIN step |-> StateOf(step[i])],
   waiting |-> waiting.step]

\* Where a request is that drives the graph.
Place ==
  CASE node = "plan"            -> "validate"
    [] node = "expand"          -> "worker"
    [] node = "failing"         -> "fail"
    [] node \in {"end", "lost"} -> "over"
    [] OTHER                    -> node

From(place, to) == Place = place /\ Place' = to

NodeMakes ==
  \/ /\ From("validate", "schedule")
     /\ \E n \in DOMAIN step' : Row' = Record!Planned(Row, n)
  \/ /\ Place = "schedule"
     /\ \E to \in Record!Scheduled(Row) :
          /\ Row' = to.run /\ Place' = to.place
          /\ to.place = "execute" => next' = to.next
  \/ From("execute", "worker") /\ next' = next /\ Row' = Record!Started(Row, next)
  \/ /\ From("worker", "schedule")
     /\ Row' \in Record!Returned(Row, next, 0..(Len(step') - Len(step)))
  \/ /\ From("finalize", "ending") /\ Record!MayDecide(Row)
     /\ \E verdict \in Record!Verdict : Row' = Record!Decided(Row, verdict)
  \/ From("fail", "over") /\ Row' = Record!GivenUp(Row)

\* The graph has told of its last save, a node raises, also then, or the request is
\* dropped.
BreaksOff ==
  /\ Row' = Row
  /\ Place' = "over" \/ (Place' = "fail" /\ Place # "over")

UserMakes ==
  \/ From("over", "schedule") /\ Record!MayResume(Row) /\ Row' = Record!Resumed(Row)
  \/ From("over", "over") /\ Record!IsOpen(Row) /\ Row' = Record!Cancelled(Row)

\* Whatever the planner and the workers answer, the engine does with a run no more than
\* RunSessions, which has the requests race, lets the operations of engine.py do.
KeepsRecord ==
  Row = Record!NewRun /\ [][NodeMakes \/ BreaksOff \/ UserMakes]_<<Row, Place>>
=============================================================================
