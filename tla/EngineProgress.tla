--------------------------- MODULE EngineProgress ---------------------------
(***************************************************************************)
(* Why the workflow graph comes to an end (workflow/engine.py), whatever   *)
(* the planner and the workers answer: what every node but the first two   *)
(* makes smaller.  The order is lexicographic, the least depth first: a    *)
(* step at work is closed, is left to the user, or has used up one more of *)
(* the requirements it may have, and todos are only added further down.    *)
(* No bound of the model is needed, as MaxSteps is for TLC.                *)
(***************************************************************************)
EXTENDS EngineInvariant

\* The steps as the node at work has them.
InMemory == IF node = "expand" THEN work.step ELSE step

\* What the steps at a depth may still do without the user: each one that is open may
\* be closed, and before that meet each requirement once.
Left(s, depth) ==
  {x \in (DOMAIN s) \X (Keys \cup {NoKey}) :
     /\ s[x[1]].depth = depth
     /\ s[x[1]].status \notin StepTerminal \cup {"waiting_user"}
     /\ x[2] \notin s[x[1]].expanded}

\* Nothing more is left at depths 0, 1, ... up to a depth than there was, and less at it.
LessLeft(s, t) ==
  \E depth \in 0..MaxDepth :
    /\ Left(t, depth) # Left(s, depth)
    /\ \A e \in 0..depth : Left(t, e) \subseteq Left(s, e)

NoMoreLeft(s, t) == \A depth \in 0..MaxDepth : Left(t, depth) \subseteq Left(s, depth)

\* How far the graph is from the next step that is closed, or from its end.
Distance ==
  CASE node = "expand" -> IF work.reqs = <<>> THEN 6 ELSE 2
    [] node = "schedule" -> 5
    [] node = "execute"  -> 4
    [] node = "worker"   -> 3
    [] node = "finalize" -> 2
    [] node \in {"ending", "failing"} -> 1
    [] OTHER -> 0

\* Every node ends the graph, fails the run, leaves less to do, or comes nearer to one
\* of these: the graph cannot go on for ever, not even with a worker that always asks
\* for more.
GraphDescends ==
  [][Graph /\ node \notin {"plan", "validate"} =>
       /\ node' \notin {"plan", "validate"}
       /\ \/ node' = "end"
          \/ node' = "failing" /\ node # "failing"
          \/ node' = "ending" /\ node \notin {"ending", "failing"}
          \/ LessLeft(InMemory, InMemory')
          \/ NoMoreLeft(InMemory, InMemory') /\ Distance' < Distance]_vars

\* Requirements of requirements stop at _MAX_DEPENDENCY_DEPTH.
DepthBounded ==
  \A i \in DOMAIN InMemory : InMemory[i].depth \in 0..MaxDepth

\* The walk of decide over the list comes to one result, whatever the run: the steps it
\* blocks are determined, and then either a step is dispatched or there is none.
ScheduleDecides ==
  node = "schedule" =>
    \E B \in SUBSET DOMAIN plan :
      /\ \A C \in SUBSET DOMAIN plan : IsBlockedSet(plan, step, C) <=> C = B
      /\ \/ NothingToDispatch(Block(plan, step, B))
         \/ \E k \in DOMAIN plan : IsFirstDispatchable(plan, Block(plan, step, B), k)
=============================================================================
