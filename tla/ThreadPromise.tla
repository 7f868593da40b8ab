---------------------------- MODULE ThreadPromise ----------------------------
(***************************************************************************)
(* What a thread promises its user: runs come one after another.  A run    *)
(* begins when no other is open, lives until it is over, and what it has   *)
(* left is never touched again.  (WorkflowRepository.find_active_by_thread *)
(* speaks of the one run that is open.)                                    *)
(***************************************************************************)
VARIABLES
  open,  \* the run that is not over, if there is one: its name and its status
  over   \* the runs that are, with what they left

tvars == <<open, over>>

\* A thread is opened by its first run or before it.
TInit ==
  /\ over = {}
  /\ open # {} => \E x \in open : x.status = "planning" /\ open = {x}

Begin ==
  /\ open = {} /\ over' = over
  /\ \E x \in open' :
       /\ open' = {x} /\ x.status = "planning"
       /\ \A o \in over : o.run # x.run

\* A question is asked by a run that has a plan.
Move ==
  /\ over' = over
  /\ \E x \in open, y \in open' :
       /\ open = {x} /\ open' = {y} /\ y.run = x.run
       /\ \/ y.status = "running"
          \/ y.status = "waiting_user" /\ x.status # "planning"

Finish ==
  /\ open' = {}
  /\ \E x \in open, y \in over' :
       /\ open = {x} /\ y.run = x.run
       /\ over' = over \cup {y}

TNext == Begin \/ Move \/ Finish

TSpec == TInit /\ [][TNext]_tvars
=============================================================================
