---------------------------- MODULE MCRunSessions ----------------------------
(***************************************************************************)
(* The habits of clients, for TLC.                                         *)
(***************************************************************************)
EXTENDS SessionClients

\* Three requests about runs of one todo, one of which leaves a run and two meet over
\* it; two about runs of two, or whose second todo is inserted for the first; and two
\* that are sent at any time.
MCHabits ==
  {[requests |-> 3, todos |-> 1, patient |-> TRUE],
   [requests |-> 2, todos |-> 2, patient |-> TRUE],
   [requests |-> 2, todos |-> 1, patient |-> FALSE]}
=============================================================================
