---------------------------- MODULE MCEventStream ----------------------------
(***************************************************************************)
(* Values of the constants of EventStream for TLC.                         *)
(***************************************************************************)
EXTENDS EventStream
=============================================================================
