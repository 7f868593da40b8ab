---------------------------- MODULE MCWorkerStep ----------------------------
(***************************************************************************)
(* The symmetry of the steps, for TLC.                                     *)
(***************************************************************************)
EXTENDS WorkerStep, TLC

Symmetry == Permutations(Steps)
=============================================================================
