---------------------------- MODULE MCToolBridge ----------------------------
(***************************************************************************)
(* The symmetry of keys, calls and posts, for TLC.                         *)
(***************************************************************************)
EXTENDS ToolBridge, TLC

Symmetry == Permutations(Keys) \cup Permutations(Calls) \cup Permutations(Posts)
=============================================================================
