---------------------------- MODULE MCAgentThread ----------------------------
(***************************************************************************)
(* Values of the constants of AgentThread for TLC: a skill that governs    *)
(* two of the tools or one, that governs none, and files that are refused. *)
(***************************************************************************)
EXTENDS AgentThread

MCTools    == {"open", "delete"}
MCContents ==
  {NoFile,
   [tools |-> {"open", "delete"}, required |-> TRUE],
   [tools |-> {"delete"}, required |-> TRUE],
   [tools |-> {"open"}, required |-> FALSE],
   [tools |-> {}, required |-> TRUE]}
=============================================================================
