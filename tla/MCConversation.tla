---------------------------- MODULE MCConversation ----------------------------
(***************************************************************************)
(* Values of the constants of Conversation, for TLC.                       *)
(***************************************************************************)
EXTENDS Conversation, TLC

Planned(ref, deps, source) ==
  [ref |-> ref, worker |-> "entity", source |-> source, depends_on |-> deps,
   required |-> TRUE]

User(ref, deps) == Planned(ref, deps, "user_intent")

MCWorkers  == {"scene", "entity"}
MCKeys     == {"scene.opened"}
MCRefs     == {"a", "b"}
MCProvider == [k \in MCKeys |-> {"scene"}]

\* One todo, an independent pair and a chain.
MCDrafts ==
  {<<User("a", {})>>,
   <<User("a", {}), User("b", {})>>,
   <<User("a", {}), User("b", {"a"})>>}

MCReqDrafts == {<<[Planned("a", {}, "requirement") EXCEPT !.worker = "scene"]>>}

Symmetry == Permutations(Tasks)
=============================================================================
