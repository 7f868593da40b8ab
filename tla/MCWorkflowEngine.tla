-------------------------- MODULE MCWorkflowEngine --------------------------
(***************************************************************************)
(* Values of the constants of WorkflowEngine and its refinement, for TLC.  *)
(***************************************************************************)
EXTENDS EngineProgress, EngineRecord, EngineRefinement

T(ref, worker, source, deps, required) ==
  [ref |-> ref, worker |-> worker, source |-> source, depends_on |-> deps,
   required |-> required]

U(ref, worker, deps) == T(ref, worker, "user_intent", deps, TRUE)
R(ref, worker, deps) == T(ref, worker, "requirement", deps, TRUE)

MCWorkers == {"scene", "entity"}
MCKeys    == {"scene.opened", "entity.created"}
MCRefs    == {"a", "b"}

\* Both facts are provided by both workers: a step may wait for either.
MCProvider == [k \in MCKeys |-> MCWorkers]

\* One todo, an independent pair, a chain, an optional first step, and drafts the
\* validator must refuse.
MCDrafts ==
  {<<U("a", "entity", {})>>,
   <<U("a", "scene", {}), U("b", "entity", {})>>,
   <<U("a", "scene", {}), U("b", "entity", {"a"})>>,
   <<T("a", "scene", "user_intent", {}, FALSE), U("b", "entity", {"a"})>>,
   <<>>,
   <<U("a", "scene", {}), U("a", "entity", {"a"})>>,
   <<U("a", "scene", {"b"}), U("b", "entity", {})>>}

MCReqDrafts ==
  {<<R("a", "scene", {})>>,
   <<R("a", "entity", {})>>,
   <<R("a", "scene", {}), R("b", "scene", {"a"})>>,
   <<R("a", "scene", {"b"})>>,
   <<U("a", "scene", {})>>}
=============================================================================
