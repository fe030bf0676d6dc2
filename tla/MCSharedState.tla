---------------------------- MODULE MCSharedState ----------------------------
(***************************************************************************)
(* A small instance of SharedState: a spec file without templates, one of  *)
(* two, and one with an id of its own, a key named twice and a null id.    *)
(***************************************************************************)
EXTENDS SharedState

Entry(key, id) == [key |-> key, id |-> id]
MCSpecFiles ==
  { <<>>,
    <<Entry("codex", Absent), Entry("ollama", Absent)>>,
    <<Entry("codex", 2), Entry("ollama", Absent), Entry("ollama", NoId)>> }
=============================================================================
