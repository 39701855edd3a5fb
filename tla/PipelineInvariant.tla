------------------------- MODULE PipelineInvariant --------------------------
(***************************************************************************)
(* The inductive invariant behind the safety properties of AgentPipeline.  *)
(***************************************************************************)
EXTENDS AgentPipeline

\* Nothing is served, stored or applied before the configuration was accepted.
ServingInv ==
  /\ app = "serving" => ConfigIsGood
  /\ \A r \in Requests : req[r].pc # "unsent" => app = "serving"
  /\ \A u \in RunIds : packs[u] # NoPack => app = "serving"

\* What a handler carries on its way: its run and query, agents that exist, and
\* one accepted answer per call that is behind it.
RequestInv ==
  \A r \in Requests :
    /\ req[r].pc # "unsent" => req[r].run \in RunIds /\ req[r].query \in Queries
    /\ req[r].pc \in {"agents", "unparsed"} => UsesAgents
    /\ req[r].pc = "agents" =>
         \A k \in Calls : k < req[r].call => req[r].answers[k].tools = {ToolOf[k]}

\* A stored pack, its records, and whether anybody had to be asked.
StoredInv ==
  \A u \in RunIds :
    packs[u] # NoPack =>
      /\ ledger[u].query \in Queries
      /\ packs[u].narrative = "none" => ~UsesAgents

PipelineInv ==
  /\ TypeOK
  /\ ServingInv
  /\ RequestInv
  /\ StoredInv
  /\ ControllerDecides
  /\ AgentEvidenceIsAccounted
  /\ DiagnosisIsOfOnePiece
=============================================================================
