-------------------------- MODULE MCAgentPipeline --------------------------
(* Instances of AgentPipeline for TLC.                                     *)
EXTENDS PipelineInvariant, TLC

CONSTANTS qa, qb, xa, xb

OwnIndexes == (qa :> xa) @@ (qb :> xb)

\* Payloads of each tool: run with either query, with no field the controller
\* reads (an error of the tool), and with evidence the schema refuses.
PayloadsOf(tool) ==
  {ToolPayload(tool, q) : q \in Queries} \cup {Bare}
    \cup IF tool \in {"explain_slow_query", "diagnose_candidate"}
         THEN {[Bare EXCEPT !.before = Malformed]} ELSE {}

Text == [tool |-> None, payload |-> None]
PartsOf(tool) == [tool : {tool}, payload : PayloadsOf(tool) \cup {None}]

\* A text and one response; two responses of one tool; responses of two tools.
SomeStreams ==
  {<<>>, <<Text>>}
    \cup {<<Text, p>> : p \in UNION {PartsOf(t) : t \in Tools}}
    \cup {<<[tool |-> t1, payload |-> ToolPayload(t1, qa)],
            [tool |-> t2, payload |-> ToolPayload(t2, qb)]>> : t1, t2 \in Tools}

Symmetry == Permutations(Requests) \cup Permutations(Resources)
=============================================================================
