---------------------------- MODULE AgentPipeline ----------------------------
(***************************************************************************)
(* How POST /run obtains its diagnosis: the three split agents of the      *)
(* Vertex AI Agent Engine are asked for four tool responses, one after the *)
(* other; what they say is taken apart, checked and put into a pack by the *)
(* deterministic controller, which diagnoses by itself when the answers    *)
(* cannot be used.                                                         *)
(*                                                                         *)
(* One instance of the API serves several requests, possibly of one run.   *)
(* A request gives up the event loop where it awaits an agent or an        *)
(* explain; everything from the last answer to the stored pack happens in  *)
(* one go.  The agents are external: a language model decides which tools  *)
(* are called and with which query, so any stream of parts may come back.  *)
(***************************************************************************)
EXTENDS Naturals, Sequences

CONSTANTS
  None,
  Malformed,   \* evidence that is there and that the schema refuses
  Resources,   \* names of deployed agents
  Requests,    \* requests to POST /run
  RunIds,
  Queries,
  Indexes,
  IndexOf,     \* the ESR index of each query
  Streams      \* the streams of parts an agent may answer with

Roles == {"diagnose", "candidate", "rationale"}
Tools == {"explain_slow_query", "compare_candidate_indexes", "diagnose_candidate",
          "rationalize_recommendation"}

\* The calls in their order: the role that is asked, and the tool it must run.
Calls == 1 .. 4
ToolOf == <<"explain_slow_query", "compare_candidate_indexes", "diagnose_candidate",
            "rationalize_recommendation">>
RoleOf == <<"diagnose", "candidate", "diagnose", "rationale">>

-----------------------------------------------------------------------------
(* What an agent's answer carries.                                         *)

\* The fields of a tool response that the controller looks at.
Payload == [before : Queries \cup {None, Malformed},  \* evidence, by the query it is of
            index  : Indexes \cup {None},             \* a well-formed index specification
            text   : BOOLEAN]                         \* a rationale
Bare == [before |-> None, index |-> None, text |-> FALSE]

\* A part of a stream: text, or the response of a tool, whose payload is
\* dropped unless it is an object.
Part == [tool : Tools \cup {None}, payload : Payload \cup {None}]

ASSUME PipelineAssumption ==
  /\ IndexOf \in [Queries -> Indexes]
  /\ Streams \subseteq Seq(Part)
  /\ None \notin Queries \cup Indexes \cup Resources \cup Tools \cup Payload
  /\ Malformed \notin Queries \cup {None}

\* What each tool returns when the agent runs it with query q.
ToolPayload(tool, q) ==
  CASE tool = "explain_slow_query" -> [Bare EXCEPT !.before = q]
    [] tool = "compare_candidate_indexes" -> Bare
    [] tool = "diagnose_candidate" -> [Bare EXCEPT !.before = q, !.index = IndexOf[q]]
    [] tool = "rationalize_recommendation" -> [Bare EXCEPT !.index = IndexOf[q], !.text = TRUE]

\* The parts that hold a tool response.
Responses(parts) == {i \in DOMAIN parts : parts[i].tool # None /\ parts[i].payload # None}

\* Mutation: a response of another tool is tolerated.
IsOnlyResponse_Tolerant(parts, tool, i) ==
  {j \in Responses(parts) : parts[j].tool = tool} = {i}

\* Part i is the one response in the stream, and it is of the tool asked for.
IsOnlyResponse(parts, tool, i) ==
  /\ {j \in Responses(parts) : parts[j].tool = tool} = {i}
  /\ \A j \in Responses(parts) : parts[j].tool = tool

\* The accepted answers of the four calls.
Answer == [tools : SUBSET Tools, payload : Payload]
NoAnswer == [tools |-> {}, payload |-> Bare]

\* The before-evidence: that of the explain, else that of the diagnosis.
BeforeOf(answers) ==
  IF answers[1].payload.before # None THEN answers[1].payload.before
                                      ELSE answers[3].payload.before

\* The proposed index: that of the rationale, else that of the diagnosis.
ProposedIndexOf(answers) ==
  IF answers[4].payload.index # None THEN answers[4].payload.index
                                     ELSE answers[3].payload.index

NarrativeOf(answers) == IF answers[4].payload.text THEN "rationale" ELSE "agent_text"

-----------------------------------------------------------------------------
(* The pack, as far as its diagnosis goes.                                 *)

Evidence == [query : Queries, by : {"agent", "controller"}]

Pack == [before     : Evidence,
         index      : Indexes,                          \* the recommendation
         validation : {"none", "ok", "drift"},          \* of the agents' proposal
         narrative  : {"none", "rationale", "agent_text", "agent_failed"},
         agents     : [Calls -> Resources \cup {None}]] \* trace: who ran which tool
NoPack == [validation |-> "no pack"]
NoAgents == [k \in Calls |-> None]

\* The event the controller adds on the agents' proposal.
Validation(proposed, deterministic) == IF proposed = deterministic THEN "ok" ELSE "drift"

\* Mutation: an index the agents propose is recommended.
AgentPack_Trusting(q, answers, agents) ==
  LET proposed == ProposedIndexOf(answers) IN
  [before     |-> [query |-> BeforeOf(answers), by |-> "agent"],
   index      |-> IF proposed # None THEN proposed ELSE IndexOf[q],
   validation |-> Validation(proposed, IndexOf[q]),
   narrative  |-> NarrativeOf(answers),
   agents     |-> agents]

\* The pack run_agent_diagnosis builds for query q.
AgentPack(q, answers, agents) ==
  [before     |-> [query |-> BeforeOf(answers), by |-> "agent"],
   index      |-> IndexOf[q],
   validation |-> Validation(ProposedIndexOf(answers), IndexOf[q]),
   narrative  |-> NarrativeOf(answers),
   agents     |-> agents]

\* Mutation: the fallback keeps what the agents did deliver.
ControllerPack_KeepsBefore(q, answers, asked) ==
  [before     |-> IF BeforeOf(answers) \in Queries
                  THEN [query |-> BeforeOf(answers), by |-> "agent"]
                  ELSE [query |-> q, by |-> "controller"],
   index      |-> IndexOf[q],
   validation |-> IF asked THEN Validation(None, IndexOf[q]) ELSE "none",
   narrative  |-> IF asked THEN "agent_failed" ELSE "none",
   agents     |-> NoAgents]

\* The pack run_diagnosis builds for q; the advisor of a failed agent proposes
\* no index.
ControllerPack(q, answers, asked) ==
  [before     |-> [query |-> q, by |-> "controller"],
   index      |-> IndexOf[q],
   validation |-> IF asked THEN Validation(None, IndexOf[q]) ELSE "none",
   narrative  |-> IF asked THEN "agent_failed" ELSE "none",
   agents     |-> NoAgents]

-----------------------------------------------------------------------------
VARIABLES
  env,     \* the environment the instance is started in
  app,     \* "starting", "serving" or "failed"
  req,     \* each request: where its handler is and what it carries
  ledger,  \* per run: the query and the source of its diagnosis records
  packs,   \* dbre_state.evidence_packs
  fixes    \* history: what approvals applied

vars == <<env, app, req, ledger, packs, fixes>>

\* The resource of each role, the legacy AGENT_ENGINE_RESOURCE, and the two
\* secrets of the mutating endpoints; MONGO_SECRET_NAME makes it production.
Environment == [production : BOOLEAN,
                split      : [Roles -> Resources \cup {None}],
                legacy     : BOOLEAN,
                secrets    : BOOLEAN]

Steps == {"unsent", "agents", "unparsed", "explain", "answered", "failed", "raised"}
Request == [pc      : Steps,
            run     : RunIds \cup {None},
            query   : Queries \cup {None},
            call    : 1 .. 5,                         \* the next call of the agents
            answers : [Calls -> Answer],
            pack    : Pack \cup {NoPack}]
Unsent == [pc |-> "unsent", run |-> None, query |-> None, call |-> 1,
           answers |-> [k \in Calls |-> NoAnswer], pack |-> NoPack]

Label == [query : Queries, source : {"agent_engine_tool", "deterministic_esr"}]
NoLabel == [query |-> None, source |-> "none"]

\* An index that was created, and the query its run was asked to diagnose.
Fix == [index : Indexes, asked : Queries]

Configured == {ro \in Roles : env.split[ro] # None}
Distinct == \A r1, r2 \in Roles : env.split[r1] = env.split[r2] => r1 = r2

\* Mutation: the agents need not be distinct.
ConfigIsGood_Shared ==
  /\ env.production => env.secrets /\ ~env.legacy /\ Configured = Roles
  /\ Configured = {} \/ Configured = Roles

\* What create_app and diagnosis_agent_from_env accept: no agent at all, outside
\* production, or three distinct ones.
ConfigIsGood ==
  /\ env.production => env.secrets /\ ~env.legacy /\ Configured = Roles
  /\ Configured = {} \/ (Configured = Roles /\ Distinct)

UsesAgents == Configured = Roles

-----------------------------------------------------------------------------
Init ==
  /\ env \in Environment
  /\ app = "starting"
  /\ req = [r \in Requests |-> Unsent]
  /\ ledger = [u \in RunIds |-> NoLabel]
  /\ packs = [u \in RunIds |-> NoPack]
  /\ fixes = {}

\* create_app: the instance serves, or does not come up.
Boot ==
  /\ app = "starting"
  /\ app' = IF ConfigIsGood THEN "serving" ELSE "failed"
  /\ UNCHANGED <<env, req, ledger, packs, fixes>>

\* POST /run, up to the first await.
Receive(r, u, q) ==
  /\ app = "serving"
  /\ req[r] = Unsent
  /\ req' = [req EXCEPT ![r] = [Unsent EXCEPT !.pc = IF UsesAgents THEN "agents" ELSE "explain",
                                              !.run = u, !.query = q]]
  /\ UNCHANGED <<env, app, ledger, packs, fixes>>

\* run_tool: the agent's stream has the one response it was asked for.
AgentAnswers(r, parts, i) ==
  LET k == req[r].call IN
  /\ req[r].pc = "agents"
  /\ k \in Calls
  /\ IsOnlyResponse(parts, ToolOf[k], i)
  /\ req' = [req EXCEPT ![r] = [@ EXCEPT
       !.call = k + 1,
       !.answers[k] = [tools |-> {parts[j].tool : j \in Responses(parts)},
                       payload |-> parts[i].payload]]]
  /\ UNCHANGED <<env, app, ledger, packs, fixes>>

\* run_tool: AgentDiagnosisParseError, caught by the live engine.
AgentUnparsed(r, parts) ==
  /\ req[r].pc = "agents"
  /\ req[r].call \in Calls
  /\ \A i \in DOMAIN parts : ~IsOnlyResponse(parts, ToolOf[req[r].call], i)
  /\ req' = [req EXCEPT ![r].pc = "unparsed"]
  /\ UNCHANGED <<env, app, ledger, packs, fixes>>

\* Any other error of the call is not caught: the request ends in 500.
AgentRaises(r) ==
  /\ req[r].pc = "agents"
  /\ req[r].call \in Calls
  /\ req' = [req EXCEPT ![r].pc = "raised"]
  /\ UNCHANGED <<env, app, ledger, packs, fixes>>

\* The four answers hold no usable evidence: also an AgentDiagnosisParseError.
AnswersUnusable(r) ==
  /\ req[r].pc = "agents"
  /\ req[r].call = 5
  /\ BeforeOf(req[r].answers) \notin Queries
  /\ req' = [req EXCEPT ![r].pc = "unparsed"]
  /\ UNCHANGED <<env, app, ledger, packs, fixes>>

\* Mutation: the records are labelled by what is configured.
Finish_Label(r, p) ==
  /\ req' = [req EXCEPT ![r] = [@ EXCEPT !.pc = "answered", !.pack = p]]
  /\ packs' = [packs EXCEPT ![req[r].run] = p]
  /\ ledger' = [ledger EXCEPT ![req[r].run] =
                  [query |-> req[r].query,
                   source |-> IF UsesAgents THEN "agent_engine_tool" ELSE "deterministic_esr"]]
  /\ UNCHANGED <<env, app, fixes>>

\* The pack is built, recorded, stored and returned.
Finish(r, p) ==
  /\ req' = [req EXCEPT ![r] = [@ EXCEPT !.pc = "answered", !.pack = p]]
  /\ packs' = [packs EXCEPT ![req[r].run] = p]
  /\ ledger' = [ledger EXCEPT ![req[r].run] =
                  [query |-> req[r].query,
                   source |-> IF p.before.by = "agent" THEN "agent_engine_tool"
                                                       ELSE "deterministic_esr"]]
  /\ UNCHANGED <<env, app, fixes>>

\* run_agent_diagnosis after the agents have answered.
DiagnosisFromAgents(r) ==
  /\ req[r].pc = "agents"
  /\ req[r].call = 5
  /\ BeforeOf(req[r].answers) \in Queries
  /\ Finish(r, AgentPack(req[r].query, req[r].answers, [k \in Calls |-> env.split[RoleOf[k]]]))

\* The live engine falls back to run_diagnosis.
FallBack(r) ==
  /\ req[r].pc = "unparsed"
  /\ req' = [req EXCEPT ![r].pc = "explain"]
  /\ UNCHANGED <<env, app, ledger, packs, fixes>>

\* run_diagnosis: the controller's own explain is back.
DiagnosisFromExplain(r) ==
  /\ req[r].pc = "explain"
  /\ Finish(r, ControllerPack(req[r].query, req[r].answers, UsesAgents))

ExplainRaises(r) ==
  /\ req[r].pc = "explain"
  /\ req' = [req EXCEPT ![r].pc = "failed"]
  /\ UNCHANGED <<env, app, ledger, packs, fixes>>

\* An approval of the pack that is stored: its index is created.
Approve(u) ==
  /\ packs[u] # NoPack
  /\ fixes' = fixes \cup {[index |-> packs[u].index, asked |-> ledger[u].query]}
  /\ UNCHANGED <<env, app, req, ledger, packs>>

Proceed(r) ==
  \/ \E u \in RunIds, q \in Queries : Receive(r, u, q)
  \/ \E parts \in Streams : \/ \E i \in DOMAIN parts : AgentAnswers(r, parts, i)
                            \/ AgentUnparsed(r, parts)
  \/ AgentRaises(r)
  \/ AnswersUnusable(r)
  \/ DiagnosisFromAgents(r)
  \/ FallBack(r)
  \/ DiagnosisFromExplain(r)
  \/ ExplainRaises(r)

Next ==
  \/ Boot
  \/ \E r \in Requests : Proceed(r)
  \/ \E u \in RunIds : Approve(u)

Spec == Init /\ [][Next]_vars

-----------------------------------------------------------------------------
(* Properties.                                                             *)

\* The type invariant of the pipeline.
TypeOK ==
  /\ env \in Environment
  /\ app \in {"starting", "serving", "failed"}
  /\ req \in [Requests -> Request]
  /\ ledger \in [RunIds -> Label \cup {NoLabel}]
  /\ packs \in [RunIds -> Pack \cup {NoPack}]
  /\ fixes \subseteq Fix

Answered == {r \in Requests : req[r].pc = "answered"}

\* Whatever the agents answer, and whichever request of a run is served last,
\* the stored pack recommends the index that the ESR rule derives from the query
\* its ledger records name, and that index is the one an approval applies
\* (run_agent_diagnosis, run_diagnosis, write_diagnosis_records).
ControllerDecides ==
  /\ \A u \in RunIds : packs[u] # NoPack => packs[u].index = IndexOf[ledger[u].query]
  /\ \A f \in fixes : f.index = IndexOf[f.asked]

\* What the pack of an answered request says of who made it, and how.
Accounted(r) ==
  LET p == req[r].pack
      a == req[r].answers
  IN p.before.by = "agent" =>
       /\ \A k \in Calls : a[k].tools = {ToolOf[k]}
       /\ a[1].payload.before \in {None, p.before.query}
       /\ p.before.query \in {a[1].payload.before, a[3].payload.before}
       /\ p.validation = "ok" => IndexOf[req[r].query] \in {a[4].payload.index, a[3].payload.index}
       /\ \A j, k \in Calls : p.agents[j] = p.agents[k] <=> RoleOf[j] = RoleOf[k]

OfOnePiece(r) ==
  LET p == req[r].pack IN
  IF p.before.by = "agent"
  THEN /\ \A k \in Calls : p.agents[k] \in Resources
       /\ p.narrative \in {"rationale", "agent_text"}
       /\ p.validation # "none"
  ELSE /\ p.before.query = req[r].query
       /\ p.agents = NoAgents
       /\ p.narrative = IF UsesAgents THEN "agent_failed" ELSE "none"
       /\ p.validation # "ok"

\* Evidence of the agents is used only when each of the four calls was answered
\* by exactly the tool it asked for, the explain's evidence outranks the
\* diagnosis', and the trace then names the three agents as they are deployed
\* (run_tool, _before_from_payload, AgentEngineDiagnosisPipeline.diagnose).
AgentEvidenceIsAccounted == \A r \in Answered : Accounted(r)

\* A diagnosis is of one piece: evidence, narrative, validation event, agent
\* trace and ledger source all say that the agents made it, or all say that the
\* controller did, for its own query; nothing is left over from an attempt that
\* was given up or from another request of the run (_LiveEngine.diagnose).
DiagnosisIsOfOnePiece ==
  /\ \A r \in Answered : OfOnePiece(r)
  /\ \A u \in RunIds :
       packs[u] # NoPack =>
         (packs[u].before.by = "agent" <=> ledger[u].source = "agent_engine_tool")

\* An instance that serves runs in production has its secrets and three distinct
\* agents, no legacy one, and no pack of it was made without asking them
\* (create_app, from_env, diagnosis_agent_from_env).
FailsClosed ==
  app = "serving" /\ env.production =>
    /\ env.secrets /\ ~env.legacy
    /\ \A r1, r2 \in Roles : env.split[r1] \in Resources
                             /\ (env.split[r1] = env.split[r2] => r1 = r2)
    /\ \A u \in RunIds : packs[u] # NoPack => packs[u].narrative # "none"

-----------------------------------------------------------------------------
(* What the comments claim and the code does not do.                       *)

\* "Fallback keeps a transient Vertex error from failing the run" (server.py):
\* no request ends because a call of an agent raised.
TransientErrorSurvived == \A r \in Requests : req[r].pc # "raised"
=============================================================================
