------------------------ MODULE AgentPipeline_proofs ------------------------
(***************************************************************************)
(* The safety properties of AgentPipeline, for any number of requests and  *)
(* runs, any queries, and whatever streams of parts the agents answer.     *)
(***************************************************************************)
EXTENDS PipelineInvariant, TLAPS

USE PipelineAssumption

-----------------------------------------------------------------------------
(* What the operators return.                                              *)

LEMMA CallsAreRoles ==
  /\ \A k \in Calls : ToolOf[k] \in Tools /\ RoleOf[k] \in Roles
  /\ Calls = 1 .. 4
BY DEF Calls, ToolOf, RoleOf, Tools, Roles

LEMMA NoPackIsNone == NoPack \notin Pack
<1>1. \A p \in Pack : p.validation \in {"none", "ok", "drift"}
  BY DEF Pack
<1>2. NoPack.validation = "no pack"
  BY DEF NoPack
<1> QED
  BY <1>1, <1>2

\* An accepted stream has one tool's responses, and its payload is an object.
LEMMA AcceptedStream ==
  ASSUME NEW parts \in Streams, NEW i \in DOMAIN parts, NEW tool \in Tools,
         IsOnlyResponse(parts, tool, i)
  PROVE  /\ {parts[j].tool : j \in Responses(parts)} = {tool}
         /\ parts[i].payload \in Payload
<1>1. parts \in Seq(Part)
  OBVIOUS
<1>2. i \in Responses(parts) /\ \A j \in Responses(parts) : parts[j].tool = tool
  BY DEF IsOnlyResponse
<1>3. parts[i] \in Part
  BY <1>1
<1>4. parts[i].payload \in Payload
  BY <1>2, <1>3 DEF Responses, Part
<1> QED
  BY <1>2, <1>4

LEMMA AnswersHold ==
  ASSUME NEW answers \in [Calls -> Answer]
  PROVE  /\ BeforeOf(answers) \in Queries \cup {None, Malformed}
         /\ ProposedIndexOf(answers) \in Indexes \cup {None}
         /\ NarrativeOf(answers) \in {"rationale", "agent_text"}
<1>1. /\ answers[1].payload \in Payload /\ answers[3].payload \in Payload
      /\ answers[4].payload \in Payload
  BY CallsAreRoles DEF Answer
<1> QED
  BY <1>1 DEF BeforeOf, ProposedIndexOf, NarrativeOf, Payload

\* The pack made of the agents' answers.
LEMMA AgentPackHolds ==
  ASSUME NEW q \in Queries, NEW answers \in [Calls -> Answer], BeforeOf(answers) \in Queries,
         NEW agents \in [Calls -> Resources \cup {None}]
  PROVE  LET p == AgentPack(q, answers, agents) IN
         /\ p \in Pack
         /\ p.index = IndexOf[q]
         /\ p.before = [query |-> BeforeOf(answers), by |-> "agent"]
         /\ p.narrative \in {"rationale", "agent_text"}
         /\ p.validation = Validation(ProposedIndexOf(answers), IndexOf[q])
         /\ p.validation \in {"ok", "drift"}
         /\ p.agents = agents
<1>1. Validation(ProposedIndexOf(answers), IndexOf[q]) \in {"ok", "drift"}
  BY DEF Validation
<1> QED
  BY <1>1, AnswersHold DEF AgentPack, Pack, Evidence

\* The pack the controller makes by itself.
LEMMA ControllerPackHolds ==
  ASSUME NEW q \in Queries, NEW answers, NEW asked \in BOOLEAN
  PROVE  LET p == ControllerPack(q, answers, asked) IN
         /\ p \in Pack
         /\ p.index = IndexOf[q]
         /\ p.before = [query |-> q, by |-> "controller"]
         /\ p.narrative = IF asked THEN "agent_failed" ELSE "none"
         /\ p.validation \in {"none", "drift"}
         /\ p.agents = NoAgents
<1>1. IndexOf[q] \in Indexes /\ IndexOf[q] # None
  OBVIOUS
<1>2. Validation(None, IndexOf[q]) = "drift"
  BY <1>1 DEF Validation
<1>3. NoAgents \in [Calls -> Resources \cup {None}]
  BY DEF NoAgents
<1> QED
  BY <1>1, <1>2, <1>3 DEF ControllerPack, Pack, Evidence

-----------------------------------------------------------------------------
(* Types.                                                                  *)

LEMMA UnsentIsARequest == Unsent \in Request
BY CallsAreRoles DEF Unsent, Request, Steps, NoAnswer, Answer, Bare, Payload

LEMMA TypeInit == Init => TypeOK
BY UnsentIsARequest DEF Init, TypeOK

\* A pack that is finished is stored with its records.
LEMMA FinishTypes ==
  ASSUME TypeOK, NEW r \in Requests, NEW p \in Pack, Finish(r, p),
         req[r].run \in RunIds, req[r].query \in Queries
  PROVE  TypeOK'
<1> DEFINE done == [req[r] EXCEPT !.pc = "answered", !.pack = p]
<1>a. req[r] \in Request
  BY DEF TypeOK
<1>b. done \in Request
  BY <1>a DEF Request, Steps
<1>c. req' = [req EXCEPT ![r] = done]
  BY DEF Finish
<1> HIDE DEF done
<1>1. req' \in [Requests -> Request]
  BY <1>b, <1>c DEF TypeOK
<1>2. packs' \in [RunIds -> Pack \cup {NoPack}]
  BY DEF Finish, TypeOK
<1>3. ledger' \in [RunIds -> Label \cup {NoLabel}]
  BY DEF Finish, TypeOK, Label
<1> QED
  BY <1>1, <1>2, <1>3 DEF Finish, TypeOK

\* A handler that only moves on.
LEMMA StepTypes ==
  ASSUME TypeOK, NEW r \in Requests, NEW pc \in Steps,
         req' = [req EXCEPT ![r].pc = pc], UNCHANGED <<env, app, ledger, packs, fixes>>
  PROVE  TypeOK'
<1> DEFINE moved == [req[r] EXCEPT !.pc = pc]
<1>a. req[r] \in Request
  BY DEF TypeOK
<1>b. moved \in Request
  BY <1>a DEF Request
<1>c. req' = [req EXCEPT ![r] = moved]
  OBVIOUS
<1> HIDE DEF moved
<1>1. req' \in [Requests -> Request]
  BY <1>b, <1>c DEF TypeOK
<1> QED
  BY <1>1 DEF TypeOK

LEMMA TypeNext == TypeOK /\ RequestInv /\ StoredInv /\ [Next]_vars => TypeOK'
<1> SUFFICES ASSUME TypeOK, RequestInv, StoredInv, [Next]_vars
             PROVE  TypeOK'
  OBVIOUS
<1>1. CASE Boot
  BY <1>1 DEF Boot, TypeOK
<1>2. ASSUME NEW r \in Requests, NEW u \in RunIds, NEW q \in Queries, Receive(r, u, q)
      PROVE  TypeOK'
  <2>1. [Unsent EXCEPT !.pc = IF UsesAgents THEN "agents" ELSE "explain",
                       !.run = u, !.query = q] \in Request
    BY UnsentIsARequest DEF Request, Steps
  <2> QED
    BY <1>2, <2>1 DEF Receive, TypeOK
<1>3. ASSUME NEW r \in Requests, NEW parts \in Streams, NEW i \in DOMAIN parts,
             AgentAnswers(r, parts, i)
      PROVE  TypeOK'
  <2>1. req[r].call \in Calls /\ req[r] \in Request /\ req[r].call + 1 \in 1 .. 5
    BY <1>3, CallsAreRoles DEF AgentAnswers, TypeOK
  <2> DEFINE answer == [tools |-> {parts[j].tool : j \in Responses(parts)},
                        payload |-> parts[i].payload]
             heard == [req[r] EXCEPT !.call = req[r].call + 1, !.answers[req[r].call] = answer]
  <2>2. ToolOf[req[r].call] \in Tools /\ IsOnlyResponse(parts, ToolOf[req[r].call], i)
    BY <1>3, <2>1, CallsAreRoles DEF AgentAnswers
  <2>3. /\ {parts[j].tool : j \in Responses(parts)} = {ToolOf[req[r].call]}
        /\ parts[i].payload \in Payload
    BY <2>2, AcceptedStream
  <2>4. answer \in Answer
    BY <2>2, <2>3 DEF Answer
  <2>5. req' = [req EXCEPT ![r] = heard]
    BY <1>3 DEF AgentAnswers
  <2> HIDE DEF answer
  <2>6. heard \in Request
    BY <2>1, <2>4 DEF Request
  <2> HIDE DEF heard
  <2> QED
    BY <1>3, <2>5, <2>6 DEF AgentAnswers, TypeOK
<1>4. ASSUME NEW r \in Requests,
             (\E parts \in Streams : AgentUnparsed(r, parts)) \/ AgentRaises(r) \/ AnswersUnusable(r) \/ FallBack(r)
               \/ ExplainRaises(r)
      PROVE  TypeOK'
  <2>1. \E pc \in Steps : req' = [req EXCEPT ![r].pc = pc]
    BY <1>4 DEF AgentUnparsed, AgentRaises, AnswersUnusable, FallBack, ExplainRaises, Steps
  <2>2. UNCHANGED <<env, app, ledger, packs, fixes>>
    BY <1>4 DEF AgentUnparsed, AgentRaises, AnswersUnusable, FallBack, ExplainRaises
  <2> QED
    BY <2>1, <2>2, StepTypes
<1>5. ASSUME NEW r \in Requests, DiagnosisFromAgents(r)
      PROVE  TypeOK'
  <2> DEFINE agents == [k \in Calls |-> env.split[RoleOf[k]]]
  <2>1. req[r].run \in RunIds /\ req[r].query \in Queries /\ req[r].answers \in [Calls -> Answer]
    BY <1>5 DEF DiagnosisFromAgents, RequestInv, TypeOK, Request
  <2>2. agents \in [Calls -> Resources \cup {None}]
    BY CallsAreRoles DEF TypeOK, Environment
  <2> HIDE DEF agents
  <2>3. BeforeOf(req[r].answers) \in Queries /\ Finish(r, AgentPack(req[r].query, req[r].answers, agents))
    BY <1>5 DEF DiagnosisFromAgents, agents
  <2>4. AgentPack(req[r].query, req[r].answers, agents) \in Pack
    BY <2>1, <2>2, <2>3, AgentPackHolds
  <2> QED
    BY <2>1, <2>3, <2>4, FinishTypes
<1>6. ASSUME NEW r \in Requests, DiagnosisFromExplain(r)
      PROVE  TypeOK'
  <2>1. req[r].run \in RunIds /\ req[r].query \in Queries
    BY <1>6 DEF DiagnosisFromExplain, RequestInv
  <2>2. ControllerPack(req[r].query, req[r].answers, UsesAgents) \in Pack
    BY <2>1, ControllerPackHolds DEF UsesAgents
  <2> QED
    BY <1>6, <2>1, <2>2, FinishTypes DEF DiagnosisFromExplain
<1>7. ASSUME NEW u \in RunIds, Approve(u)
      PROVE  TypeOK'
  <2>1. packs[u].index \in Indexes /\ ledger[u].query \in Queries
    BY <1>7 DEF Approve, StoredInv, TypeOK, Pack
  <2>2. [index |-> packs[u].index, asked |-> ledger[u].query] \in Fix
    BY <2>1 DEF Fix
  <2> QED
    BY <1>7, <2>2 DEF Approve, TypeOK
<1>8. CASE UNCHANGED vars
  BY <1>8 DEF vars, TypeOK
<1>9. ASSUME NEW r \in Requests, Proceed(r)
      PROVE  TypeOK'
  <2>1. CASE \E u \in RunIds, q \in Queries : Receive(r, u, q)
    BY <2>1, <1>2
  <2>2. ASSUME NEW parts \in Streams,
               (\E i \in DOMAIN parts : AgentAnswers(r, parts, i)) \/ AgentUnparsed(r, parts)
        PROVE  TypeOK'
    BY <2>2, <1>3, <1>4
  <2>3. CASE AgentRaises(r) \/ AnswersUnusable(r) \/ FallBack(r) \/ ExplainRaises(r)
    BY <2>3, <1>4
  <2> QED
    BY <1>9, <2>1, <2>2, <2>3, <1>5, <1>6 DEF Proceed
<1> QED
  BY <1>1, <1>7, <1>8, <1>9 DEF Next

-----------------------------------------------------------------------------
(* The invariant is kept, kind of step by kind of step.                    *)

\* What the invariant says besides the types.
Rest == ServingInv /\ RequestInv /\ StoredInv /\ ControllerDecides
          /\ AgentEvidenceIsAccounted /\ DiagnosisIsOfOnePiece

\* A request that is served has its run, query and types, and is being served.
LEMMA Served ==
  ASSUME TypeOK, ServingInv, RequestInv, NEW r \in Requests, req[r].pc # "unsent"
  PROVE  /\ req[r].run \in RunIds /\ req[r].query \in Queries
         /\ req[r].answers \in [Calls -> Answer]
         /\ app = "serving"
BY DEF TypeOK, ServingInv, RequestInv, Request

\* What the pack of a request says of the agents hangs on that request alone.
LEMMA AccountedStands ==
  ASSUME NEW s \in Requests, req'[s] = req[s], Accounted(s)
  PROVE  Accounted(s)'
BY DEF Accounted

\* Nothing the rest of the invariant speaks of moves, but for the fixes.
LEMMA RestStands ==
  ASSUME PipelineInv, UNCHANGED <<env, app, req, ledger, packs>>, ControllerDecides'
  PROVE  Rest'
<1> USE DEF PipelineInv
<1>1. Answered' = Answered /\ UsesAgents' = UsesAgents /\ ConfigIsGood' = ConfigIsGood
  BY DEF Answered, UsesAgents, ConfigIsGood, Configured, Distinct
<1>2. ServingInv' /\ RequestInv' /\ StoredInv'
  BY <1>1 DEF ServingInv, RequestInv, StoredInv
<1>3. AgentEvidenceIsAccounted'
  <2>1. ASSUME NEW s \in Answered
        PROVE  Accounted(s)'
    BY AccountedStands DEF AgentEvidenceIsAccounted, Answered
  <2> QED
    BY <1>1, <2>1 DEF AgentEvidenceIsAccounted
<1>4. DiagnosisIsOfOnePiece'
  BY <1>1 DEF DiagnosisIsOfOnePiece, OfOnePiece
<1> QED
  BY <1>2, <1>3, <1>4 DEF Rest

\* The handler of r goes on, and nobody is answered.
LEMMA HandlerKeeps ==
  ASSUME PipelineInv, NEW r \in Requests, NEW now, req' = [req EXCEPT ![r] = now],
         UNCHANGED <<env, app, ledger, packs, fixes>>,
         app = "serving", now.pc \notin {"unsent", "answered"},
         now.run \in RunIds, now.query \in Queries,
         now.pc \in {"agents", "unparsed"} => UsesAgents,
         now.pc = "agents" => \A k \in Calls : k < now.call => now.answers[k].tools = {ToolOf[k]}
  PROVE  Rest'
<1> USE DEF PipelineInv
<1>1. req'[r] = now /\ \A s \in Requests : s # r => req'[s] = req[s]
  BY DEF TypeOK
<1>2. \A s \in Requests : s \in Answered' => s # r /\ s \in Answered
  BY <1>1 DEF Answered
<1>3. UsesAgents' = UsesAgents /\ ConfigIsGood' = ConfigIsGood
  BY DEF UsesAgents, ConfigIsGood, Configured, Distinct
<1>4. ServingInv'
  BY <1>1, <1>3 DEF ServingInv
<1>5. RequestInv'
  BY <1>1, <1>3 DEF RequestInv
<1>6. StoredInv'
  BY <1>3 DEF StoredInv
<1>7. ControllerDecides'
  BY DEF ControllerDecides
<1>8. AgentEvidenceIsAccounted'
  <2>1. ASSUME NEW s \in Requests, s \in Answered'
        PROVE  Accounted(s)'
    <3>1. s \in Answered /\ req'[s] = req[s]
      BY <1>1, <1>2, <2>1
    <3> QED
      BY <3>1, AccountedStands DEF AgentEvidenceIsAccounted
  <2> QED
    BY <2>1 DEF AgentEvidenceIsAccounted, Answered
<1>9. DiagnosisIsOfOnePiece'
  BY <1>1, <1>2, <1>3 DEF DiagnosisIsOfOnePiece, OfOnePiece, Answered
<1> QED
  BY <1>4, <1>5, <1>6, <1>7, <1>8, <1>9 DEF Rest

\* A pack is finished: what must be true of it for the invariant to be kept.
LEMMA FinishKeeps ==
  ASSUME PipelineInv, NEW r \in Requests, NEW p \in Pack, Finish(r, p),
         req[r].pc # "unsent",
         p.index = IndexOf[req[r].query],
         p.narrative = "none" => ~UsesAgents,
         Accounted(r)', OfOnePiece(r)'
  PROVE  Rest'
<1> USE DEF PipelineInv
<1> DEFINE done == [req[r] EXCEPT !.pc = "answered", !.pack = p]
           u == req[r].run
           label == [query |-> req[r].query,
                     source |-> IF p.before.by = "agent" THEN "agent_engine_tool"
                                                         ELSE "deterministic_esr"]
<1>1. /\ req[r].run \in RunIds /\ req[r].query \in Queries /\ app = "serving"
      /\ UNCHANGED <<env, app, fixes>>
  BY Served DEF Finish
<1>2. req[r] \in Request
  BY DEF TypeOK
<1>3. done.pc = "answered" /\ done.run = req[r].run /\ done.query = req[r].query
  BY <1>2 DEF Request
<1>4. req'[r] = done /\ \A s \in Requests : s # r => req'[s] = req[s]
  BY DEF Finish, TypeOK
<1>5. packs'[u] = p /\ \A v \in RunIds : v # u => packs'[v] = packs[v]
  BY <1>1 DEF Finish, TypeOK
<1>6. ledger'[u] = label /\ \A v \in RunIds : v # u => ledger'[v] = ledger[v]
  BY <1>1 DEF Finish, TypeOK
<1>7. UsesAgents' = UsesAgents /\ ConfigIsGood' = ConfigIsGood
  BY <1>1 DEF UsesAgents, ConfigIsGood, Configured, Distinct
<1> HIDE DEF done
<1>8. ServingInv'
  BY <1>1, <1>7 DEF ServingInv
<1>9. RequestInv'
  BY <1>1, <1>3, <1>4, <1>7 DEF RequestInv
<1>10. StoredInv'
  BY <1>1, <1>5, <1>6, <1>7 DEF StoredInv
<1>11. ControllerDecides'
  BY <1>1, <1>5, <1>6 DEF ControllerDecides
<1>12. AgentEvidenceIsAccounted'
  <2>1. ASSUME NEW s \in Requests, s # r, s \in Answered'
        PROVE  Accounted(s)'
    <3>1. s \in Answered /\ req'[s] = req[s]
      BY <1>4, <2>1 DEF Answered
    <3> QED
      BY <3>1, AccountedStands DEF AgentEvidenceIsAccounted
  <2> QED
    BY <2>1 DEF AgentEvidenceIsAccounted, Answered
<1>13. DiagnosisIsOfOnePiece'
  <2>1. \A s \in Requests : s \in Answered' => OfOnePiece(s)'
    BY <1>4, <1>7 DEF DiagnosisIsOfOnePiece, OfOnePiece, Answered
  <2>2. \A v \in RunIds : packs'[v] # NoPack =>
          (packs'[v].before.by = "agent" <=> ledger'[v].source = "agent_engine_tool")
    BY <1>5, <1>6 DEF DiagnosisIsOfOnePiece
  <2> QED
    BY <2>1, <2>2 DEF DiagnosisIsOfOnePiece, Answered
<1> QED
  BY <1>8, <1>9, <1>10, <1>11, <1>12, <1>13 DEF Rest

\* The answers of four calls behind a request, and what they say of its pack.
LEMMA AgentDiagnosisKeeps ==
  ASSUME PipelineInv, NEW r \in Requests, DiagnosisFromAgents(r)
  PROVE  Rest'
<1> USE DEF PipelineInv
<1> DEFINE agents == [k \in Calls |-> env.split[RoleOf[k]]]
           q == req[r].query
           answers == req[r].answers
           p == AgentPack(q, answers, agents)
<1>1. /\ q \in Queries /\ answers \in [Calls -> Answer] /\ app = "serving"
      /\ BeforeOf(answers) \in Queries /\ req[r].pc = "agents" /\ req[r].call = 5
      /\ UsesAgents
  BY Served DEF DiagnosisFromAgents, RequestInv
<1>2. agents \in [Calls -> Resources \cup {None}]
  BY CallsAreRoles DEF TypeOK, Environment
<1>3. /\ p \in Pack /\ p.index = IndexOf[q]
      /\ p.before = [query |-> BeforeOf(answers), by |-> "agent"]
      /\ p.narrative \in {"rationale", "agent_text"}
      /\ p.validation = Validation(ProposedIndexOf(answers), IndexOf[q])
      /\ p.validation \in {"ok", "drift"} /\ p.agents = agents
  BY <1>1, <1>2, AgentPackHolds
<1>4. Finish(r, p)
  BY DEF DiagnosisFromAgents
<1>5. \A k \in Calls : answers[k].tools = {ToolOf[k]}
  BY <1>1, CallsAreRoles DEF RequestInv
<1>6. \A j, k \in Calls : agents[j] = agents[k] <=> RoleOf[j] = RoleOf[k]
  <2>1. Distinct
    BY <1>1 DEF ServingInv, ConfigIsGood, UsesAgents, Roles
  <2> QED
    BY <2>1, CallsAreRoles DEF Distinct
<1>7. \A k \in Calls : agents[k] \in Resources
  BY <1>1, <1>2, CallsAreRoles DEF UsesAgents, Configured
<1> HIDE DEF agents, p
<1>8. /\ req'[r].pack = p /\ req'[r].query = q /\ req'[r].answers = answers
      /\ env' = env
  <2>1. req[r] \in Request
    BY DEF TypeOK
  <2>2. req'[r] = [req[r] EXCEPT !.pc = "answered", !.pack = p]
    BY <1>4 DEF Finish, TypeOK
  <2> QED
    BY <1>4, <2>1, <2>2 DEF Request, Finish
<1>9. p.validation = "ok" => IndexOf[q] \in {answers[4].payload.index, answers[3].payload.index}
  BY <1>3 DEF Validation, ProposedIndexOf
<1>10. Accounted(r)'
  BY <1>3, <1>5, <1>6, <1>8, <1>9 DEF Accounted, BeforeOf
<1>11. OfOnePiece(r)'
  BY <1>3, <1>7, <1>8 DEF OfOnePiece
<1> QED
  BY <1>1, <1>3, <1>4, <1>10, <1>11, FinishKeeps

\* The controller's own diagnosis.
LEMMA ExplainDiagnosisKeeps ==
  ASSUME PipelineInv, NEW r \in Requests, DiagnosisFromExplain(r)
  PROVE  Rest'
<1> USE DEF PipelineInv
<1> DEFINE q == req[r].query
           p == ControllerPack(q, req[r].answers, UsesAgents)
<1>1. q \in Queries /\ req[r].pc = "explain"
  BY Served DEF DiagnosisFromExplain
<1>2. /\ p \in Pack /\ p.index = IndexOf[q]
      /\ p.before = [query |-> q, by |-> "controller"]
      /\ p.narrative = IF UsesAgents THEN "agent_failed" ELSE "none"
      /\ p.validation \in {"none", "drift"} /\ p.agents = NoAgents
  <2>1. UsesAgents \in BOOLEAN
    BY DEF UsesAgents
  <2> HIDE DEF q
  <2> QED
    BY <1>1, <2>1, ControllerPackHolds
<1>3. Finish(r, p)
  BY DEF DiagnosisFromExplain
<1> HIDE DEF p
<1>4. req'[r].pack = p /\ req'[r].query = q /\ UsesAgents' = UsesAgents
  <2>1. req[r] \in Request
    BY DEF TypeOK
  <2>2. req'[r] = [req[r] EXCEPT !.pc = "answered", !.pack = p]
    BY <1>3 DEF Finish, TypeOK
  <2> QED
    BY <1>3, <2>1, <2>2 DEF Request, Finish, UsesAgents, Configured
<1>5. Accounted(r)'
  BY <1>2, <1>4 DEF Accounted
<1>6. OfOnePiece(r)'
  BY <1>2, <1>4 DEF OfOnePiece
<1> QED
  BY <1>1, <1>2, <1>3, <1>5, <1>6, FinishKeeps

LEMMA RestNext == PipelineInv /\ [Next]_vars => Rest'
<1> SUFFICES ASSUME PipelineInv, [Next]_vars
             PROVE  Rest'
  OBVIOUS
<1> USE DEF PipelineInv
<1>1. CASE Boot
  <2>1. /\ app' = "serving" => ConfigIsGood'
        /\ app = "starting" /\ UNCHANGED <<env, req, ledger, packs, fixes>>
    BY <1>1 DEF Boot, ConfigIsGood, Configured, Distinct
  <2>2. /\ \A r \in Requests : req[r].pc = "unsent"
        /\ \A u \in RunIds : packs[u] = NoPack
    BY <2>1 DEF ServingInv
  <2> QED
    BY <2>1, <2>2 DEF Rest, ServingInv, RequestInv, StoredInv, ControllerDecides,
                      AgentEvidenceIsAccounted, DiagnosisIsOfOnePiece, Answered
<1>2. ASSUME NEW r \in Requests, NEW u \in RunIds, NEW q \in Queries, Receive(r, u, q)
      PROVE  Rest'
  <2> DEFINE now == [Unsent EXCEPT !.pc = IF UsesAgents THEN "agents" ELSE "explain",
                                   !.run = u, !.query = q]
  <2>1. /\ now.pc = IF UsesAgents THEN "agents" ELSE "explain"
        /\ now.run = u /\ now.query = q /\ now.call = 1
    BY DEF Unsent
  <2>2. req' = [req EXCEPT ![r] = now] /\ app = "serving" /\ UNCHANGED <<env, app, ledger, packs, fixes>>
    BY <1>2 DEF Receive
  <2>3. \A k \in Calls : ~(k < now.call)
    BY <2>1, CallsAreRoles
  <2> HIDE DEF now
  <2> QED
    BY <2>1, <2>2, <2>3, HandlerKeeps
<1>3. ASSUME NEW r \in Requests, NEW parts \in Streams, NEW i \in DOMAIN parts,
             AgentAnswers(r, parts, i)
      PROVE  Rest'
  <2> DEFINE c == req[r].call
             answer == [tools |-> {parts[j].tool : j \in Responses(parts)},
                        payload |-> parts[i].payload]
             now == [req[r] EXCEPT !.call = c + 1, !.answers[c] = answer]
  <2>1. /\ req[r].pc = "agents" /\ c \in Calls /\ ToolOf[c] \in Tools
        /\ IsOnlyResponse(parts, ToolOf[c], i)
        /\ req' = [req EXCEPT ![r] = now]
        /\ UNCHANGED <<env, app, ledger, packs, fixes>>
    BY <1>3, CallsAreRoles DEF AgentAnswers
  <2>2. answer.tools = {ToolOf[c]}
    BY <2>1, AcceptedStream
  <2>3. /\ req[r].run \in RunIds /\ req[r].query \in Queries /\ app = "serving" /\ UsesAgents
        /\ req[r].answers \in [Calls -> Answer]
    BY <2>1, Served DEF RequestInv
  <2>4. req[r] \in Request
    BY DEF TypeOK
  <2> HIDE DEF answer
  <2>5. /\ now.pc = req[r].pc /\ now.run = req[r].run /\ now.query = req[r].query
        /\ now.call = c + 1 /\ now.answers = [req[r].answers EXCEPT ![c] = answer]
    BY <2>4 DEF Request
  <2>6. \A k \in Calls : k < now.call => now.answers[k].tools = {ToolOf[k]}
    BY <2>1, <2>2, <2>3, <2>5, CallsAreRoles DEF RequestInv
  <2> HIDE DEF now
  <2> QED
    BY <2>1, <2>3, <2>5, <2>6, HandlerKeeps
<1>4. ASSUME NEW r \in Requests,
             (\E parts \in Streams : AgentUnparsed(r, parts)) \/ AgentRaises(r)
               \/ AnswersUnusable(r) \/ FallBack(r) \/ ExplainRaises(r)
      PROVE  Rest'
  <2>1. PICK pc \in {"unparsed", "raised", "explain", "failed"} :
          /\ req' = [req EXCEPT ![r].pc = pc]
          /\ pc = "unparsed" => req[r].pc = "agents"
    BY <1>4 DEF AgentUnparsed, AgentRaises, AnswersUnusable, FallBack, ExplainRaises
  <2>2. req[r].pc # "unsent" /\ UNCHANGED <<env, app, ledger, packs, fixes>>
    BY <1>4 DEF AgentUnparsed, AgentRaises, AnswersUnusable, FallBack, ExplainRaises
  <2> DEFINE now == [req[r] EXCEPT !.pc = pc]
  <2>3. req[r] \in Request
    BY DEF TypeOK
  <2>4. now.pc = pc /\ now.run = req[r].run /\ now.query = req[r].query
    BY <2>3 DEF Request
  <2>5. req' = [req EXCEPT ![r] = now]
    BY <2>1
  <2>6. /\ req[r].run \in RunIds /\ req[r].query \in Queries /\ app = "serving"
        /\ req[r].pc = "agents" => UsesAgents
    BY <2>2, Served DEF RequestInv
  <2> HIDE DEF now
  <2> QED
    BY <2>1, <2>2, <2>4, <2>5, <2>6, HandlerKeeps
<1>5. ASSUME NEW u \in RunIds, Approve(u)
      PROVE  Rest'
  <2>1. UNCHANGED <<env, app, req, ledger, packs>>
    BY <1>5 DEF Approve
  <2>2. ControllerDecides'
    BY <1>5, <2>1 DEF Approve, ControllerDecides
  <2> QED
    BY <2>1, <2>2, RestStands
<1>6. CASE UNCHANGED vars
  <2>1. UNCHANGED <<env, app, req, ledger, packs, fixes>>
    BY <1>6 DEF vars
  <2>2. ControllerDecides'
    BY <2>1 DEF ControllerDecides
  <2> QED
    BY <2>1, <2>2, RestStands
<1>7. ASSUME NEW r \in Requests, Proceed(r)
      PROVE  Rest'
  <2>1. CASE \E u \in RunIds, q \in Queries : Receive(r, u, q)
    BY <2>1, <1>2
  <2>2. ASSUME NEW parts \in Streams,
               (\E i \in DOMAIN parts : AgentAnswers(r, parts, i)) \/ AgentUnparsed(r, parts)
        PROVE  Rest'
    BY <2>2, <1>3, <1>4
  <2>3. CASE AgentRaises(r) \/ AnswersUnusable(r) \/ FallBack(r) \/ ExplainRaises(r)
    BY <2>3, <1>4
  <2>4. CASE DiagnosisFromAgents(r)
    BY <2>4, AgentDiagnosisKeeps
  <2>5. CASE DiagnosisFromExplain(r)
    BY <2>5, ExplainDiagnosisKeeps
  <2> QED
    BY <1>7, <2>1, <2>2, <2>3, <2>4, <2>5 DEF Proceed
<1> QED
  BY <1>1, <1>5, <1>6, <1>7 DEF Next

-----------------------------------------------------------------------------
(* The theorems.                                                           *)

LEMMA InitHolds == Init => PipelineInv
<1> SUFFICES ASSUME Init PROVE PipelineInv
  OBVIOUS
<1>1. TypeOK
  BY TypeInit
<1>2. Answered = {}
  BY DEF Init, Answered, Unsent
<1>3. RequestInv
  BY DEF Init, RequestInv, Unsent
<1> QED
  BY <1>1, <1>2, <1>3 DEF Init, PipelineInv, ServingInv, StoredInv, ControllerDecides,
       AgentEvidenceIsAccounted, DiagnosisIsOfOnePiece, Unsent

\* The inductive invariant of the pipeline, from the start-up of the instance on:
\* whatever stream an agent answers, a request carries one accepted answer per
\* call behind it (create_app, run_tool, _LiveEngine.diagnose).
THEOREM PipelineInvariantHolds == Spec => []PipelineInv
<1>1. Init => PipelineInv
  BY InitHolds
<1>2. PipelineInv /\ [Next]_vars => PipelineInv'
  BY TypeNext, RestNext DEF PipelineInv, Rest
<1> QED
  BY <1>1, <1>2, PTL DEF Spec

\* Every variable of the pipeline keeps its type; in particular no malformed
\* evidence gets into a pack.
THEOREM PipelineTypeCorrect == Spec => []TypeOK
<1>1. PipelineInv => TypeOK
  BY DEF PipelineInv
<1> QED
  BY <1>1, PipelineInvariantHolds, PTL

\* The recommendation that is stored and applied is the one the ESR rule derives
\* from the query of the run, whatever the agents propose.
THEOREM ControllerAlwaysDecides == Spec => []ControllerDecides
<1>1. PipelineInv => ControllerDecides
  BY DEF PipelineInv
<1> QED
  BY <1>1, PipelineInvariantHolds, PTL

\* A pack with evidence of the agents rests on one right response per call.
THEOREM AgentEvidenceAlwaysAccounted == Spec => []AgentEvidenceIsAccounted
<1>1. PipelineInv => AgentEvidenceIsAccounted
  BY DEF PipelineInv
<1> QED
  BY <1>1, PipelineInvariantHolds, PTL

\* A diagnosis is the agents' or the controller's, never a mixture.
THEOREM DiagnosesAreOfOnePiece == Spec => []DiagnosisIsOfOnePiece
<1>1. PipelineInv => DiagnosisIsOfOnePiece
  BY DEF PipelineInv
<1> QED
  BY <1>1, PipelineInvariantHolds, PTL

\* A production instance serves nothing without its secrets and three agents.
THEOREM ProductionFailsClosed == Spec => []FailsClosed
<1>1. PipelineInv => FailsClosed
  <2> SUFFICES ASSUME PipelineInv, app = "serving", env.production
               PROVE  /\ env.secrets /\ ~env.legacy
                      /\ \A r1, r2 \in Roles : /\ env.split[r1] \in Resources
                                               /\ env.split[r1] = env.split[r2] => r1 = r2
                      /\ \A u \in RunIds : packs[u] # NoPack => packs[u].narrative # "none"
    BY DEF FailsClosed
  <2> USE DEF PipelineInv
  <2>1. env.secrets /\ ~env.legacy /\ UsesAgents /\ Distinct
    BY DEF ServingInv, ConfigIsGood, UsesAgents, Roles
  <2>2. \A ro \in Roles : env.split[ro] \in Resources
    BY <2>1 DEF UsesAgents, Configured, TypeOK, Environment
  <2>3. \A u \in RunIds : packs[u] # NoPack => packs[u].narrative # "none"
    BY <2>1 DEF StoredInv
  <2> QED
    BY <2>1, <2>2, <2>3 DEF Distinct
<1> QED
  BY <1>1, PipelineInvariantHolds, PTL
=============================================================================
