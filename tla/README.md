# Verification of the Sift controller

Sift (this repository) diagnoses slow MongoDB queries, puts a recommended index to an
operator, creates the index when the operator approves the evidence hash, and measures again.
This directory holds TLA+ modules of its parts, translated from the source, TLC runs that check
them on small instances, and theorems about them checked by TLAPS.

## The system: inventory

| Part | State it keeps | Operations | What makes it correct |
|---|---|---|---|
| Evidence pack (`controller/schemas.py`, `pack.py`, `ledger.py`) | none: an immutable document with status, before/after evidence, recommendation, hash, decision, gate | validators; `build_pack`; `compute_evidence_hash` | the hash binds evidence and recommendation; decision, gate and status agree; what one guard accepts the next one accepts |
| Controller (`controller/orchestrator.py`, `phases.py`) | the coroutine of a request: the pack it carries, where it is | `run_diagnosis`, `run_agent_diagnosis`, `issue_approval_ticket`, `apply_and_verify`, `reject_pack` | the index is created only for a hash an operator presented; the after-pack is valid |
| Read API (`api/routes.py`, `api/server.py`) | one event loop per instance, up to three instances | `POST /run`, `POST /packs/{id}/decision`, reads | decisions are made on the pack the operator saw; a retry is harmless |
| Ledger and packs (`controller/ledger_store.py`, `persistence.py`) | a record per run and event, a pack per run, each replaced by `_id` | `write_*_records`, `save_pack` | no pack without the records it rests on |
| Index backend (`controller/backends.py`, `explain.py`) | the indexes of the target collection | `explain`, `apply_index` | creation is idempotent, an equivalent index counts |
| ESR diagnosis and verification rail (`controller/diagnosis.py`, `orchestrator.py:121-191`) | none | `diagnose`, `_verification_checks` | the recommended index serves the sort; VERIFIED is evidence |
| Guided queries and slow-query queue (`controller/workload.py`, `api/workload.py`, `seed/seed_workload.py`) | `query_log` | `validate_spec`, `build_query`, `run_query`, `list_slow_queries`, `assert_safe_query`, `reset_baseline`, `verify_presets` | what the builder produces the re-check accepts; the ranking puts blocking sorts first; the presets keep their contract |
| Split agent pipeline (`api/agent_engine.py`, `api/server.py:101-178`) | none | four sequential tool calls, the fallback | exactly one right response per call; a failing agent does not fail the run |
| Sessions and roles (`api/auth.py`, `controller/auth.py`, `dashboard/middleware.ts`, `dashboard/lib/session.ts`) | users; a signed token with an expiry; the cookie that holds it | login, verification in API and dashboard, role check, routing | the side that routes is the stricter one; no page is refused its data; redirects end |
| Sift Memory (`api/memory.py`) | a process-wide cache by run id | `lookup` | an answer is about the pack it is shown with |
| Dashboard (`dashboard/lib/approval.ts`, `dashboard/lib/api.ts`, `app/api/*`, components) | the pack of the page, the state of the approval panel | `loadPack`, `submitDecision`, proxies, views | a decision is about what is on the screen; a refusal is reported truthfully |
| ADK agents, MCP client (`agents/`) | none | read-only tools, allowlist | no tool mutates |
| Seeds, evals, deploy, contracts generator, spikes, demo | files and fixtures | scripts | - |

How they interact: the dashboard's route handlers proxy to the read API with the session's
bearer; a handler of the API is a coroutine on the event loop of its instance, calls the
controller, which awaits the agent or the backend (the only points where the loop is free) and
calls the ledger and the pack store synchronously. Instances share only the database. Nothing
is transactional: every record is one `replace_one`.

The hard parts are therefore the awaits between the reading of a pack and its saving, two
instances writing one run, a call that raises in the middle of a sequence of writes, a baseline
reset in the middle of an approval, repeated requests, guards written five times, a language
model that decides which tools are run, a page that outlives the pack it shows, a cache that
outlives the state it was filled from, and one token that two programs check.
PROJECT.json lists them line by line under `hazards`.

## Plan

1. `EvidencePack`: pack, validators, guards, builders. Done.
2. `ApprovalFlow`, `ApprovalFlowInvariant`, `MCApprovalFlow`: the two mutating endpoints with
   the stores and faults. Done.
3. `GatedRun`: the abstract promise, refined by `ApprovalFlow`. Done, checked and proved.
4. `EvidencePack_proofs`, `ApprovalFlow_proofs`. Done.
5. `GuidedQuery`, `EsrDiagnosis`, `Workload`, `WorkloadInvariant`, `MCWorkload` and their proofs:
   guided queries, the ESR recommendation against a planner, the verification rail, the queue,
   the baseline reset. Done.
6. `AgentPipeline`, `PipelineInvariant`, `MCAgentPipeline` and their proofs: the environment an
   instance is started in, the four tool calls, what may come back, the fallback. Done.
7. `Session`, `SessionInvariant`, `MCSession` and their proofs: login, expiry, roles, the API's
   and the dashboard's verification, routing. Done.
8. `RunReview`, `ReviewInvariant`, `MCRunReview` and their proofs: the run page, the decision
   client and its proxy, Sift Memory. Done.
9. The grader of the evaluations and the local-file stores.
10. The reset of `Workload` (`ResetMakesTraps`), what a failure can leave behind in `ApprovalFlow`
    (`ReportsAreAudited`), the event loop of one instance (`SingleInstance`). Done.
11. `RunRecord`: what the store keeps of a run, the interface between the API and the page,
    refined by `ApprovalFlow` and by `RunReview`. Done, checked and proved.
12. Of the other modules, an abstract specification each: what a session promises, what a
    diagnosis promises.

The modules meet in the pack. `EvidencePack` is shared by `ApprovalFlow` and `RunReview`, so the
guards of the endpoint are the same text in both; `RunRecord` says how the stored pack of a run
may change, and both implement it: `ApprovalFlow` as the one that writes, step by step on several
instances, and `RunReview` as the one that watches one run and must expect no less. `AgentPipeline`
ends where a pending pack is stored, which is where the other two begin; `Session` decides who may
call at all, and gives `ApprovalFlow` its approver. They are checked apart because no module's
guard reads another one's state: only the pack, its hash and the approver cross the border.

The runs are few on purpose, one per question.


## The modules

### `EvidencePack`
A proposal is a (before-evidence, recommendation) pair. `compute_evidence_hash` is a function of
it, so a proposal stands for its own hash; a pack carries both, and `HashBindsProposal` is the
validator that compares them. `Pack` has status, decision, gate, proposal, hash and
after-evidence; `NoPack` is a run that has none. `Valid` is the conjunction of the four
validators. `DecisionAnswer`, `TicketIssued`, `TicketAllowsApply` and `MayReject` are the guards
of the endpoint, the ticket, the controller and the rejection, each translated on its own from
its own function, so that their agreement is a fact to check. `DiagnosedPack`, `AppliedPack` and
`RejectedPack` are the packs the controller builds, `LegacyPack` one from before packs had gates, and
`Outcomes` what the endpoint can make of a diagnosis. Finding, phase log, trace, narrative
and timestamps are left out: no guard reads them.

### `ApprovalFlow`
State and code:

| Variable | Code |
|---|---|
| `req[r].pc` | where the coroutine of a request is: at a ledger record it is about to write, at the pack write of the controller (`pack`) or of the route (`save`), in an awaited call, or back from one and waiting for the loop |
| `req[r].pack`, `.hash`, `.approver` | the local variables of the handler |
| `loop[i]` | the request that has the event loop of instance `i`; a handler keeps it from one await to the next, because driver calls are synchronous |
| `ledger`, `packs` | documents of `dbre_state`, one per `_id` |
| `indexes` | recommended indexes of the target collection |
| `applied`, `offered` | history, read by no guard: which `create_index` took effect for whom, which hashes were ever pending |

`RecordOf` is the document an event writes about a pack: its hash, its status and, of an
approval or a rejection, its operator; but the record of the application itself (`approve:application`) always has the status "applied"
(ledger_store.py:173), whatever the pack became. Every driver call is one step (`WriteRecord`,
`WritePack`), so two instances interleave record by record. `ReceiveRun`, `ApproveDecision` and `RejectDecision` are the parts of the handlers up to
the first await or write; `CreateIndex`, `VerifyReturns`, `DiagnosisReturns` the awaited calls;
`Resume` the coroutine getting the loop back. `AgentUnparsed` leads to the fallback, which writes
`gate:opened` again. Faults: `CallRaises` (any awaited or driver call raises, the request ends
in 500), `Crash` (an instance dies with all it serves), `ResetBaseline` (the seed script drops the
recommended indexes). Each uses one of `MaxDisturbances`. A request that is repeated is another
request of the set.

Abstractions: the narrator is off in the live engine (`api/server.py:107`); the local-file store
has the contract of the Mongo stores; a write that takes effect although its caller sees an
error is the write followed by `CallRaises` at the next step; `RefuseRun` may happen for any run
(captured query missing or unsafe); the role and token checks precede the handlers and belong
to `Session`.

### `GatedRun`
The promise: `Offer` a proposal, `Apply` only an offered one, `Conclude` as approved or verified
only after the application. `ApprovalFlow!Promise` instantiates it with the history and with the
status and hash that the store shows.

### `RunRecord`
One document per run, which starts absent or as one from before packs had gates: `Diagnose` replaces it by a fresh diagnosis, `Decide` by an outcome of any
diagnosis this run was ever offered. It is weaker than "a decision is of the pack that is shown"
because the code is (`DecisionMatchesCurrentPack` below). It is stronger than the validators: a stored
pack is not merely consistent, it is exactly what one builder makes of one offered proposal, so no
field of a pack is a leftover of another decision.

### `ApprovalFlowInvariant`, `ApprovalFlow_proofs`, `EvidencePack_proofs`
The inductive invariant and the proofs; see below.

### `SingleInstance`, `SingleInstance_proofs`
The properties that rest on one event loop serving all requests (the deployment allows three
instances): `LoopInv` relates the holder of a loop to where its coroutine is, `RejectionInv` and
`AgreementInv` say what nobody else can have written meanwhile. `LoopInv` holds of every number
of instances; the rest is proved for one.

### `MCApprovalFlow`
The instances for TLC: one index for all proposals (the query of a run is the same, its evidence
differs), and the symmetry of requests, instances, approvers and proposals, which
`one_instance` does not use because it checks liveness.

### `GuidedQuery`
`ValidSpec`, `BuildQuery` and `SafeQuery` are `validate_spec`, `build_query` and
`assert_safe_query`. A filter is a function from fields to conditions (`Equals`, `Within`), a
sort a sequence of at most one pair. `Diagnosable` is what `trigger_run` lets through.

### `EsrDiagnosis`
The recommendation (`EsrIndex`), the rail (`Verified` and its three checks) and, as external
definitions, the parts of MongoDB that give them a meaning: `KeyPattern` is the document the
driver makes of a list of keys (a repeated field keeps its first place and its last direction),
given by the direction of each field and the order `before` of the fields; `SuppliesOrder` and
`Candidate` say which indexes the planner may use. Which of several candidates it takes is left
open (`NaturalPlans`), so a property holds for whatever the planner prefers. A hint leaves the
plans of one index, or none. The name of a recommended index spells its specification and stands
for it; the cut at 120 characters is out of reach of the three fields there are.

### `Workload`

| Variable | Code |
|---|---|
| `catalog` | indexes of the collection, `_id_` left out |
| `query_log` | documents of `dbre_state.query_log` |
| `req[r]` | a call of `POST /workload/query`: before its explain, its insert, its preview, or over; the specification and the capture record it holds |
| `run[d]` | a diagnosis: its source, query and before-plan, and once approved its after-plan and status |
| `script` | `seed_workload reset`: where it is and the indexes it has still to drop; `raced` is history |

`ExplainQuery`, `InsertRecord` and `Preview` are the three database calls of `run_query`, each of
which may raise (`QueryRaises`). `DiagnoseCaptured` and `DiagnoseFixture` are the deterministic
diagnosis with its explain, `Apply` and `Verify` the two awaited calls of `apply_and_verify`;
`ListIndexes`, `DropIndex` and `EnsureBaseline` the calls of the script. All of them interleave.
What an execution examines, returns and costs is any member of `Scans`; a collection scan reads
no keys, and an index scan fetches no document without one. `SlowQueries` are the queues the
endpoint can answer with: the slow captures by score, cut off at `SLOW_QUEUE_LIMIT`, of equal
scores any. The score is in hundredths and its ratio in whole numbers. Left out: the rows of the
preview, the row limit of a query, the agent (its fallback is what is modelled), and the gate,
ledger and packs, which are those of `ApprovalFlow`.

### `WorkloadInvariant`, `Workload_proofs`, `EsrDiagnosis_proofs`
The inductive invariant of the loop and the proofs; see below. `ResetInv` follows the script: what
`catalog` can hold after each of its calls.

### `MCWorkload`
The real stores, methods and ages; specifications chosen for their shapes (range before sort, sort
on the range's field, no filter, no sort, invalid), and three measurements: a full scan that
returns nothing, a sort of every match, a read in index order.

### `AgentPipeline`

| Variable | Code |
|---|---|
| `env` | what `create_app` reads: production, the secrets it demands, the agents' switch, one resource name per role, the legacy agent |
| `app` | whether the instance refused to start |
| `req[r].pc`, `.call` | the coroutine of `POST /run`: awaiting the agent of one of the four calls, awaiting the explain of the fallback, over |
| `req[r].answers` | the accepted payload of each call, and the tools that were in its stream |
| `ledger`, `packs` | the query and source in the records of a run, and its pack, as far as its diagnosis goes |
| `fixes` | history: the index an approval created, and the query its run was asked about |

A stream is a sequence of parts, each a text or the response of a tool; `Payload` has the fields
the controller reads, with evidence told apart by the query it is of, missing or malformed.
`IsOnlyResponse` is the parser (`_response_by_name` and the two checks of `run_tool`), `AnswersUnusable`
the missing evidence and `AgentRaises` every exception that is not a parse error. The stream is
any of `Streams`: which tool a language model runs, and with which arguments, is not ours to
say. From the last answer to the stored pack there is no await (`DiagnosisFromAgents`), and the
same holds of the fallback after its explain (`DiagnosisFromExplain`). Left out: session ids, prompts, the
text of the rationale, retries (there are none), the ledger's single records, which are in
`ApprovalFlow`.

### `PipelineInvariant`, `AgentPipeline_proofs`, `MCAgentPipeline`
The inductive invariant and the proofs. The instance has, for every tool, a stream with a
response for the right query, for the wrong one, with nothing the controller reads, malformed and
without an object; two responses of one tool; responses of two tools; none; and only text.

### `RunReview`

| Variable | Code |
|---|---|
| `stored` | the run's pack in the store |
| `page` | state of `AgentRunView` and `ApprovalGatePanel`: source, pack, the request the panel waits for, its error |
| `sub[d]` | a click on Approve or Reject, from `submitDecision` through the proxy and `decide_pack` and back |
| `load[l]` | a load of the run's page: `loadPack`, then `loadSiftMemory`, then the render |
| `config`, `cache` | how `VoyageMemoryService` is configured, and `_VOYAGE_CACHE` at this run |
| `seen`, `retrieved`, `page.told` | history: every pack of the run, whether this instance ever got guidance, the submission an error is about |

`Rediagnose` and `OtherDecides` change the run behind the page, the latter with a decision on any
pack of the run it may have read when that was pending; `AnswerLost`, `GiveUp` and
`DecisionFails` lose an answer at the proxy, at the browser, or in the API; `Restart` replaces the
instance. `FoundFor` is the reason a click on the bundled example decides nothing: the panel
sends the run id of the pack it shows, and the example's is no run. A pack from before there were
gates (`LegacyPack`) counts as pending on the page and is refused by the endpoint. `Render` is the page
of a run, `app/runs/[run_id]`, where another load mounts another view. The older `app/run-review` takes
its run from a query parameter and gives its view no key: there React keeps the view, and with it the
pack of the first load, while the label of its source is the new one's. It is not modelled, and
`NeverAsserted` says nothing of it. Left out: the
local simulation without an API, the steps of a decision inside the API (they are in
`ApprovalFlow`; here it reads in one step and stores in another), and the ranking of guidance.

### `ReviewInvariant`, `RunReview_proofs`, `MCRunReview`
The inductive invariant, the proofs and the instance.

### `Session`

| Variable | Code |
|---|---|
| `clock` | seconds, and instants within one: the API compares fractions of a second, `jwtVerify` whole ones |
| `users`, `keys` | the role of each account (or its absence) and the `SESSION_SECRET` of either service |
| `jar` | the browser's cookie with its own age, set by login and guest login, deleted by logout |
| `login` | a login between its read of the account and its signature |
| `page` | where the browser is: a path middleware has yet to route, a server component that asks the API, a form, a page that is shown |
| `had`, `page.hops` | history: when an account last had a role, redirects of this visit |

`ApiAccepts` and `DashAccepts` are `decode_jwt` and `verifyToken`, each from its own code; `Route` is
middleware; `ApiSays` is `require_role`, with its 503 when the API has no secret; `QuerySays`, `OptionalDbre` and `DiagnoseSays` what the proxies and the endpoints answer to
the cookie of the moment; `ActSays` puts them together for the property. A signature is the secret that
made it, a password is right or wrong, and both services read one clock: a skew between them is
not modelled, and would weaken `DashboardIsStricter` by as much.

### `SessionInvariant`, `Session_proofs`, `MCSession`
The inductive invariant, the proofs and the instance.

## The runs

- `one_instance` (`one_instance.cfg`, pass): One healthy API instance serves two diagnoses and
  two decisions of one run with the split agent: the event loop keeps the sequences of records
  apart (the inductive invariant of one instance), the ledger agrees with the pack whenever no
  handler is writing, a rejection never replaces an applied pack, and under the fairness of the
  event loop every received request ends and every index that is created gets its application
  record. Checks `SoloInv`, `AuditAgrees`, `RejectionNeverHidesApplication`, `EveryRequestEnds`,
  `ApplicationIsAudited`.
- `faulty_instances` (`faulty_instances.cfg`, pass): Two instances, two diagnoses and two
  decisions of one run, and one crash, raising call or baseline reset anywhere: the gate, the
  write-ahead audit, the schema, the promise of GatedRun and the record of RunRecord hold, a
  request that created an index is answered with the records of its own application in the audit
  or those another instance wrote over them, and the inductive invariant of the proofs holds.
  Checks `FlowInv`, `WriteAheadAudit`, `GatedMutation`, `ApplicationsAreReal`,
  `DecidedByOperator`, `PacksAreValid`, `AcceptedIsDecidable`, `ReportedIsAudited`,
  `ImplementsPromise`, `ImplementsRecord`.
- `one_time_ticket` (`one_time_ticket.cfg`, violation): Two approvals of one pending pack both
  apply its index: the ticket is not one-time. Checks `OneTimeTicket`.
- `decision_current` (`decision_current.cfg`, violation): A re-diagnosis replaces the pending
  pack while an approval of the old one awaits its index: the decision is recorded over a pack
  nobody decided. Checks `DecisionMatchesCurrentPack`.
- `every_fix` (`every_fix.cfg`, violation): A run is diagnosed again and its second pack
  approved too: the application record of the first fix, whose operator was answered, is
  replaced by that of the second. Checks `EveryFixIsOnRecord`.
- `workload_queue` (`workload_queue.cfg`, pass): Two users' requests with valid and invalid
  parameters, a diagnosis, and a baseline reset: what is logged passes the re-check, and a query
  that sorts in memory never loses its place in the queue, here cut off after one, or its rank
  to one that does not. Checks `WorkloadInv`, `LoggedIsSafe`, `SortsRankFirst`.
- `workload_fixes` (`workload_fixes.cfg`, pass): Two runs over a captured query or the
  fixture's, approved in any order with a baseline reset anywhere in between: the recommended
  index serves its query and its class, VERIFIED is earned, and a reset brings the traps back
  but for the indexes approvals created behind it. Checks `NoSortAfterFix`,
  `VerifiedOnItsIndex`, `FixServesItsClass`, `ResetRestoresTraps`.
- `equivalent_index` (`equivalent_index.cfg`, violation): Two age-sorted queries with an age
  range recommend the same key pattern under two names: the second approval is served by the
  first one's index and is not verified. Checks `EquivalentIndexIsEvidenced`.
- `agent_pipeline` (`agent_pipeline.cfg`, pass): Two requests of one run, each for either of two
  queries, on an instance started in any environment, while the agents answer any stream of
  parts of a set with missing, doubled, misplaced and malformed responses: the controller
  decides, evidence is accounted for, and no diagnosis mixes two attempts. Checks
  `ControllerDecides`, `AgentEvidenceIsAccounted`, `DiagnosisIsOfOnePiece`, `FailsClosed`,
  `PipelineInv`.
- `transient_fallback` (`transient_fallback.cfg`, violation): An agent call raises anything but
  a parse error and the request ends: the fallback is not reached. Checks
  `TransientErrorSurvived`.
- `run_review` (`run_review.cfg`, pass): One operator loads a run's page twice and decides twice
  from it while the run is diagnosed again or decided by somebody else (on whichever pack that
  request had read), answers are lost, Voyage fails and the API restarts: the page shows only
  what the run was, a decision is accepted for what was on the page, a refusal has a cause in
  the run, guidance is about the pack unless Voyage failed, and the run changes only as
  RunRecord says. Checks `ReviewInv`, `NeverAsserted`, `SignedWhatWasShown`, `RefusalHasCause`,
  `FreshUnlessVoyageFails`, `GuidanceIsKept`, `ImplementsRecord`.
- `session` (`session.cfg`, pass): One browser visits, logs in and out, while two seconds pass
  in half-second steps, its account changes and is removed, and a secret of either service is
  changed or unset once: both checks of the token agree in the direction that matters, pages fit
  roles, a lost role dies with its token, and visits end. Checks `DashboardIsStricter`,
  `PagesFitRoles`, `BoundedRevocation`, `RedirectsEnd`, `SessionInv`, `EveryVisitEnds`.

Bounds. A hazard here takes two decisions of one run, or a decision and a re-diagnosis, on one
or two instances: two requests of each kind contain every pair. A second run id would add
only products of independent behaviours, since every document is keyed by the run. One
disturbance at a time is enough to cut every sequence of writes at every point; the theorems
hold for any number. `one_instance` has no disturbance because `AuditAgrees` is a promise of
healthy operation only, and one instance because two instances do break it (record-by-record
interleaving of an approval and a rejection). It checks `SoloInv`, whose parts the theorems of
`SingleInstance_proofs` use; they hold there for any number of requests, and for disturbances too
where the theorem says so. `CHECK_DEADLOCK FALSE`: the number of requests is
finite and the system rests when all are answered.

In `workload_queue` two requests and a run are the smallest instance in which two captures are
ranked against each other while a diagnosis and a reset change the indexes; every shape of
specification is among them, and `SLOW_QUEUE_LIMIT` is 1 instead of 100 so that the queue is cut off. In `workload_fixes` two runs are needed for one to be served by the
index of the other; one request is enough, because a run needs one captured query and the
fixture's is the other. The script runs once: a second reset starts in a catalog the first may
leave. The initial catalogs are those the seeds leave: none, the fixture's, the baseline's.
Requests and runs are symmetric.

In `agent_pipeline` two requests of one run for either of two queries are enough for a pack and its
records to be of different attempts, and three resources are what a good configuration needs.
`run_review` has two submissions and two loads, so that answers and renders can overtake each
other, and two packs besides what this page stores: the one on the screen and the one behind it. A decision
of another operator on a pack that was replaced meanwhile needs the third pack, and is the proof's
case (and TLC's, with one submission or one load less and `MaxPacks` 3).
In `session` a token lives for one second of two half-second instants, the clock runs two seconds
past it, and one change of a secret separates the services; one account is enough, since a token
speaks only of its own.

Fairness. Of the flow: weak fairness of each request's `Proceed`. The event loop runs every ready coroutine,
an awaited call returns or raises (a driver call that hangs for ever is excluded: nothing in the
code would end it); nothing is assumed of clients, crashes or resets. Of the sessions: weak fairness of middleware
(`Redirect`, `Pass`), of the server component (`CallApi`) and of the two logins, all of them code that
runs once its request is there; nothing is assumed of the clock, the browser's user, or the
administrator.

Each passing property is also run against a mutation of the code (the operators whose name has
an underscore and a defect: `RejectedPack_NoDecision`, `Advance_Yields`, ...) that violates it.

## Where the code and its documents differ

- `OneTimeTicket` (run `one_time_ticket`, src/controller/orchestrator.py:254): README.md:197
  says "A one-time, hash-bound human approval ticket is required to apply" (and
  orchestrator.py:591 "Approval gate issued a one-time apply ticket."). The ticket is issued
  from the pack the handler read and nothing records that it was used: a second approval that is
  read before the first one stores its pack, while that one awaits apply_index, is issued a
  ticket for the same hash and applies the index again.
- `DecisionMatchesCurrentPack` (run `decision_current`, src/api/routes.py:208):
  dashboard/APPROVAL_CONTRACT.md:14-15 says "the server must reject if it no longer matches the
  current pending pack (the pack changed under the operator's feet)". decide_pack compares the
  hash with the pack it reads at its start; POST /run with the same run_id can replace that pack
  while apply_and_verify awaits, and store.save_pack then writes the decision over the new
  pending pack.
- `EveryFixIsOnRecord` (run `every_fix`, src/controller/ledger_store.py:48):
  demo/architecture.md:6 promises "plus an internal event ledger for every fix" (and
  README.md:201 "Everything is audited"). The _id of a record is its run and event, and the
  upsert replaces the document: when a run is diagnosed a second time and the second pack is
  approved too, the second approve:application record replaces the first, and nothing in the
  ledger names the first fix any more, although its request was answered. deploy/cloudrun.md:161
  says it as the code does ("creates or updates deterministic records for the run").
- `EquivalentIndexIsEvidenced` (run `equivalent_index`, src/controller/orchestrator.py:136):
  orchestrator.py:610-611 says "hint by key pattern so verify uses the recommended index even if
  it already existed under another name". With an age range and a sort on customer.age the
  specification has the field twice; the driver folds it into one key, so _key_pattern_matches
  compares a two-field pattern with a three-field specification and fails, and the name differs:
  the run stays APPROVED with "recommended index not evidenced in winning plan" although that
  index was used and the sort is gone.
- `TransientErrorSurvived` (run `transient_fallback`, src/api/server.py:155): server.py:253-254
  says "Fallback keeps a transient Vertex error from failing the run". diagnose() catches
  AgentDiagnosisParseError only, which the client raises for answers it cannot use; a transient
  error of the Vertex client (a timeout, a refused call, a broken stream) is another exception,
  passes the handler and ends POST /run with 500 before the deterministic diagnosis is tried.

Others are visible in the modules without a run of their own:

- `apply_and_verify` creates the index (orchestrator.py:599) before it writes a record or a pack. When
  a later call raises, the pack is still pending although the index exists and the ledger has no
  record of the application; the pack may then be rejected. README.md:201 says "Everything is
  audited", and ApprovalGatePanel.tsx:73 says of a rejected run "The gate is closed without mutation."
  What does hold is `ReportedIsAudited`: the gap is not behind a request at the time it is answered.
- `POST /run` without a captured query explains the fixture with the hint `esr_wrong_B`
  (server.py:138), an index that `seed_workload` drops: on the baseline the explain raises
  (`DiagnoseFixture` in `Workload`).
- approval.ts:60-64 shows every 409 as "The evidence changed since you reviewed it", and
  APPROVAL_CONTRACT.md:36 defines 409 as "`evidence_hash` no longer matches the pending pack". The endpoint
  also answers 409 when the run is already decided (routes.py:176), for the same evidence perhaps: the
  operator whose own first click was recorded and whose answer was lost reads that it changed. A pack
  without a gate is refused with 409 too (routes.py:185), and for it nothing changed at all. So
  `RefusalHasCause` does not say that the message is true, only that the run moved on behind a pending pack.
- diagnosis.py:72 reports "No blocking sort detected; query is served in index order." for every plan
  without a blocking sort, among them the collection scan of a query with an age range only and no sort
  (`Anyone` in `MCWorkload`): no index serves it, and `slow_signal` ranks it high.
- Agents may explain another query than the one of the request, and nothing compares the two
  (see the hazard at server.py:186).
- A query without any parameter is queued as slow (a collection scan) and then refused by `POST /run`.
- The check "SORT removed" passes for a query that never had one, since it looks at the
  after-plan only.

## What is proved

TLAPS proves, for any sets of instances, requests, runs, proposals, indexes and any number of
disturbances, under `FlowAssumption` and `NoneIsFresh` (types of the constants, decision and
run requests disjoint), and of the workload for any sets of requests, runs, specifications and
measurements under `GuidedAssumption` and `WorkloadAssumption` (measurements are natural numbers,
`None` is no parameter, no sort field and no status; `PresetsAreOffered`: the presets name stores and
methods there are), of the pipeline for any sets of requests, runs, queries,
agents and any streams (`PipelineAssumption`), of the review for any number of submissions, loads
and packs (`ReviewAssumption`: the example is a proposal, the operator an approver), and of the
sessions for any accounts, secrets, life of a token and granularity of the clock
(`SessionAssumption`). `OneInstance` and `MaxDisturbances = 0` are hypotheses of the single theorems that
name them, never of a module:

- `FlowInvariant` (ApprovalFlow_proofs): The inductive invariant: what each coroutine knows at
  each of its steps whatever other requests, instances and faults did since.
- `AuditIsWrittenAhead` (ApprovalFlow_proofs): A pack is never visible before the ledger has
  every record it rests on.
- `MutationIsGated` (ApprovalFlow_proofs): An index is created only for the hash an operator
  presented of a pack that was pending, and is the index it recommends.
- `NoFalseApplication` (ApprovalFlow_proofs): An approved or verified pack and an application
  record follow the creation of the index they name.
- `DecisionsAreTheOperators` (ApprovalFlow_proofs): A decided pack is the one an operator's
  decision made, and names that operator.
- `PacksStayValid` (ApprovalFlow_proofs): Every pack a handler carries or the store returns
  passes the schema's validators.
- `NoRunIsStuckAtItsGate` (ApprovalFlow_proofs): A decision the endpoint accepts is refused by
  none of the checks behind it.
- `TypeCorrect` (ApprovalFlow_proofs): Every variable of the flow keeps its type.
- `FlowImplementsPromise` (ApprovalFlow_proofs): The flow implements GatedRun: every step maps
  to Offer, Apply, Conclude or a stutter.
- `FlowImplementsRecord` (ApprovalFlow_proofs): The flow implements RunRecord: what is stored is
  a diagnosis or one decision, by its operator, on a diagnosis this run was offered.
- `LoopIsExclusive` (SingleInstance_proofs): For any number of instances: each event loop is
  held by exactly the handler that is between two driver calls, whatever raises or crashes.
- `ReportsAreAudited` (SingleInstance_proofs): For any number of instances and faults: at the
  moment a request that created an index is answered, each record of the application is the one
  of its own decision (hash, outcome, operator), or one a decision on another instance wrote
  over it.
- `SoloInvariant` (SingleInstance_proofs): The inductive invariant of one instance: the loop,
  what a rejecting handler knows of the store, and, while nothing raised, what each handler has
  written of its sequence.
- `UndisturbedAuditAgrees` (SingleInstance_proofs): With one instance, until something raises,
  crashes or is reset, the ledger agrees with every pack of a run no handler is writing.
- `HealthyAuditAgrees` (SingleInstance_proofs): With one instance and no disturbance at all, the
  audit always agrees.
- `RejectionsDecideWhatTheyRead` (SingleInstance_proofs): With one instance, a rejection is
  recorded on the very pack that was pending until that step.
- `RejectionHidesNothing` (SingleInstance_proofs): With one instance, a rejection never replaces
  a pack whose index was applied, whatever else fails.
- `GuardsAgree` (EvidencePack_proofs): The already-decided check and the gate check never
  disagree on a valid pack that has a gate.
- `AcceptedIsNeverRefused` (EvidencePack_proofs): The ticket, controller and rejection checks
  follow from the endpoint's on a valid pack.
- `BuildersAreValid` (EvidencePack_proofs): The packs built from a valid pending pack pass the
  validators.
- `LoopInvariant` (Workload_proofs): The inductive invariant: what is logged was built and
  measured, and the after-plan of a run is that of an index of its recommended pattern.
- `WorkloadTypeCorrect` (Workload_proofs): Every variable keeps its type; every index of the
  collection is the fixture's, the baseline's or one recommended for a query the builder makes.
- `LoggedQueriesAreSafe` (Workload_proofs): Everything in query_log passes the re-check.
- `SortsAreRankedFirst` (Workload_proofs): While the queue shows a capture that did not sort in
  memory, it shows every one that did, and ranks it higher: whatever was measured and whatever
  the limit.
- `FixedQueriesDoNotSort` (Workload_proofs): A query measured on its recommended index does not
  sort in memory.
- `VerifiedIsEvidenced` (Workload_proofs): A VERIFIED run was measured on an index of the
  recommended pattern and something got better.
- `FixesServeTheirClass` (Workload_proofs): While the index of a measured run is there, every
  query of its class has a plan without a sort.
- `ResetMakesTraps` (Workload_proofs): A reset leaves indexes on which every trap preset sorts
  in memory or scans the collection, and no healthy preset does, but for those that approvals
  created behind it.
- `BuiltQueryIsSafe` (EsrDiagnosis_proofs): The query built from any valid specification passes
  the re-check and sorts on one known field at most.
- `EsrIndexSuppliesOrder` (EsrDiagnosis_proofs): The Equality-Sort-Range index of any query with
  at most one sort supplies its order, folded keys included.
- `PipelineInvariantHolds` (AgentPipeline_proofs): The inductive invariant: what a handler
  carries through its four calls, and that serving implies an accepted configuration.
- `PipelineTypeCorrect` (AgentPipeline_proofs): Every variable keeps its type; no malformed
  evidence reaches a pack.
- `ControllerAlwaysDecides` (AgentPipeline_proofs): The stored and applied recommendation is the
  ESR index of the run's query, whatever the agents answer.
- `AgentEvidenceAlwaysAccounted` (AgentPipeline_proofs): A pack with evidence of the agents
  rests on one right response per call, and its trace names three distinct agents.
- `DiagnosesAreOfOnePiece` (AgentPipeline_proofs): Evidence, narrative, validation, trace and
  ledger source of a diagnosis agree on who made it.
- `ProductionFailsClosed` (AgentPipeline_proofs): Production serves only with its secrets and
  three distinct agents, and never diagnoses without asking them.
- `ReviewInvariantHolds` (RunReview_proofs): The inductive invariant: what a page, a submission
  and a lookup know of the run, whatever the run became since.
- `PageNeverAsserts` (RunReview_proofs): A live page shows a pack the run really had.
- `DecisionsAreForWhatWasShown` (RunReview_proofs): A decision is accepted only for the evidence
  that was on the operator's screen, of a pack still undecided.
- `RefusalsHaveACause` (RunReview_proofs): A run is unknown only for the bundled example, and
  the operator of a pending pack is asked to review again only when the run moved on behind the
  page.
- `GuidanceIsFresh` (RunReview_proofs): Guidance is about the pack that was read unless Voyage
  failed, and then about an earlier state of the same run.
- `GuidanceNeverLost` (RunReview_proofs): While an instance has guidance of the run, no failure
  of Voyage is answered with less.
- `ReviewImplementsRecord` (RunReview_proofs): The run of the review changes as RunRecord says:
  a diagnosis, or one decision of a diagnosis that was offered.
- `SessionInvariantHolds` (Session_proofs): The inductive invariant: whose role a token carries
  and when it was read, what its cookie outlives, and what is left to be redirected for.
- `SessionTypeCorrect` (Session_proofs): Every variable of the sessions keeps its type.
- `DashboardNeverOutlivesApi` (Session_proofs): A token the dashboard accepts is accepted by an
  API with the same secret.
- `RoutingAgreesWithRoles` (Session_proofs): No page is refused its data for the role of its
  session.
- `RevocationIsBounded` (Session_proofs): A role that was lost is good for no longer than the
  life of a token that was asked for while it was held.
- `RedirectsAreBounded` (Session_proofs): No visit is redirected more than three times while
  cookie and secrets stay.

The argument. None of the safety properties is inductive: they speak of the stores, while the
danger is in what a coroutine carries across an await. `FlowInv` says for each step of a handler
what it carries (`Carries`), which records were written before it (`Precedes`), and that a
decision carries the pack whose hash was presented and was once pending (`DecisionInv`). It is
stable because ledger records are never removed and the histories only grow, so what other
requests do cannot falsify what a coroutine knows: the proof states this once (lemmas on
`Written`, `Keeps`) and every action then only has to be checked for the request that
takes it. The refinement follows: `WritePack` is `Offer` or `Conclude`, `CreateIndex` is `Apply`,
everything else stutters.

The record. `FlowImplementsRecord` needs more than validity: `BuiltInv` says of every pack in the store
or in a handler that it is a diagnosis, or an outcome of the hash it carries, by the operator of
that request (`BuiltDecision`, `BuiltByController`). Together with `DecisionInv`, that the hash was
offered for this run, `WritePack` is `Diagnose` or `Decide` also when another request has replaced the
pack meanwhile. The review carries the same in `PacksInv`: a diagnosis in `seen` is one a
builder made, so an accepted decision on it is an outcome.

One instance. The endpoints keep no lock; what protects them is that a coroutine holds the loop from
one await to the next. `LoopInv` makes this a fact about program counters, and with one instance it
says that all handlers but one are at an await. That no failure hides an application from the audit (`ReportsAreAudited`) rests on `LoopInv` and
`ApplicationRecordsInv` for any number of instances: an answered request finds each record of its
application as its own, or written for the same run by a decided request of another instance, since
on its own instance nobody ran between its records. With one instance `RejectionInv` is stable (a rejection has no
await between its read and its save), and so is `SequenceInv`: between two records of one handler
nobody writes. `AgreementInv` needs that no sequence was cut, hence its condition `disturbances = 0`;
`gate:opened` is the one record written before an await, and it is the same whoever writes it. The
rejection needs neither that nor the ledger, so `RejectionHidesNothing` holds with any failures.

The workload. That a measured run does not sort rests on two facts of operators. The index
recommended for a query holds, before its sort field, only fields the query fixes by equality
(`EsrIndexSuppliesOrder`, also when the driver folds a repeated field), so whichever index has
its key pattern serves it; and the queries a run can have are those the builder makes, with one
sort at most (`BuiltQueryIsSafe`). `WorkloadInv` carries them through the loop: it says of a
capture that it was built and measured, and of a measured run that its plan is that of an index
of its pattern. It names the plan and not the catalog, because that index may be gone since. The
class property needs nothing of the measurement: two queries of a class need the same order and
fix the same fields. `ResetMakesTraps` has two halves: the script ends with the two baseline indexes and
no others but those that approvals created behind the script (`ResetInv`), whatever there was
before, and both lack every sort
field, while each preset fixes a store or a method: so it has an indexed plan, and that sorts exactly
if the preset asks for an order. The ranking is arithmetic: scan ratio and keys together stay below a sort,
because a collection scan reads no keys.

The pipeline. A property of the stored pack needs what the handler carried when it built it:
`RequestInv` says that every call behind it has one accepted answer, of its tool alone, and that
agents were asked only in an environment that has them. The rest is stored in one step, so
`DiagnosisIsOfOnePiece` holds of it at once; it would not survive an await between the records and
the pack. `ControllerDecides` holds although nothing is known of the evidence.

The review. The page, a submission and a load each carry packs the run once had, and `seen` only
grows, so what was genuine stays genuine (`SubmissionKept`, `PageKept`). The hash of a submission is
that of the pack on the page, and by the validators a hash is its proposal: so whatever pack the
endpoint finds with that hash, it is for that evidence. A refusal keeps the pack that was found,
and for a pending pack each of the three answers behind a 409 excludes that the endpoint found the
very pack that was shown.

The sessions. `DashboardIsStricter` is arithmetic of instants. `BoundedRevocation` needs `HistoryInv`: a
token's role was read while the account had it, and the token's life counts from the signing.
`RedirectsEnd` needs to know why a redirect happened: `RedirectInv` says what each further hop leaves
to be sent away for, and after the third nothing is.

Only model-checked: liveness, which is out of the prover's reach (`EveryRequestEnds`,
`ApplicationIsAudited`, `EveryVisitEnds`). Every invariant, action property and refinement a passing run
checks is a theorem.

## What is not modelled, or only in part

- Baseline and demo data (partly): The reset index by index and the contract of the presets are
  in Workload, the drop of the recommended indexes as one step in ApprovalFlow. Generating the
  fixture's documents is pure data and not modelled.
- Narrator (not_modelled): Off in the live engine (api/server.py:107); it writes text no guard
  reads.
- Dashboard views (partly): The run page and its approval panel, which have state, are in
  RunReview. The other views present what the API returned and keep no state a property could be
  about.
- ADK agents and MCP client (partly): What the native tools answer, with their errors, is
  ToolPayload of AgentPipeline. The runtime that decides when to call a tool is external and any
  choice of it is in AgentAnswers; the MCP backend and its allowlist serve the local demo only.
- Deployment and secrets (not_modelled): Scripts run by hand and a secret read at start-up; the
  number of instances they allow is the Instances of ApprovalFlow.
- Evaluations (not_modelled): Offline grading of stored agent answers; nothing depends on it at
  run time.
- Contract generator and examples (not_modelled): Writes the JSON schema of the pack's types;
  the validators it comes from are in EvidencePack.
- Spikes and demo video (not_modelled): Throw-away experiments and recorded material, not part
  of the running system.
