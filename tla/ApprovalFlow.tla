---------------------------- MODULE ApprovalFlow ----------------------------
(***************************************************************************)
(* The approval flow: POST /run and POST /packs/{run_id}/decision served   *)
(* by several instances of the API, the controller behind them, and the    *)
(* three stores they share: the audit ledger, the evidence packs and the   *)
(* indexes of the target collection.                                       *)
(*                                                                         *)
(* An instance runs its requests on one event loop.  A coroutine gives the *)
(* loop up only where it awaits (the agent, an explain, the creation of an *)
(* index); the driver calls on the ledger and the pack store are           *)
(* synchronous and block the loop of their instance, never that of         *)
(* another one.  Every driver call is one atomic step on the database, and *)
(* any of them, or of the awaited calls, may raise.                        *)
(***************************************************************************)
EXTENDS EvidencePack, Naturals

CONSTANTS
  Instances,        \* instances of the API service
  RunRequests,      \* requests to POST /run
  DecisionRequests, \* requests to POST /packs/{run_id}/decision
  RunIds,
  Indexes,          \* key patterns an index can be created with
  IndexOf,          \* the recommended index of each proposal
  UseAgent,         \* the split diagnosis agent is configured
  MaxDisturbances   \* bound on crashes, raising calls and baseline resets

Requests == RunRequests \cup DecisionRequests

ASSUME FlowAssumption ==
  /\ RunRequests \cap DecisionRequests = {}
  /\ None \notin Requests
  /\ IndexOf \in [Proposals -> Indexes]
  /\ UseAgent \in BOOLEAN
  /\ MaxDisturbances \in Nat

VARIABLES
  req,          \* each request: where its handler is and what it carries
  loop,         \* the request that has the event loop of each instance, or None
  ledger,       \* the ledger record of each run and event
  packs,        \* dbre_state.evidence_packs
  indexes,      \* indexes of the target collection that approvals created
  applied,      \* history: the create_index calls that took effect
  offered,      \* history: <<run, hash>> of every pending pack ever stored
  disturbances

vars == <<req, loop, ledger, packs, indexes, applied, offered, disturbances>>

-----------------------------------------------------------------------------
(* The ledger: one record for each run and event, replaced by _id.         *)

DiagnosisEvents == {"gate:opened", "diagnose:slow_query", "diagnose:candidate",
                    "diagnose:before", "gate:pending"}
ApplicationEvents == {"approve:decision", "approve:approval",
                      "approve:application", "verify:verification"}
RejectionEvents == {"approve:decision", "approve:rejection"}
Events == DiagnosisEvents \cup ApplicationEvents \cup RejectionEvents

Record == [hash     : Proposals \cup {None},
           status   : PackStatus \cup {"collecting_evidence", "applied"},
           approver : Approvers \cup {None}]
NoRecord == [hash |-> None, status |-> "absent", approver |-> None]

\* The application record says "applied" where the others give the status of the
\* pack; only the approval and rejection records name the approver.
RecordOf(event, p) ==
  IF event = "gate:opened"
  THEN [hash |-> None, status |-> "collecting_evidence", approver |-> None]
  ELSE [hash |-> p.hash,
        status |-> IF event = "approve:application" THEN "applied" ELSE p.status,
        approver |-> IF event \in {"approve:approval", "approve:rejection"}
                     THEN p.gate.approver ELSE None]

Written(u) == {e \in Events : ledger[u][e] # NoRecord}

-----------------------------------------------------------------------------
(* Where a handler can be.  A handler about to write a ledger record is at *)
(* that record's event; "reopen" writes gate:opened again, at the start of *)
(* the fallback diagnosis.                                                 *)

LedgerSteps == Events \cup {"reopen"}
PackSteps == {"pack", "save"}
LoopSteps == LedgerSteps \cup PackSteps            \* these have the loop
AwaitSteps == {"agent", "explain", "apply", "verify"}
ReadySteps == {"unparsed", "diagnosed", "verdict"}   \* awaited call is back
Terminal == {"answered", "refused", "failed", "lost"}
Steps == {"unsent"} \cup LoopSteps \cup AwaitSteps \cup ReadySteps \cup Terminal

Request == [pc       : Steps,
            at       : Instances \cup {None},
            run      : RunIds \cup {None},
            hash     : Proposals \cup {None},
            approver : Approvers \cup {None},
            pack     : Pack \cup {NoPack}]

Unsent == [pc |-> "unsent", at |-> None, run |-> None, hash |-> None,
           approver |-> None, pack |-> NoPack]

EventOf(pc) == IF pc = "reopen" THEN "gate:opened" ELSE pc

\* Mutations: the pack is written without the verification record, or right
\* after the approval record.
LastRecords_NoVerification == {"gate:pending", "approve:rejection", "approve:application"}
LastRecords_NoApplication == {"gate:pending", "approve:rejection", "approve:approval"}

\* The last record of a diagnosis, a rejection and an application.
LastRecords == {"gate:pending", "approve:rejection", "verify:verification"}

\* The step after the write a handler is at; p is the pack it carries.
StepAfter(pc, p) ==
  CASE pc \in LastRecords          -> "pack"
    [] pc = "gate:opened"         -> IF UseAgent THEN "agent" ELSE "explain"
    [] pc = "reopen"              -> "explain"
    [] pc = "diagnose:slow_query" -> "diagnose:candidate"
    [] pc = "diagnose:candidate"  -> "diagnose:before"
    [] pc = "diagnose:before"     -> "gate:pending"
    [] pc = "approve:decision"    -> IF p.status = "rejected" THEN "approve:rejection"
                                                              ELSE "approve:approval"
    [] pc = "approve:approval"    -> "approve:application"
    [] pc = "approve:application" -> "verify:verification"
    [] pc = "pack"                -> "save"
    [] pc = "save"                -> "answered"

\* Where a coroutine goes on when its awaited call is back.
ResumeAt(pc) ==
  CASE pc = "unparsed"  -> "reopen"
    [] pc = "diagnosed" -> "diagnose:slow_query"
    [] pc = "verdict"   -> "approve:decision"

-----------------------------------------------------------------------------
Init ==
  /\ req = [r \in Requests |-> Unsent]
  /\ loop = [i \in Instances |-> None]
  /\ ledger = [u \in RunIds |-> [e \in Events |-> NoRecord]]
  /\ packs = [u \in RunIds |-> NoPack]
  /\ indexes = {}
  /\ applied = {}
  /\ offered = {}
  /\ disturbances = 0

stores == <<ledger, packs, indexes, applied, offered>>

\* POST /run: the request is validated and enters run_agent_diagnosis or
\* run_diagnosis, which begins with the gate:opened record.
ReceiveRun(r, i, u) ==
  /\ req[r] = Unsent
  /\ loop[i] = None
  /\ req' = [req EXCEPT ![r] = [Unsent EXCEPT !.pc = "gate:opened", !.at = i, !.run = u]]
  /\ loop' = [loop EXCEPT ![i] = r]
  /\ UNCHANGED <<stores, disturbances>>

\* POST /run answers 404, 422 or 503 for a captured query it cannot diagnose.
RefuseRun(r, i, u) ==
  /\ req[r] = Unsent
  /\ loop[i] = None
  /\ req' = [req EXCEPT ![r] = [Unsent EXCEPT !.pc = "refused", !.at = i, !.run = u]]
  /\ UNCHANGED <<loop, stores, disturbances>>

\* The agent answers, or the backend explains, and the pack is built.
DiagnosisReturns(r, h) ==
  /\ req[r].pc \in {"agent", "explain"}
  /\ req' = [req EXCEPT ![r].pc = "diagnosed", ![r].pack = DiagnosedPack(h)]
  /\ UNCHANGED <<loop, stores, disturbances>>

\* The agent's answer cannot be parsed: the controller diagnoses by itself.
AgentUnparsed(r) ==
  /\ req[r].pc = "agent"
  /\ req' = [req EXCEPT ![r].pc = "unparsed"]
  /\ UNCHANGED <<loop, stores, disturbances>>

\* POST decision, answered 404 or 409.  The 409s for a ticket or a rejection
\* the controller refuses are not among them: a pack that is accepted here is
\* never refused there (AcceptedIsDecidable).
RefuseDecision(r, i, u, h) ==
  /\ req[r] = Unsent
  /\ loop[i] = None
  /\ DecisionAnswer(packs[u], h) # "accepted"
  /\ req' = [req EXCEPT ![r] = [Unsent EXCEPT !.pc = "refused", !.at = i, !.run = u,
                                              !.hash = h]]
  /\ UNCHANGED <<loop, stores, disturbances>>

\* Mutations: the presented hash is not compared with the pack's, or the index
\* is not created again when it exists.
ApproveDecision_AnyHash(r, i, u, h, a) ==
  /\ req[r] = Unsent
  /\ loop[i] = None
  /\ DecisionAnswer(packs[u], packs[u].hash) = "accepted"
  /\ req' = [req EXCEPT ![r] = [pc |-> "apply", at |-> i, run |-> u, hash |-> h,
                                approver |-> a, pack |-> packs[u]]]
  /\ UNCHANGED <<loop, stores, disturbances>>

ApproveDecision_ReusesIndex(r, i, u, h, a) ==
  /\ req[r] = Unsent
  /\ loop[i] = None
  /\ DecisionAnswer(packs[u], h) = "accepted"
  /\ req' = [req EXCEPT ![r] = [pc |-> IF IndexOf[h] \in indexes THEN "verify" ELSE "apply",
                                at |-> i, run |-> u, hash |-> h,
                                approver |-> a, pack |-> packs[u]]]
  /\ UNCHANGED <<loop, stores, disturbances>>

\* POST decision "approve": the pack is read and checked, the ticket issued
\* and accepted, and the coroutine awaits the creation of the index.
ApproveDecision(r, i, u, h, a) ==
  /\ req[r] = Unsent
  /\ loop[i] = None
  /\ DecisionAnswer(packs[u], h) = "accepted"
  /\ TicketIssued(packs[u], h)
  /\ TicketAllowsApply(packs[u], h)
  /\ req' = [req EXCEPT ![r] = [pc |-> "apply", at |-> i, run |-> u, hash |-> h,
                                approver |-> a, pack |-> packs[u]]]
  /\ UNCHANGED <<loop, stores, disturbances>>

\* POST decision "reject": no await, the handler keeps the loop to its end.
RejectDecision(r, i, u, h, a) ==
  /\ req[r] = Unsent
  /\ loop[i] = None
  /\ DecisionAnswer(packs[u], h) = "accepted"
  /\ MayReject(packs[u])
  /\ req' = [req EXCEPT ![r] = [pc |-> "approve:decision", at |-> i, run |-> u, hash |-> h,
                                approver |-> a, pack |-> RejectedPack(packs[u], a)]]
  /\ loop' = [loop EXCEPT ![i] = r]
  /\ UNCHANGED <<stores, disturbances>>

\* create_index in its thread.  Creating an index that exists, under this or
\* another name, succeeds and changes nothing.
CreateIndex(r) ==
  LET p == req[r].pack IN
  /\ req[r].pc = "apply"
  /\ indexes' = indexes \cup {IndexOf[p.proposal]}
  /\ applied' = applied \cup {[by |-> r, run |-> req[r].run, hash |-> req[r].hash,
                               index |-> IndexOf[p.proposal]]}
  /\ req' = [req EXCEPT ![r].pc = "verify"]
  /\ UNCHANGED <<loop, ledger, packs, offered, disturbances>>

\* The after-explain, hinted with the index, and the strict checks on it.
VerifyReturns(r, verdict) ==
  LET p == req[r].pack IN
  /\ req[r].pc = "verify"
  /\ IndexOf[p.proposal] \in indexes
  /\ req' = [req EXCEPT ![r].pc = "verdict",
                        ![r].pack = AppliedPack(p, req[r].hash, req[r].approver, verdict)]
  /\ UNCHANGED <<loop, stores, disturbances>>

\* An explain that hints an index that is gone raises: the request ends in 500.
VerifyHintMissing(r) ==
  /\ req[r].pc = "verify"
  /\ IndexOf[req[r].pack.proposal] \notin indexes
  /\ req' = [req EXCEPT ![r].pc = "failed"]
  /\ UNCHANGED <<loop, stores, disturbances>>

\* The coroutine has the loop again.
Resume(r) ==
  /\ req[r].pc \in ReadySteps
  /\ loop[req[r].at] = None
  /\ loop' = [loop EXCEPT ![req[r].at] = r]
  /\ req' = [req EXCEPT ![r].pc = ResumeAt(req[r].pc)]
  /\ UNCHANGED <<stores, disturbances>>

\* Mutations: every driver call is awaited, or awaiting keeps the loop.
Advance_Yields(r) ==
  /\ req' = [req EXCEPT ![r].pc = StepAfter(req[r].pc, req[r].pack)]
  /\ loop' = [loop EXCEPT ![req[r].at] = None]

Advance_Blocks(r) ==
  /\ req' = [req EXCEPT ![r].pc = StepAfter(req[r].pc, req[r].pack)]
  /\ UNCHANGED loop

\* One driver call of a handler that has the loop, and on to the next step;
\* the loop is free again when that is an await or the answer.
Advance(r) ==
  LET next == StepAfter(req[r].pc, req[r].pack) IN
  /\ req' = [req EXCEPT ![r].pc = next]
  /\ loop' = [loop EXCEPT ![req[r].at] = IF next \in LoopSteps THEN r ELSE None]

\* Mutation: a record that exists is not replaced.
WriteRecord_KeepsFirst(r) ==
  /\ req[r].pc \in LedgerSteps
  /\ ledger' = [ledger EXCEPT ![req[r].run][EventOf(req[r].pc)] =
                  IF @ # NoRecord THEN @ ELSE RecordOf(EventOf(req[r].pc), req[r].pack)]
  /\ Advance(r)
  /\ UNCHANGED <<packs, indexes, applied, offered, disturbances>>

WriteRecord(r) ==
  /\ req[r].pc \in LedgerSteps
  /\ ledger' = [ledger EXCEPT ![req[r].run][EventOf(req[r].pc)] =
                  RecordOf(EventOf(req[r].pc), req[r].pack)]
  /\ Advance(r)
  /\ UNCHANGED <<packs, indexes, applied, offered, disturbances>>

\* The ledger's copy of the pack, then the route's own save of it: both
\* replace the one document the run has in evidence_packs.
WritePack(r) ==
  LET u == req[r].run
      p == req[r].pack
  IN /\ req[r].pc \in PackSteps
     /\ packs' = [packs EXCEPT ![u] = p]
     /\ offered' = IF p.status = "diagnosed" THEN offered \cup {<<u, p.hash>>}
                                             ELSE offered
     /\ Advance(r)
     /\ UNCHANGED <<ledger, indexes, applied, disturbances>>

-----------------------------------------------------------------------------
(* What can go wrong.                                                      *)

Disturb == disturbances < MaxDisturbances /\ disturbances' = disturbances + 1

\* Mutation: an index creation that raises is taken for one that worked.
CallRaises_ApplySwallowed(r) ==
  /\ req[r].pc \in AwaitSteps \cup LoopSteps
  /\ Disturb
  /\ req' = [req EXCEPT ![r].pc = IF @ = "apply" THEN "verify" ELSE "failed"]
  /\ loop' = IF req[r].pc \in LoopSteps THEN [loop EXCEPT ![req[r].at] = None] ELSE loop
  /\ UNCHANGED stores

\* An awaited or a driver call raises: the request ends in 500.
CallRaises(r) ==
  /\ req[r].pc \in AwaitSteps \cup LoopSteps
  /\ Disturb
  /\ req' = [req EXCEPT ![r].pc = "failed"]
  /\ loop' = IF req[r].pc \in LoopSteps THEN [loop EXCEPT ![req[r].at] = None] ELSE loop
  /\ UNCHANGED stores

\* An instance dies with the requests it serves, and is started again.
Crash(i) ==
  LET served == {r \in Requests : req[r].at = i /\ req[r].pc \notin Terminal \cup {"unsent"}} IN
  /\ served # {}
  /\ Disturb
  /\ req' = [r \in Requests |-> IF r \in served THEN [req[r] EXCEPT !.pc = "lost"]
                                              ELSE req[r]]
  /\ loop' = [loop EXCEPT ![i] = None]
  /\ UNCHANGED stores

\* seed_workload drops every recommended index.
ResetBaseline ==
  /\ indexes # {}
  /\ Disturb
  /\ indexes' = {}
  /\ UNCHANGED <<req, loop, ledger, packs, applied, offered>>

-----------------------------------------------------------------------------
Receive(r) ==
  \E i \in Instances, u \in RunIds :
    \/ r \in RunRequests /\ ReceiveRun(r, i, u)
    \/ r \in RunRequests /\ RefuseRun(r, i, u)
    \/ /\ r \in DecisionRequests
       /\ \E h \in Proposals, a \in Approvers :
            \/ RefuseDecision(r, i, u, h)
            \/ ApproveDecision(r, i, u, h, a)
            \/ RejectDecision(r, i, u, h, a)

\* The steps by which a request that was received goes on.
Proceed(r) ==
  \/ \E h \in Proposals : DiagnosisReturns(r, h)
  \/ AgentUnparsed(r)
  \/ CreateIndex(r)
  \/ \E verdict \in {"passed", "failed"} : VerifyReturns(r, verdict)
  \/ VerifyHintMissing(r)
  \/ Resume(r)
  \/ WriteRecord(r)
  \/ WritePack(r)

Next ==
  \/ \E r \in Requests : Receive(r) \/ Proceed(r) \/ CallRaises(r)
  \/ \E i \in Instances : Crash(i)
  \/ ResetBaseline

Spec == Init /\ [][Next]_vars

\* A received request goes on: every awaited call returns or raises, and the
\* event loop runs every coroutine that is ready.
FairSpec == Spec /\ \A r \in Requests : WF_vars(Proceed(r))

-----------------------------------------------------------------------------
(* Properties.                                                             *)

Application == [by : DecisionRequests, run : RunIds, hash : Proposals, index : Indexes]

\* The type invariant of the flow.
TypeOK ==
  /\ req \in [Requests -> Request]
  /\ loop \in [Instances -> Requests \cup {None}]
  /\ ledger \in [RunIds -> [Events -> Record \cup {NoRecord}]]
  /\ packs \in [RunIds -> Pack \cup {NoPack}]
  /\ indexes \subseteq Indexes
  /\ applied \subseteq Application
  /\ offered \subseteq RunIds \X Proposals
  /\ disturbances \in 0 .. MaxDisturbances

\* The audit is written ahead: a pack is never visible in the store before the
\* ledger has every record of how it came about, whichever of the calls in
\* between raises, whichever instance dies and however they interleave
\* (write_diagnosis_records, write_application_records, write_rejection_records).
WriteAheadAudit ==
  \A u \in RunIds :
    /\ packs[u] # NoPack => DiagnosisEvents \subseteq Written(u)
    /\ packs[u].status \in {"approved", "verified"} => ApplicationEvents \subseteq Written(u)
    /\ packs[u].status = "rejected" => RejectionEvents \subseteq Written(u)

\* The gate: an index is created only by a request whose operator presented
\* the hash of a pack that was pending in that run, and it is the index that
\* this pack recommends (decide_pack, issue_approval_ticket, apply_and_verify).
GatedMutation ==
  \A m \in applied :
    /\ <<m.run, m.hash>> \in offered
    /\ m.index = IndexOf[m.hash]
    /\ req[m.by].run = m.run
    /\ req[m.by].hash = m.hash

\* Neither the store nor the audit ever shows an application that did not
\* happen: a pack that is approved or verified, and an application record,
\* follow the creation of the very index they name.
ApplicationsAreReal ==
  \A u \in RunIds :
    LET Happened(h) == \E m \in applied : m.run = u /\ m.hash = h
        record == ledger[u]["approve:application"]
    IN /\ packs[u].status \in {"approved", "verified"} => Happened(packs[u].hash)
       /\ record # NoRecord => Happened(record.hash)

\* The record of an event is the one this request writes of its decision, or that
\* of a decision on the same run by another instance, which replaced it.
OnRecord(r, e) ==
  \/ ledger[req[r].run][e] = RecordOf(e, req[r].pack)
  \/ \E s \in Requests :
       /\ req[s].run = req[r].run
       /\ req[s].at # req[r].at
       /\ req[s].pack.decision # NoDecision
       /\ ledger[req[r].run][e] = RecordOf(e, req[s].pack)

\* No operator is told of an application the audit does not have: at the moment
\* a request that created an index is answered, each record of the application
\* is the one of this very decision, with its hash, its outcome and its operator,
\* if no other instance has written one of its own.  The index is created first
\* and recorded later, so a call that raises in between leaves an index nobody
\* can account for, but never behind an answer (apply_and_verify,
\* write_application_records).
ReportedIsAudited ==
  [][\A m \in applied :
       req[m.by].pc # "answered" /\ req'[m.by].pc = "answered"
         => \A e \in ApplicationEvents : OnRecord(m.by, e)']_vars

\* Every decided pack in the store is the one some operator's decision made,
\* who presented its hash for this run, and its gate names that operator
\* (apply_and_verify and reject_pack build on the pack the route read, possibly
\* long before they store theirs).
DecidedByOperator ==
  \A u \in RunIds :
    packs[u].decision # NoDecision =>
      \E r \in DecisionRequests :
        /\ req[r].run = u
        /\ req[r].pack = packs[u]
        /\ req[r].hash = packs[u].hash
        /\ req[r].approver = packs[u].gate.approver

\* The schema accepts every pack a handler carries or the store returns: the
\* after-pack is validated when its index is already created, and a stored pack
\* that no longer validates could never be shown or decided (EvidencePack,
\* build_pack, load_pack).
PacksAreValid ==
  /\ \A r \in Requests : req[r].pack # NoPack => Valid(req[r].pack)
  /\ \A u \in RunIds : packs[u] # NoPack => Valid(packs[u])

\* No run gets stuck at its gate: a decision the endpoint accepts is refused by
\* none of the checks behind it, whichever way it goes (issue_approval_ticket,
\* _assert_ticket_allows_apply, reject_pack).
AcceptedIsDecidable ==
  \A u \in RunIds, h \in Proposals :
    DecisionAnswer(packs[u], h) = "accepted" =>
      TicketIssued(packs[u], h) /\ TicketAllowsApply(packs[u], h) /\ MayReject(packs[u])

\* The records that come with the status of a pack are the ones this pack gives:
\* its hash, its status or "applied", and its approver.
Agrees(p, records) ==
  LET Agree(events) == \A e \in events : records[e] = RecordOf(e, p)
  IN /\ p.status = "diagnosed" => Agree(DiagnosisEvents)
     /\ p.status = "rejected" => Agree(RejectionEvents)
     /\ p.status \in {"approved", "verified"} => Agree(ApplicationEvents)

\* While no handler is between two driver calls, the ledger agrees with every
\* pack of the store.  (One instance, and no call that raises.)
AuditAgrees ==
  (\A i \in Instances : loop[i] = None) => \A u \in RunIds : Agrees(packs[u], ledger[u])

\* A rejection never replaces a pack whose index was applied: the reject
\* handler reads, decides and saves without an await.  (One instance.)
RejectionNeverHidesApplication ==
  [][\A u \in RunIds : packs[u].status \in {"approved", "verified"}
                         => packs'[u].status # "rejected"]_vars

\* Every request that is received comes to an end.
EveryRequestEnds ==
  \A r \in Requests : req[r].pc # "unsent" ~> req[r].pc \in Terminal

\* An index that was created gets its application record, as long as no call
\* raises and no instance dies.
ApplicationIsAudited ==
  \A r \in DecisionRequests : \A u \in RunIds :
    req[r].pc = "verify" /\ req[r].run = u
      ~> ledger[u]["approve:application"].hash = req[r].hash

\* The flow implements the promise of GatedRun: the store shows the verdict.
Promise == INSTANCE GatedRun WITH
  applied <- {<<m.run, m.hash>> : m \in applied},
  verdict <- [u \in RunIds |-> [status |-> packs[u].status, proposal |-> packs[u].hash]]

ImplementsPromise == Promise!Spec

\* What the instances keep of the runs is what RunRecord promises: the pack a
\* handler stores after its awaits is a decision on a diagnosis of this run that
\* was pending, made once and by its operator (build_pack, decide_pack).
Kept == INSTANCE RunRecord WITH pack <- packs

ImplementsRecord == Kept!Spec

-----------------------------------------------------------------------------
(* What the documentation claims and the code does not do.                 *)

\* "A one-time, hash-bound human approval ticket" (README.md): no two requests
\* apply the same proposal of a run that was diagnosed once.
OneTimeTicket ==
  \A m1, m2 \in applied :
    m1.run = m2.run /\ m1.hash = m2.hash => m1.by = m2.by

\* "the server must reject if it no longer matches the current pending pack"
\* (APPROVAL_CONTRACT.md): a decision is recorded on the pack that carries its
\* hash.
DecisionMatchesCurrentPack ==
  [][\A u \in RunIds :
       packs'[u] # packs[u] /\ packs'[u].decision # NoDecision
         => packs[u].hash = packs'[u].hash]_vars

\* "an internal event ledger for every fix" (demo/architecture.md): the ledger
\* has the application record of every fix an operator was told of.
EveryFixIsOnRecord ==
  \A m \in applied :
    req[m.by].pc = "answered" => ledger[m.run]["approve:application"].hash = m.hash
=============================================================================
