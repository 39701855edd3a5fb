---------------------------- MODULE EvidencePack ----------------------------
(***************************************************************************)
(* The evidence pack (controller/schemas.py), the builders that move it    *)
(* from one status to the next (controller/orchestrator.py) and the checks *)
(* the decision endpoint makes on it (api/routes.py).                      *)
(*                                                                         *)
(* A proposal stands for one (before-evidence, recommendation) pair.  The  *)
(* evidence hash is a SHA-256 of that pair, so it is modelled by the       *)
(* proposal it was computed from: two packs have the same hash exactly     *)
(* when they bind the same proposal.                                       *)
(***************************************************************************)
CONSTANTS
  Proposals,   \* (before-evidence, recommendation) pairs a diagnosis can end with
  Approvers,   \* names recorded as the approver
  None         \* Python's None

\* The absent value is none of the values it stands in for.
ASSUME NoneIsFresh == None \notin Proposals \cup Approvers

PackStatus == {"diagnosed", "rejected", "approved", "verified"}

\* After-evidence, told apart by whether it passes all the strict checks.
AfterEvidence == {"absent", "passed", "failed"}

Decision == [action : {"approve", "reject", "defer"}, hash : Proposals]
NoDecision == [action |-> "none", hash |-> None]

GateState == {"collecting_evidence", "pending_approval", "approved", "rejected", "verified"}

Gate == [state    : GateState,
         required : Proposals \cup {None},
         approved : Proposals \cup {None},
         approver : Approvers \cup {None}]
NoGate == [state |-> "none", required |-> None, approved |-> None, approver |-> None]

Pack == [proposal : Proposals,
         hash     : Proposals,
         status   : PackStatus,
         after    : AfterEvidence,
         decision : Decision \cup {NoDecision},
         gate     : Gate \cup {NoGate}]

\* What the store returns for an unknown run.
NoPack == [proposal |-> None, hash |-> None, status |-> "absent", after |-> "absent",
           decision |-> NoDecision, gate |-> NoGate]

-----------------------------------------------------------------------------
(* The four model validators of EvidencePack.                              *)

HashBindsProposal(p) == p.hash = p.proposal

DecisionBindsPack(p) == p.decision # NoDecision => p.decision.hash = p.hash

StatusMatchesDecision(p) ==
  /\ p.status = "diagnosed" => p.decision = NoDecision /\ p.after = "absent"
  /\ p.status = "rejected"  => p.decision.action = "reject" /\ p.after = "absent"
  /\ p.status \in {"approved", "verified"} =>
       p.decision.action = "approve" /\ p.after # "absent"

GateMatchesStatus(p) ==
  LET g == p.gate IN
  g # NoGate =>
    /\ g.required \in {None, p.hash}
    /\ g.approved \in {None, p.hash}
    /\ p.status = "diagnosed" =>
         g.state = "pending_approval" /\ g.required # None /\ g.approved = None
    /\ p.status = "rejected" => g.state = "rejected" /\ g.approver # None
    /\ p.status \in {"approved", "verified"} =>
         g.state = p.status /\ g.approved # None /\ g.approver # None

Valid(p) ==
  /\ HashBindsProposal(p)
  /\ DecisionBindsPack(p)
  /\ StatusMatchesDecision(p)
  /\ GateMatchesStatus(p)

-----------------------------------------------------------------------------
(* The checks of POST /packs/{run_id}/decision, in their order, and of the *)
(* approval ticket and the controller behind it.                           *)

AlreadyDecided(p) == p.decision # NoDecision \/ p.status # "diagnosed"

GatePending(p) == p.gate # NoGate /\ p.gate.state = "pending_approval"

\* Mutation: the hash of the decision is not compared.
DecisionAnswer_AnyHash(p, h) ==
  IF p = NoPack THEN "not_found"
  ELSE IF AlreadyDecided(p) THEN "already_decided"
  ELSE IF ~GatePending(p) THEN "approval_gate"
  ELSE "accepted"

DecisionAnswer(p, h) ==
  IF p = NoPack THEN "not_found"
  ELSE IF AlreadyDecided(p) THEN "already_decided"
  ELSE IF h # p.hash THEN "stale_evidence_hash"
  ELSE IF ~GatePending(p) THEN "approval_gate"
  ELSE "accepted"

\* issue_approval_ticket hands out a ticket that carries the hash h.
TicketIssued(p, h) ==
  /\ p.status = "diagnosed"
  /\ GatePending(p)
  /\ p.gate.required = h
  /\ p.hash = h

\* apply_and_verify accepts a ticket that carries the hash h.
TicketAllowsApply(p, h) ==
  /\ p.status = "diagnosed"
  /\ GatePending(p)
  /\ p.hash = h

\* reject_pack accepts the pack.
MayReject(p) == p.status = "diagnosed" /\ GatePending(p)

-----------------------------------------------------------------------------
(* The packs the controller builds.                                        *)

\* Mutation: the gate is opened without the hash it requires.
DiagnosedPack_NoHash(h) ==
  [proposal |-> h, hash |-> h, status |-> "diagnosed", after |-> "absent",
   decision |-> NoDecision,
   gate |-> [state |-> "pending_approval", required |-> None,
             approved |-> None, approver |-> None]]

DiagnosedPack(h) ==
  [proposal |-> h, hash |-> h, status |-> "diagnosed", after |-> "absent",
   decision |-> NoDecision,
   gate |-> [state |-> "pending_approval", required |-> h,
             approved |-> None, approver |-> None]]

\* A pack written before packs had gates.
LegacyPack(h) == [DiagnosedPack(h) EXCEPT !.gate = NoGate]

\* Mutations: the approver is the old gate's, or the after-evidence is forgotten.
AppliedPack_OldApprover(p, h, approver, verdict) ==
  LET status == IF verdict = "passed" THEN "verified" ELSE "approved" IN
  [p EXCEPT !.status = status, !.after = verdict,
            !.decision = [action |-> "approve", hash |-> p.hash],
            !.gate.state = status, !.gate.approved = h]

AppliedPack_NoAfter(p, h, approver, verdict) ==
  LET status == IF verdict = "passed" THEN "verified" ELSE "approved" IN
  [p EXCEPT !.status = status,
            !.decision = [action |-> "approve", hash |-> p.hash],
            !.gate = [state |-> status, required |-> p.hash,
                      approved |-> h, approver |-> approver]]

\* The index is applied: VERIFIED only if the after-evidence passes every check.
AppliedPack(p, h, approver, verdict) ==
  LET status == IF verdict = "passed" THEN "verified" ELSE "approved" IN
  [p EXCEPT !.status = status,
            !.after = verdict,
            !.decision = [action |-> "approve", hash |-> p.hash],
            !.gate = [state |-> status, required |-> p.hash,
                      approved |-> h, approver |-> approver]]

\* Mutation: the decision is not attached to the pack.
RejectedPack_NoDecision(p, approver) ==
  [p EXCEPT !.status = "rejected",
            !.gate = [state |-> "rejected", required |-> p.hash,
                      approved |-> None, approver |-> approver]]

RejectedPack(p, approver) ==
  [p EXCEPT !.status = "rejected",
            !.decision = [action |-> "reject", hash |-> p.hash],
            !.gate = [state |-> "rejected", required |-> p.hash,
                      approved |-> None, approver |-> approver]]

\* What a decision makes of the diagnosis with the hash h.
Outcomes(h, approver) ==
  {RejectedPack(DiagnosedPack(h), approver)}
    \cup {AppliedPack(DiagnosedPack(h), h, approver, verdict) : verdict \in {"passed", "failed"}}
=============================================================================
