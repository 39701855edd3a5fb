------------------------- MODULE EvidencePack_proofs ------------------------
(* Theorems about the evidence pack, for every set of proposals.           *)
EXTENDS EvidencePack, TLAPS

\* A valid pack that carries a gate is undecided exactly when its gate is
\* pending: the already_decided check and the gate check of the decision
\* endpoint (routes.py) never disagree on a pack the schema accepts.
THEOREM GuardsAgree ==
  ASSUME NEW p \in Pack, Valid(p), p.gate # NoGate
  PROVE  GatePending(p) <=> ~AlreadyDecided(p)
<1>1. p.status = "diagnosed" => GatePending(p) /\ ~AlreadyDecided(p)
  BY DEF Valid, GateMatchesStatus, StatusMatchesDecision, GatePending, AlreadyDecided
<1>2. p.status # "diagnosed" => AlreadyDecided(p)
  BY DEF AlreadyDecided
<1>3. p.status # "diagnosed" => p.gate.state # "pending_approval"
  <2>1. p.status \in {"rejected", "approved", "verified"} \/ p.status = "diagnosed"
    BY DEF Pack, PackStatus
  <2>2. QED
    BY <2>1 DEF Valid, GateMatchesStatus
<1>4. QED
  BY <1>1, <1>2, <1>3 DEF GatePending

\* A valid pack the endpoint accepts a decision on is refused by none of the
\* checks behind it: issue_approval_ticket, _assert_ticket_allows_apply and
\* reject_pack never raise, so an accepted decision never turns into a 409 or
\* a 500 there.
THEOREM AcceptedIsNeverRefused ==
  ASSUME NEW p \in Pack, NEW h \in Proposals, Valid(p),
         DecisionAnswer(p, h) = "accepted"
  PROVE  TicketIssued(p, h) /\ TicketAllowsApply(p, h) /\ MayReject(p)
<1>1. p.status = "diagnosed" /\ h = p.hash /\ GatePending(p)
  BY DEF DecisionAnswer, AlreadyDecided
<1>2. p.gate.required = p.hash
  BY <1>1 DEF Valid, GateMatchesStatus, GatePending
<1>3. QED
  BY <1>1, <1>2 DEF TicketIssued, TicketAllowsApply, MayReject

\* The packs the controller builds pass the validators of the schema: neither
\* a diagnosis nor a decision on a pending pack fails to build its pack
\* after the index was created.
THEOREM BuildersAreValid ==
  ASSUME NEW p \in Pack, NEW h \in Proposals, NEW a \in Approvers,
         NEW verdict \in {"passed", "failed"},
         Valid(p), p.status = "diagnosed", p.hash = h
  PROVE  /\ Valid(DiagnosedPack(h)) /\ DiagnosedPack(h) \in Pack
         /\ Valid(AppliedPack(p, h, a, verdict)) /\ AppliedPack(p, h, a, verdict) \in Pack
         /\ Valid(RejectedPack(p, a)) /\ RejectedPack(p, a) \in Pack
<1>1. h # None /\ a # None
  BY NoneIsFresh
<1>2. p.after = "absent" /\ p.proposal = p.hash
  BY DEF Valid, StatusMatchesDecision, HashBindsProposal
<1>3. Valid(DiagnosedPack(h)) /\ DiagnosedPack(h) \in Pack
  BY <1>1 DEF DiagnosedPack, Pack, PackStatus, AfterEvidence, Gate, GateState, Valid,
     HashBindsProposal, DecisionBindsPack, StatusMatchesDecision, GateMatchesStatus
<1>4. Valid(AppliedPack(p, h, a, verdict)) /\ AppliedPack(p, h, a, verdict) \in Pack
  BY <1>1, <1>2 DEF AppliedPack, Pack, PackStatus, AfterEvidence, Gate, GateState, Decision,
     Valid, HashBindsProposal, DecisionBindsPack, StatusMatchesDecision, GateMatchesStatus
<1>5. Valid(RejectedPack(p, a)) /\ RejectedPack(p, a) \in Pack
  BY <1>1, <1>2 DEF RejectedPack, Pack, PackStatus, AfterEvidence, Gate, GateState, Decision,
     Valid, HashBindsProposal, DecisionBindsPack, StatusMatchesDecision, GateMatchesStatus
<1>6. QED
  BY <1>3, <1>4, <1>5

\* A diagnosis is a valid pack that waits for its decision.
LEMMA DiagnosisIsValid ==
  ASSUME NEW h \in Proposals
  PROVE  /\ DiagnosedPack(h) \in Pack /\ Valid(DiagnosedPack(h))
         /\ DiagnosedPack(h).hash = h /\ DiagnosedPack(h).status = "diagnosed"
BY NoneIsFresh DEF DiagnosedPack, Pack, PackStatus, AfterEvidence, Gate, GateState, NoGate, Valid,
   HashBindsProposal, DecisionBindsPack, StatusMatchesDecision, GateMatchesStatus

\* What a decision makes of a diagnosis is a valid, decided pack of the same
\* hash, whose gate names who decided.
LEMMA OutcomesAreValid ==
  ASSUME NEW h \in Proposals, NEW a \in Approvers, NEW p \in Outcomes(h, a)
  PROVE  /\ p \in Pack /\ Valid(p) /\ p.hash = h
         /\ p.status \in {"rejected", "approved", "verified"} /\ p.gate.approver = a
<1> DEFINE d == DiagnosedPack(h)
<1>1. d \in Pack /\ Valid(d) /\ d.hash = h /\ d.status = "diagnosed"
  BY DiagnosisIsValid
<1> HIDE DEF d
<1>2. CASE p = RejectedPack(d, a)
  <2>1. p \in Pack /\ Valid(p)
    BY <1>1, <1>2, BuildersAreValid, "passed" \in {"passed", "failed"}
  <2>2. QED
    BY <1>1, <1>2, <2>1 DEF RejectedPack, Pack
<1>3. ASSUME NEW verdict \in {"passed", "failed"}, p = AppliedPack(d, h, a, verdict)
      PROVE  /\ p \in Pack /\ Valid(p) /\ p.hash = h
             /\ p.status \in {"rejected", "approved", "verified"} /\ p.gate.approver = a
  <2>1. p \in Pack /\ Valid(p)
    BY <1>1, <1>3, BuildersAreValid
  <2>2. QED
    BY <1>1, <1>3, <2>1 DEF AppliedPack, Pack
<1>4. QED
  BY <1>2, <1>3 DEF Outcomes, d
=============================================================================
