------------------------ MODULE ApprovalFlowInvariant -----------------------
(***************************************************************************)
(* The inductive invariant behind the safety properties of ApprovalFlow:   *)
(* what the coroutine of a request knows at each of its steps, in spite of *)
(* everything other requests did since it read the pack.                   *)
(***************************************************************************)
EXTENDS ApprovalFlow

Decided == {"rejected", "approved", "verified"}

\* The status of the pack a handler carries at each step.
Carries(pc, status) ==
  /\ pc \in {"gate:opened", "agent", "unparsed", "reopen", "explain"} => status = "absent"
  /\ pc \in {"diagnosed", "diagnose:slow_query", "diagnose:candidate", "diagnose:before",
             "gate:pending", "apply", "verify"} => status = "diagnosed"
  /\ pc = "approve:decision" => status \in Decided
  /\ pc = "approve:rejection" => status = "rejected"
  /\ pc \in {"verdict", "approve:approval", "approve:application",
             "verify:verification"} => status \in {"approved", "verified"}
  /\ pc \in PackSteps => status \in PackStatus

\* The records a pack of this status rests on are among these.
Audited(status, written) ==
  /\ status # "absent" => DiagnosisEvents \subseteq written
  /\ status = "rejected" => RejectionEvents \subseteq written
  /\ status \in {"approved", "verified"} => ApplicationEvents \subseteq written

\* The records that precede a step are among these.
Precedes(pc, status, written) ==
  /\ pc \in {"agent", "explain", "unparsed", "reopen", "diagnosed", "diagnose:slow_query"} =>
       {"gate:opened"} \subseteq written
  /\ pc = "diagnose:candidate" => {"gate:opened", "diagnose:slow_query"} \subseteq written
  /\ pc = "diagnose:before" =>
       {"gate:opened", "diagnose:slow_query", "diagnose:candidate"} \subseteq written
  /\ pc = "gate:pending" => DiagnosisEvents \ {"gate:pending"} \subseteq written
  /\ pc \in {"apply", "verify", "verdict"} \cup RejectionEvents \cup ApplicationEvents =>
       DiagnosisEvents \subseteq written
  /\ pc \in {"approve:approval", "approve:rejection"} => {"approve:decision"} \subseteq written
  /\ pc = "approve:application" =>
       {"approve:decision", "approve:approval"} \subseteq written
  /\ pc = "verify:verification" =>
       ApplicationEvents \ {"verify:verification"} \subseteq written
  /\ pc \in PackSteps \cup {"answered"} => Audited(status, written)

\* The hash is that of the proposal, and the decision that of the status.
Coherent(p) ==
  /\ HashBindsProposal(p)
  /\ p.status \in Decided <=> p.decision # NoDecision

\* The application a decision request makes.
ApplicationBy(r) == [by |-> r, run |-> req[r].run, hash |-> req[r].hash,
                     index |-> IndexOf[req[r].hash]]

\* A decision carries the pack its operator presented the hash of, which was
\* once pending; once its index is created, that is on record.
DecisionInv(r) ==
  LET q == req[r] IN
  q.pc \in {"apply", "verify"} \/ q.pack.status \in Decided =>
    /\ r \in DecisionRequests
    /\ q.approver \in Approvers
    /\ q.pack.hash = q.hash
    /\ <<q.run, q.hash>> \in offered
    /\ q.pack.status \in Decided => q.pack.gate.approver = q.approver
    /\ q.pc = "verify" \/ q.pack.status \in {"approved", "verified"} =>
         ApplicationBy(r) \in applied

RequestInv(r) ==
  LET q == req[r] IN
  /\ q.pc # "unsent" => q.run \in RunIds /\ q.at \in Instances
  /\ q.pc \in LoopSteps \cup AwaitSteps \cup ReadySteps =>
       Carries(q.pc, q.pack.status)
  /\ q.pc # "unsent" => Precedes(q.pc, q.pack.status, Written(q.run))
  /\ Coherent(q.pack)
  /\ DecisionInv(r)

StoreInv ==
  \A u \in RunIds :
    /\ Coherent(packs[u])
    /\ packs[u].status # "absent" => <<u, packs[u].hash>> \in offered
    /\ Audited(packs[u].status, Written(u))

\* A pack is as its diagnosis made it, or that with one decision.
Built(p) ==
  \/ p = NoPack
  \/ p = DiagnosedPack(p.hash)
  \/ \E a \in Approvers : p \in Outcomes(p.hash, a)

BuiltInv ==
  /\ \A r \in Requests : Built(req[r].pack)
  /\ \A u \in RunIds : Built(packs[u])

\* A request that has created an index measures it, ended in an error, or carries
\* the outcome.
Mutated(q) ==
  \/ q.pc \in {"verify", "failed", "lost"}
  \/ q.pc # "unsent" /\ q.pack.status \in {"approved", "verified"}

AppliedInv == \A m \in applied : Mutated(req[m.by])

\* A request that was not received carries nothing.
UnsentInv == \A r \in Requests : req[r].pc = "unsent" => req[r] = Unsent

\* The strengthening of WriteAheadAudit, GatedMutation, ApplicationsAreReal,
\* DecidedByOperator, PacksAreValid and ImplementsRecord that every step preserves
\* (orchestrator.py and ledger_store.py as run by several instances).
FlowInv ==
  /\ TypeOK
  /\ \A r \in Requests : RequestInv(r)
  /\ UnsentInv
  /\ StoreInv
  /\ AppliedInv
  /\ GatedMutation
  /\ ApplicationsAreReal
  /\ DecidedByOperator
  /\ BuiltInv
=============================================================================
