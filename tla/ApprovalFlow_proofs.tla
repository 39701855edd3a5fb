------------------------ MODULE ApprovalFlow_proofs -------------------------
(***************************************************************************)
(* FlowInv is an invariant of the approval flow, for every number of       *)
(* instances, requests, runs and disturbances; the safety properties and   *)
(* the refinement of GatedRun follow from it.                              *)
(***************************************************************************)
EXTENDS ApprovalFlowInvariant, EvidencePack_proofs

USE DEF Decided

-----------------------------------------------------------------------------
(* What no step takes back.                                                *)

\* A request keeps what it was received with, and the decided pack it built.
Keeps(s) ==
  req[s].pc # "unsent" =>
    /\ req'[s].pc # "unsent"
    /\ req'[s].at = req[s].at
    /\ req'[s].run = req[s].run
    /\ req'[s].hash = req[s].hash
    /\ req'[s].approver = req[s].approver
    /\ req[s].pack.status \in Decided => req'[s].pack = req[s].pack

\* The histories and the ledger only grow.
Grows ==
  /\ offered \subseteq offered'
  /\ applied \subseteq applied'
  /\ \A u \in RunIds : Written(u) \subseteq Written(u)'

\* A step of r concerns no other request.
Only(r) == \A s \in Requests \ {r} : req'[s] = req[s]

\* A present pack is a pack.
LEMMA PresentPack ==
  ASSUME NEW p \in Pack \cup {NoPack}, p.status # "absent"
  PROVE  p \in Pack
BY DEF NoPack

\* A request still stands where it stood if the step was not its own.
LEMMA OthersStand ==
  ASSUME NEW s \in Requests, RequestInv(s), req'[s] = req[s], Grows, TypeOK
  PROVE  RequestInv(s)'
<1>1. ApplicationBy(s)' = ApplicationBy(s)
  BY DEF ApplicationBy
<1>2. DecisionInv(s)'
  BY <1>1 DEF RequestInv, DecisionInv, Grows
<1>3. (req[s].pc # "unsent" =>
         Precedes(req[s].pc, req[s].pack.status, Written(req[s].run)))'
  BY DEF RequestInv, Grows, Precedes, Audited
<1>4. QED
  BY <1>2, <1>3 DEF RequestInv

\* The record a handler is about to write is one the ledger can hold.
LEMMA RecordIsPresent ==
  ASSUME NEW r \in Requests, RequestInv(r), TypeOK, req[r].pc \in LedgerSteps
  PROVE  /\ req[r].run \in RunIds
         /\ EventOf(req[r].pc) \in Events
         /\ RecordOf(EventOf(req[r].pc), req[r].pack) \in Record
         /\ RecordOf(EventOf(req[r].pc), req[r].pack) # NoRecord
<1> DEFINE pc == req[r].pc
           p == req[r].pack
           e == EventOf(pc)
<1>1. req[r].run \in RunIds /\ e \in Events
  BY DEF RequestInv, LedgerSteps, Events, DiagnosisEvents, ApplicationEvents,
     RejectionEvents, EventOf
<1>2. p \in Pack \cup {NoPack}
  BY DEF TypeOK, Request
<1>3. CASE e = "gate:opened"
  BY <1>1, <1>3 DEF RecordOf, Record, NoRecord
<1>4. CASE e # "gate:opened"
  <2>1. p.status # "absent"
    <3>1. Carries(pc, p.status)
      BY DEF RequestInv, LoopSteps
    <3>2. pc \in {"diagnose:slow_query", "diagnose:candidate", "diagnose:before",
                  "gate:pending", "approve:decision", "approve:approval",
                  "approve:application", "verify:verification", "approve:rejection"}
      BY <1>4 DEF LedgerSteps, Events, DiagnosisEvents, ApplicationEvents,
         RejectionEvents, EventOf
    <3>3. QED
      BY <3>1, <3>2 DEF Carries
  <2>2. p \in Pack
    BY <1>2, <2>1, PresentPack
  <2>3. p.gate.approver \in Approvers \cup {None}
    BY <2>2 DEF Pack, Gate, NoGate
  <2>4. RecordOf(e, p) = [hash |-> p.hash,
                          status |-> IF e = "approve:application" THEN "applied" ELSE p.status,
                          approver |-> IF e \in {"approve:approval", "approve:rejection"}
                                       THEN p.gate.approver ELSE None]
    BY <1>4 DEF RecordOf
  <2>5. QED
    BY <1>1, <2>1, <2>2, <2>3, <2>4 DEF Record, NoRecord, Pack
<1>5. QED
  BY <1>1, <1>3, <1>4

\* Writing a record adds its event to those written for the run.
LEMMA WriteRecordAdds ==
  ASSUME NEW r \in Requests, RequestInv(r), TypeOK, WriteRecord(r)
  PROVE  /\ \A u \in RunIds : Written(u) \subseteq Written(u)'
         /\ \A u \in RunIds : u = req[r].run => EventOf(req[r].pc) \in Written(u)'
<1> DEFINE run == req[r].run
           e == EventOf(req[r].pc)
           rec == RecordOf(e, req[r].pack)
<1>1. run \in RunIds /\ e \in Events /\ rec # NoRecord
  BY RecordIsPresent DEF WriteRecord
<1>2. ledger' = [ledger EXCEPT ![run][e] = rec]
  BY DEF WriteRecord
<1> HIDE DEF run, e, rec
<1>3. ASSUME NEW u \in RunIds, NEW f \in Events
      PROVE  ledger'[u][f] = IF u = run /\ f = e THEN rec ELSE ledger[u][f]
  BY <1>1, <1>2, <1>3 DEF TypeOK
<1>4. \A u \in RunIds : Written(u) \subseteq Written(u)'
  BY <1>1, <1>3 DEF Written
<1>5. ASSUME NEW u \in RunIds, u = run
      PROVE  e \in {f \in Events : ledger'[u][f] # NoRecord}
  BY <1>1, <1>3, <1>5
<1>6. QED
  BY <1>4, <1>5 DEF run, e, Written

\* What receiving a request changes.
LEMMA ReceiveSteps ==
  ASSUME TypeOK, NEW r \in Requests, Receive(r)
  PROVE  /\ req[r] = Unsent
         /\ Only(r)
         /\ UNCHANGED <<stores, disturbances>>
         /\ loop' = loop \/ \E i \in Instances : loop' = [loop EXCEPT ![i] = r]
<1>1. PICK i \in Instances, u \in RunIds :
        \/ ReceiveRun(r, i, u)
        \/ RefuseRun(r, i, u)
        \/ \E h \in Proposals, a \in Approvers :
             RefuseDecision(r, i, u, h) \/ ApproveDecision(r, i, u, h, a)
               \/ RejectDecision(r, i, u, h, a)
  BY DEF Receive
<1>2. CASE ReceiveRun(r, i, u)
  BY <1>2 DEF ReceiveRun, Only, TypeOK
<1>3. CASE RefuseRun(r, i, u)
  BY <1>3 DEF RefuseRun, Only, TypeOK
<1>4. ASSUME NEW h \in Proposals, RefuseDecision(r, i, u, h)
      PROVE  /\ req[r] = Unsent /\ Only(r) /\ UNCHANGED <<stores, disturbances>>
             /\ loop' = loop \/ loop' = [loop EXCEPT ![i] = r]
  BY <1>4 DEF RefuseDecision, Only, TypeOK
<1>5. ASSUME NEW h \in Proposals, NEW a \in Approvers, ApproveDecision(r, i, u, h, a)
      PROVE  /\ req[r] = Unsent /\ Only(r) /\ UNCHANGED <<stores, disturbances>>
             /\ loop' = loop \/ loop' = [loop EXCEPT ![i] = r]
  BY <1>5 DEF ApproveDecision, Only, TypeOK
<1>6. ASSUME NEW h \in Proposals, NEW a \in Approvers, RejectDecision(r, i, u, h, a)
      PROVE  /\ req[r] = Unsent /\ Only(r) /\ UNCHANGED <<stores, disturbances>>
             /\ loop' = loop \/ loop' = [loop EXCEPT ![i] = r]
  BY <1>6 DEF RejectDecision, Only, TypeOK
<1>7. QED
  BY <1>1, <1>2, <1>3, <1>4, <1>5, <1>6

\* Every step leaves the histories and the ledger at least as they are.
LEMMA StepGrows ==
  ASSUME TypeOK, \A r \in Requests : RequestInv(r), Next
  PROVE  Grows
<1>1. ASSUME UNCHANGED <<ledger, applied, offered>>
      PROVE  Grows
  BY <1>1 DEF Grows, Written
<1>2. ASSUME NEW r \in Requests, Receive(r)
      PROVE  Grows
  BY <1>1, <1>2, ReceiveSteps DEF stores
<1>3. ASSUME NEW r \in Requests, Proceed(r)
      PROVE  Grows
  <2>1. CASE CreateIndex(r)
    BY <2>1 DEF CreateIndex, Grows, Written
  <2>2. CASE WriteRecord(r)
    BY <2>2, WriteRecordAdds DEF Grows, WriteRecord
  <2>3. CASE WritePack(r)
    BY <2>3 DEF WritePack, Grows, Written
  <2>4. CASE \/ \E h \in Proposals : DiagnosisReturns(r, h)
             \/ AgentUnparsed(r)
             \/ \E verdict \in {"passed", "failed"} : VerifyReturns(r, verdict)
             \/ VerifyHintMissing(r)
             \/ Resume(r)
    BY <1>1, <2>4 DEF DiagnosisReturns, AgentUnparsed, VerifyReturns, VerifyHintMissing,
       Resume, stores
  <2>5. QED
    BY <1>3, <2>1, <2>2, <2>3, <2>4 DEF Proceed
<1>4. ASSUME NEW r \in Requests, CallRaises(r)
      PROVE  Grows
  BY <1>1, <1>4 DEF CallRaises, stores
<1>5. ASSUME NEW i \in Instances, Crash(i)
      PROVE  Grows
  BY <1>1, <1>5 DEF Crash, stores
<1>6. ASSUME ResetBaseline
      PROVE  Grows
  BY <1>1, <1>6 DEF ResetBaseline
<1>7. QED
  BY <1>2, <1>3, <1>4, <1>5, <1>6 DEF Next

\* Every step lets every request keep what it keeps.
LEMMA StepKeeps ==
  ASSUME TypeOK, \A r \in Requests : RequestInv(r), Next, NEW s \in Requests
  PROVE  Keeps(s)
<1>1. ASSUME req'[s] = req[s]
      PROVE  Keeps(s)
  BY <1>1 DEF Keeps
<1>2. ASSUME NEW r \in Requests, Receive(r)
      PROVE  Keeps(s)
  BY <1>1, <1>2, ReceiveSteps DEF Keeps, Only, Unsent
<1>3. ASSUME NEW r \in Requests, Proceed(r)
      PROVE  Keeps(s)
  <2>1. CASE \E h \in Proposals : DiagnosisReturns(r, h)
    <3>1. req[r].pack.status \notin Decided
      BY <2>1 DEF DiagnosisReturns, RequestInv, AwaitSteps, Carries
    <3>2. QED
      BY <2>1, <3>1 DEF DiagnosisReturns, Keeps, TypeOK, Request
  <2>2. CASE \E verdict \in {"passed", "failed"} : VerifyReturns(r, verdict)
    <3>1. req[r].pack.status \notin Decided
      BY <2>2 DEF VerifyReturns, RequestInv, AwaitSteps, Carries
    <3>2. QED
      BY <2>2, <3>1 DEF VerifyReturns, Keeps, TypeOK, Request
  <2>3. CASE AgentUnparsed(r) \/ CreateIndex(r) \/ VerifyHintMissing(r)
    BY <2>3 DEF AgentUnparsed, CreateIndex, VerifyHintMissing, Keeps, TypeOK, Request
  <2>4. CASE Resume(r)
    <3>1. ResumeAt(req[r].pc) # "unsent"
      BY <2>4 DEF Resume, ResumeAt, ReadySteps
    <3>2. QED
      BY <2>4, <3>1 DEF Resume, Keeps, TypeOK, Request
  <2>5. CASE WriteRecord(r) \/ WritePack(r)
    <3>1. req' = [req EXCEPT ![r].pc = StepAfter(req[r].pc, req[r].pack)]
      BY <2>5 DEF WriteRecord, WritePack, Advance
    <3>2. StepAfter(req[r].pc, req[r].pack) # "unsent"
      BY <2>5 DEF WriteRecord, WritePack, StepAfter, LastRecords, LedgerSteps, PackSteps, Events,
         DiagnosisEvents, ApplicationEvents, RejectionEvents
    <3>3. QED
      BY <3>1, <3>2 DEF Keeps, TypeOK, Request
  <2>6. QED
    BY <1>3, <2>1, <2>2, <2>3, <2>4, <2>5 DEF Proceed
<1>4. ASSUME NEW r \in Requests, CallRaises(r)
      PROVE  Keeps(s)
  BY <1>4 DEF CallRaises, Keeps, TypeOK, Request
<1>5. ASSUME NEW i \in Instances, Crash(i)
      PROVE  Keeps(s)
  BY <1>5 DEF Crash, Keeps, TypeOK, Request
<1>6. ASSUME ResetBaseline
      PROVE  Keeps(s)
  BY <1>1, <1>6 DEF ResetBaseline
<1>7. QED
  BY <1>2, <1>3, <1>4, <1>5, <1>6 DEF Next

-----------------------------------------------------------------------------
(* The request a step is taken by.                                         *)

\* A request of no run or of a pack not yet built satisfies its invariant.
LEMMA EmptyHanded ==
  ASSUME NEW r \in Requests, NEW i \in Instances, NEW u \in RunIds,
         req'[r].pc \in {"gate:opened", "refused"}, req'[r].at = i, req'[r].run = u,
         req'[r].pack = NoPack
  PROVE  RequestInv(r)'
<1>1. Coherent(NoPack)
  BY DEF Coherent, HashBindsProposal, NoPack
<1>2. Carries("gate:opened", NoPack.status)
  BY DEF Carries, NoPack, PackSteps
<1>3. \A w : Precedes(req'[r].pc, NoPack.status, w)
  BY DEF Precedes, RejectionEvents, ApplicationEvents, PackSteps
<1>4. DecisionInv(r)'
  BY DEF DecisionInv, NoPack
<1>5. QED
  BY <1>1, <1>2, <1>3, <1>4 DEF RequestInv, LoopSteps, LedgerSteps, PackSteps, Events,
     DiagnosisEvents, ApplicationEvents, RejectionEvents, AwaitSteps, ReadySteps

\* A pack a decision is accepted on is a pending pack of the store.
LEMMA AcceptedPack ==
  ASSUME TypeOK, StoreInv, NEW u \in RunIds, NEW h \in Proposals,
         DecisionAnswer(packs[u], h) = "accepted"
  PROVE  /\ packs[u] \in Pack
         /\ packs[u].status = "diagnosed"
         /\ packs[u].hash = h
         /\ packs[u].decision = NoDecision
         /\ Coherent(packs[u])
         /\ <<u, h>> \in offered
         /\ DiagnosisEvents \subseteq Written(u)
<1>1. packs[u].status = "diagnosed" /\ packs[u].hash = h /\ packs[u].decision = NoDecision
  BY DEF DecisionAnswer, AlreadyDecided
<1>2. packs[u] \in Pack
  BY <1>1, PresentPack DEF TypeOK
<1>3. QED
  BY <1>1, <1>2 DEF StoreInv, Audited

\* Receiving a request establishes its invariant.
LEMMA ReceiveRequest ==
  ASSUME TypeOK, StoreInv, NEW r \in Requests, Receive(r)
  PROVE  RequestInv(r)'
<1>1. PICK i \in Instances, u \in RunIds :
        \/ ReceiveRun(r, i, u)
        \/ RefuseRun(r, i, u)
        \/ /\ r \in DecisionRequests
           /\ \E h \in Proposals, a \in Approvers :
                RefuseDecision(r, i, u, h) \/ ApproveDecision(r, i, u, h, a)
                  \/ RejectDecision(r, i, u, h, a)
  BY DEF Receive
<1>2. CASE ReceiveRun(r, i, u)
  BY <1>2, EmptyHanded DEF ReceiveRun, TypeOK, Unsent
<1>3. CASE RefuseRun(r, i, u)
  BY <1>3, EmptyHanded DEF RefuseRun, TypeOK, Unsent
<1>4. ASSUME NEW h \in Proposals, RefuseDecision(r, i, u, h)
      PROVE  RequestInv(r)'
  BY <1>4, EmptyHanded DEF RefuseDecision, TypeOK, Unsent
<1>5. ASSUME r \in DecisionRequests, NEW h \in Proposals, NEW a \in Approvers,
             ApproveDecision(r, i, u, h, a)
      PROVE  RequestInv(r)'
  <2>1. /\ packs[u].status = "diagnosed" /\ packs[u].hash = h
        /\ Coherent(packs[u]) /\ <<u, h>> \in offered
        /\ DiagnosisEvents \subseteq Written(u)
    BY <1>5, AcceptedPack DEF ApproveDecision
  <2>2. req'[r] = [pc |-> "apply", at |-> i, run |-> u, hash |-> h,
                   approver |-> a, pack |-> packs[u]]
    BY <1>5 DEF ApproveDecision, TypeOK
  <2>3. offered' = offered /\ Written(u)' = Written(u)
    BY <1>5 DEF ApproveDecision, stores, Written
  <2>4. Carries("apply", "diagnosed")
    BY DEF Carries, PackSteps
  <2>5. Precedes("apply", "diagnosed", Written(u))
    BY <2>1 DEF Precedes, RejectionEvents, ApplicationEvents, PackSteps
  <2>6. DecisionInv(r)'
    BY <1>5, <2>1, <2>2, <2>3 DEF DecisionInv
  <2>7. QED
    BY <2>1, <2>2, <2>3, <2>4, <2>5, <2>6 DEF RequestInv
<1>6. ASSUME r \in DecisionRequests, NEW h \in Proposals, NEW a \in Approvers,
             RejectDecision(r, i, u, h, a)
      PROVE  RequestInv(r)'
  <2> DEFINE p == RejectedPack(packs[u], a)
  <2>1. /\ packs[u] \in Pack /\ packs[u].hash = h
        /\ Coherent(packs[u]) /\ <<u, h>> \in offered
        /\ DiagnosisEvents \subseteq Written(u)
    BY <1>6, AcceptedPack DEF RejectDecision
  <2>2. req'[r] = [pc |-> "approve:decision", at |-> i, run |-> u, hash |-> h,
                   approver |-> a, pack |-> p]
    BY <1>6 DEF RejectDecision, TypeOK
  <2>3. offered' = offered /\ Written(u)' = Written(u)
    BY <1>6 DEF RejectDecision, stores, Written
  <2>4. p.status = "rejected" /\ p.hash = h /\ p.proposal = h /\ p.gate.approver = a
          /\ p.decision = [action |-> "reject", hash |-> h]
    BY <2>1 DEF RejectedPack, Pack, Coherent, HashBindsProposal
  <2> HIDE DEF p
  <2>5. Coherent(p)
    BY <2>4 DEF Coherent, HashBindsProposal, NoDecision
  <2>6. Carries("approve:decision", "rejected")
    BY DEF Carries, PackSteps
  <2>7. Precedes("approve:decision", "rejected", Written(u))
    BY <2>1 DEF Precedes, RejectionEvents, ApplicationEvents, PackSteps
  <2>8. DecisionInv(r)'
    BY <1>6, <2>1, <2>2, <2>3, <2>4 DEF DecisionInv
  <2>9. QED
    BY <2>2, <2>3, <2>4, <2>5, <2>6, <2>7, <2>8 DEF RequestInv
<1>7. QED
  BY <1>1, <1>2, <1>3, <1>4, <1>5, <1>6

\* A request that only moves on keeps its invariant if it may be where it is.
LEMMA MovesOn ==
  ASSUME TypeOK, NEW r \in Requests, RequestInv(r), Grows, NEW x,
         req[r].pc # "unsent",
         req' = [req EXCEPT ![r].pc = x],
         x \in LoopSteps \cup AwaitSteps \cup ReadySteps => Carries(x, req[r].pack.status),
         \A u \in RunIds : u = req[r].run =>
            Precedes(x, req[r].pack.status, Written(u)'),
         x \in {"apply", "verify"} => req[r].pc = "apply",
         x = "verify" => ApplicationBy(r) \in applied'
  PROVE  RequestInv(r)'
<1>1. /\ req'[r].pc = x /\ req'[r].at = req[r].at /\ req'[r].run = req[r].run
      /\ req'[r].hash = req[r].hash /\ req'[r].approver = req[r].approver
      /\ req'[r].pack = req[r].pack
  BY DEF TypeOK, Request
<1>2. ApplicationBy(r)' = ApplicationBy(r)
  BY <1>1 DEF ApplicationBy
<1>3. DecisionInv(r)'
  BY <1>1, <1>2 DEF RequestInv, DecisionInv, Grows
<1>4. QED
  BY <1>1, <1>3 DEF RequestInv

\* The step after a write is allowed with the same pack, and the record that
\* was written is what it needs beyond what the write needed.
LEMMA NextStepFits ==
  ASSUME NEW pc \in LoopSteps, NEW p, NEW w, NEW w2,
         Carries(pc, p.status), Precedes(pc, p.status, w),
         w \subseteq w2, pc \in LedgerSteps => EventOf(pc) \in w2
  PROVE  LET next == StepAfter(pc, p) IN
         /\ next \in Steps \ {"unsent", "apply", "verify"}
         /\ next \in LoopSteps \cup AwaitSteps \cup ReadySteps => Carries(next, p.status)
         /\ Precedes(next, p.status, w2)
<1> USE DEF EventOf, DiagnosisEvents, RejectionEvents, ApplicationEvents, PackSteps,
            Carries, Precedes, Audited, Steps, LoopSteps, LedgerSteps, AwaitSteps,
            ReadySteps, Terminal, Events, LastRecords
<1>1. CASE pc = "gate:opened"
  BY <1>1, StepAfter(pc, p) \in {"agent", "explain"} DEF StepAfter
<1>2. CASE pc = "reopen"
  BY <1>2, StepAfter(pc, p) = "explain" DEF StepAfter
<1>3. CASE pc = "diagnose:slow_query"
  BY <1>3, StepAfter(pc, p) = "diagnose:candidate" DEF StepAfter
<1>4. CASE pc = "diagnose:candidate"
  BY <1>4, StepAfter(pc, p) = "diagnose:before" DEF StepAfter
<1>5. CASE pc = "diagnose:before"
  BY <1>5, StepAfter(pc, p) = "gate:pending" DEF StepAfter
<1>6. CASE pc = "gate:pending"
  BY <1>6, StepAfter(pc, p) = "pack" DEF StepAfter, PackStatus
<1>7. CASE pc = "approve:decision" /\ p.status = "rejected"
  BY <1>7, StepAfter(pc, p) = "approve:rejection" DEF StepAfter
<1>8. CASE pc = "approve:decision" /\ p.status # "rejected"
  BY <1>8, StepAfter(pc, p) = "approve:approval" DEF StepAfter
<1>9. CASE pc = "approve:rejection"
  BY <1>9, StepAfter(pc, p) = "pack" DEF StepAfter, PackStatus
<1>10. CASE pc = "approve:approval"
  BY <1>10, StepAfter(pc, p) = "approve:application" DEF StepAfter
<1>11. CASE pc = "approve:application"
  BY <1>11, StepAfter(pc, p) = "verify:verification" DEF StepAfter
<1>12. CASE pc = "verify:verification"
  BY <1>12, StepAfter(pc, p) = "pack" DEF StepAfter, PackStatus
<1>13. CASE pc = "pack"
  BY <1>13, StepAfter(pc, p) = "save" DEF StepAfter
<1>14. CASE pc = "save"
  BY <1>14, StepAfter(pc, p) = "answered" DEF StepAfter
<1>15. QED
  BY <1>1, <1>2, <1>3, <1>4, <1>5, <1>6, <1>7, <1>8, <1>9, <1>10, <1>11, <1>12,
     <1>13, <1>14

\* Nothing is required of a request that ended but for one that was answered.
LEMMA EndsWell ==
  ASSUME NEW x \in Terminal \ {"answered"}
  PROVE  /\ x \notin LoopSteps \cup AwaitSteps \cup ReadySteps
         /\ x # "unsent"
         /\ \A status, w : Precedes(x, status, w)
BY DEF Terminal, LoopSteps, LedgerSteps, PackSteps, Events, DiagnosisEvents,
   ApplicationEvents, RejectionEvents, AwaitSteps, ReadySteps, Precedes

\* Going on preserves the invariant of the request.
LEMMA ProceedRequest ==
  ASSUME TypeOK, NEW r \in Requests, RequestInv(r), Grows, Proceed(r)
  PROVE  RequestInv(r)'
<1>1. ASSUME NEW h \in Proposals, DiagnosisReturns(r, h)
      PROVE  RequestInv(r)'
  <2> DEFINE p == DiagnosedPack(h)
  <2>1. /\ req'[r].pc = "diagnosed" /\ req'[r].at = req[r].at
        /\ req'[r].run = req[r].run /\ req'[r].pack = p
        /\ Written(req[r].run)' = Written(req[r].run)'
        /\ req[r].pc \in {"agent", "explain"}
    BY <1>1 DEF DiagnosisReturns, TypeOK, Request
  <2>2. Coherent(p) /\ p.status = "diagnosed"
    BY DEF DiagnosedPack, Coherent, HashBindsProposal, NoDecision
  <2> HIDE DEF p
  <2>3. req[r].run \in RunIds /\ req[r].at \in Instances
    BY <2>1 DEF RequestInv
  <2>4. "gate:opened" \in Written(req[r].run)
    BY <2>1 DEF RequestInv, Precedes
  <2>5. \A w : "gate:opened" \in w => Precedes("diagnosed", "diagnosed", w)
    BY DEF Precedes, RejectionEvents, ApplicationEvents, PackSteps
  <2>6. Carries("diagnosed", "diagnosed")
    BY DEF Carries, PackSteps
  <2>7. DecisionInv(r)'
    BY <2>1, <2>2 DEF DecisionInv
  <2>8. "gate:opened" \in {e \in Events : ledger'[req'[r].run][e] # NoRecord}
    BY <1>1, <2>1, <2>4 DEF DiagnosisReturns, stores, Written
  <2>9. Precedes(req'[r].pc, req'[r].pack.status, Written(req[r].run)')
    BY <2>1, <2>2, <2>5, <2>8 DEF Written
  <2>10. QED
    BY <2>1, <2>2, <2>3, <2>6, <2>7, <2>9 DEF RequestInv
<1>2. ASSUME AgentUnparsed(r)
      PROVE  RequestInv(r)'
  <2>1. req[r].pc = "agent" /\ req' = [req EXCEPT ![r].pc = "unparsed"]
    BY <1>2 DEF AgentUnparsed
  <2>2. Carries("unparsed", req[r].pack.status)
    BY <2>1 DEF RequestInv, AwaitSteps, Carries, PackSteps
  <2>3. \A u \in RunIds : u = req[r].run =>
           Precedes("unparsed", req[r].pack.status, Written(u)')
    BY <2>1 DEF RequestInv, Precedes, Grows, RejectionEvents, ApplicationEvents, PackSteps
  <2>4. QED
    BY <2>1, <2>2, <2>3, MovesOn
<1>3. ASSUME CreateIndex(r)
      PROVE  RequestInv(r)'
  <2>1. req[r].pc = "apply" /\ req' = [req EXCEPT ![r].pc = "verify"]
    BY <1>3 DEF CreateIndex
  <2>2. Carries("verify", req[r].pack.status)
    BY <2>1 DEF RequestInv, AwaitSteps, Carries, PackSteps
  <2>3. \A u \in RunIds : u = req[r].run =>
           Precedes("verify", req[r].pack.status, Written(u)')
    BY <2>1 DEF RequestInv, Precedes, Grows, RejectionEvents, ApplicationEvents, PackSteps
  <2>4. req[r].pack.proposal = req[r].hash
    BY <2>1 DEF RequestInv, DecisionInv, Coherent, HashBindsProposal
  <2>5. ApplicationBy(r) \in applied'
    BY <1>3, <2>4 DEF CreateIndex, ApplicationBy
  <2>6. QED
    BY <2>1, <2>2, <2>3, <2>5, MovesOn
<1>4. ASSUME NEW verdict \in {"passed", "failed"}, VerifyReturns(r, verdict)
      PROVE  RequestInv(r)'
  <2> DEFINE q == req[r]
             p == AppliedPack(q.pack, q.hash, q.approver, verdict)
  <2>1. /\ req'[r].pc = "verdict" /\ req'[r].at = q.at /\ req'[r].run = q.run
        /\ req'[r].hash = q.hash /\ req'[r].approver = q.approver
        /\ req'[r].pack = p /\ q.pc = "verify"
    BY <1>4 DEF VerifyReturns, TypeOK, Request
  <2>2. /\ r \in DecisionRequests /\ q.pack.hash = q.hash /\ <<q.run, q.hash>> \in offered
        /\ q.approver \in Approvers /\ ApplicationBy(r) \in applied /\ Coherent(q.pack)
        /\ q.run \in RunIds /\ q.at \in Instances
        /\ Precedes("verify", q.pack.status, Written(q.run))
    BY <2>1 DEF RequestInv, DecisionInv
  <2>3. q.pack \in Pack
    <3>1. q.pack.status = "diagnosed"
      BY <2>1 DEF RequestInv, AwaitSteps, Carries
    <3>2. QED
      BY <3>1, PresentPack DEF TypeOK, Request
  <2>4. /\ p.status \in {"approved", "verified"} /\ p.hash = q.hash /\ p.proposal = q.hash
        /\ p.gate.approver = q.approver
        /\ p.decision = [action |-> "approve", hash |-> q.hash]
    BY <2>2, <2>3 DEF AppliedPack, Pack, Coherent, HashBindsProposal
  <2> HIDE DEF p
  <2>5. Coherent(p)
    BY <2>4 DEF Coherent, HashBindsProposal, NoDecision
  <2>6. Carries("verdict", p.status)
    BY <2>4 DEF Carries, PackSteps
  <2>7. ASSUME NEW u \in RunIds, u = q.run
        PROVE  Precedes("verdict", p.status, Written(u)')
    BY <2>2, <2>7 DEF Precedes, Grows, RejectionEvents, ApplicationEvents, PackSteps
  <2>8. ApplicationBy(r)' = ApplicationBy(r)
    BY <2>1 DEF ApplicationBy
  <2>9. DecisionInv(r)'
    BY <2>1, <2>2, <2>4, <2>8 DEF DecisionInv, Grows
  <2>10. QED
    BY <2>1, <2>2, <2>5, <2>6, <2>7, <2>9 DEF RequestInv
<1>5. ASSUME VerifyHintMissing(r)
      PROVE  RequestInv(r)'
  <2>1. req[r].pc # "unsent" /\ req' = [req EXCEPT ![r].pc = "failed"]
    BY <1>5 DEF VerifyHintMissing
  <2>2. "failed" \in Terminal
    BY DEF Terminal
  <2>3. QED
    BY <2>1, <2>2, EndsWell, MovesOn DEF AwaitSteps
<1>6. ASSUME Resume(r)
      PROVE  RequestInv(r)'
  <2> DEFINE x == ResumeAt(req[r].pc)
  <2>1. req[r].pc \in ReadySteps /\ req' = [req EXCEPT ![r].pc = x]
    BY <1>6 DEF Resume
  <2>2. Carries(x, req[r].pack.status)
    BY <2>1 DEF RequestInv, ReadySteps, ResumeAt, Carries, PackSteps
  <2>3. \A u \in RunIds : u = req[r].run => Precedes(x, req[r].pack.status, Written(u)')
    BY <2>1 DEF RequestInv, ReadySteps, ResumeAt, Precedes, Grows, DiagnosisEvents,
       RejectionEvents, ApplicationEvents, PackSteps
  <2>4. x \notin {"apply", "verify"}
    BY <2>1 DEF ReadySteps, ResumeAt
  <2>5. req[r].pc # "unsent"
    BY <2>1 DEF ReadySteps
  <2> HIDE DEF x
  <2>6. QED
    BY <2>1, <2>2, <2>3, <2>4, <2>5, MovesOn
<1>7. ASSUME WriteRecord(r) \/ WritePack(r)
      PROVE  RequestInv(r)'
  <2> DEFINE x == StepAfter(req[r].pc, req[r].pack)
  <2>1. req[r].pc \in LoopSteps /\ req' = [req EXCEPT ![r].pc = x]
    BY <1>7 DEF WriteRecord, WritePack, Advance, LoopSteps
  <2>2. req[r].pc # "unsent" /\ req[r].run \in RunIds
    BY <2>1 DEF RequestInv, LoopSteps, LedgerSteps, PackSteps, Events,
       DiagnosisEvents, ApplicationEvents, RejectionEvents
  <2>3. Carries(req[r].pc, req[r].pack.status)
          /\ Precedes(req[r].pc, req[r].pack.status, Written(req[r].run))
    BY <2>1, <2>2 DEF RequestInv
  <2>4. ASSUME NEW u \in RunIds, u = req[r].run
        PROVE  /\ Written(u) \subseteq Written(u)'
               /\ req[r].pc \in LedgerSteps => EventOf(req[r].pc) \in Written(u)'
    <3>1. CASE WriteRecord(r)
      BY <2>4, <3>1, WriteRecordAdds DEF Grows
    <3>2. CASE WritePack(r)
      BY <2>4, <3>2 DEF Grows, WritePack, PackSteps, LedgerSteps, Events,
         DiagnosisEvents, ApplicationEvents, RejectionEvents
    <3>3. QED
      BY <1>7, <3>1, <3>2
  <2>5. ASSUME NEW u \in RunIds, u = req[r].run
        PROVE  /\ x \notin {"unsent", "apply", "verify"}
               /\ x \in LoopSteps \cup AwaitSteps \cup ReadySteps =>
                    Carries(x, req[r].pack.status)
               /\ Precedes(x, req[r].pack.status, Written(u)')
    BY <2>1, <2>3, <2>4, <2>5, NextStepFits
  <2> HIDE DEF x
  <2>6. QED
    BY <2>1, <2>2, <2>5, MovesOn
<1>8. QED
  BY <1>1, <1>2, <1>3, <1>4, <1>5, <1>6, <1>7 DEF Proceed

\* Every step preserves the invariant of every request.
LEMMA StepRequest ==
  ASSUME TypeOK, StoreInv, \A r \in Requests : RequestInv(r), Next, NEW s \in Requests
  PROVE  RequestInv(s)'
<1>1. Grows
  BY StepGrows
<1>2. ASSUME req'[s] = req[s]
      PROVE  RequestInv(s)'
  BY <1>1, <1>2, OthersStand
<1>3. ASSUME NEW r \in Requests, Receive(r)
      PROVE  RequestInv(s)'
  <2>1. CASE s = r
    BY <1>3, <2>1, ReceiveRequest
  <2>2. CASE s # r
    BY <1>2, <1>3, <2>2, ReceiveSteps DEF Only
  <2>3. QED
    BY <2>1, <2>2
<1>4. ASSUME NEW r \in Requests, Proceed(r)
      PROVE  RequestInv(s)'
  <2>1. CASE s = r
    BY <1>1, <1>4, <2>1, ProceedRequest
  <2>2. CASE s # r
    <3>1. req'[s] = req[s]
      BY <1>4, <2>2 DEF Proceed, DiagnosisReturns, AgentUnparsed, CreateIndex,
         VerifyReturns, VerifyHintMissing, Resume, WriteRecord, WritePack, Advance, TypeOK
    <3>2. QED
      BY <1>2, <3>1
  <2>3. QED
    BY <2>1, <2>2
<1>5. {"failed", "lost"} \subseteq Terminal \ {"answered"}
  BY DEF Terminal
<1>6. ASSUME NEW r \in Requests, CallRaises(r)
      PROVE  RequestInv(s)'
  <2>1. CASE s = r
    <3>1. req' = [req EXCEPT ![s].pc = "failed"] /\ req[s].pc # "unsent"
      BY <1>6, <2>1 DEF CallRaises, AwaitSteps, LoopSteps, LedgerSteps, PackSteps, Events,
         DiagnosisEvents, ApplicationEvents, RejectionEvents
    <3>2. QED
      BY <1>1, <1>5, <3>1, EndsWell, MovesOn DEF AwaitSteps
  <2>2. CASE s # r
    BY <1>2, <1>6, <2>2 DEF CallRaises, TypeOK
  <2>3. QED
    BY <2>1, <2>2
<1>7. ASSUME NEW i \in Instances, Crash(i)
      PROVE  RequestInv(s)'
  <2>1. CASE req[s].at = i /\ req[s].pc \notin Terminal \cup {"unsent"}
    \* MovesOn speaks of a step that moves one request; a crash moves several.
    <3>1. /\ req'[s].pc = "lost" /\ req'[s].at = req[s].at /\ req'[s].run = req[s].run
          /\ req'[s].hash = req[s].hash /\ req'[s].approver = req[s].approver
          /\ req'[s].pack = req[s].pack
      BY <1>7, <2>1 DEF Crash, TypeOK, Request
    <3>2. ApplicationBy(s)' = ApplicationBy(s)
      BY <3>1 DEF ApplicationBy
    <3>3. DecisionInv(s)'
      BY <1>1, <3>1, <3>2 DEF RequestInv, DecisionInv, Grows
    <3>4. QED
      BY <1>5, <2>1, <3>1, <3>3, EndsWell DEF RequestInv
  <2>2. CASE ~(req[s].at = i /\ req[s].pc \notin Terminal \cup {"unsent"})
    BY <1>2, <1>7, <2>2 DEF Crash
  <2>3. QED
    BY <2>1, <2>2
<1>8. ASSUME ResetBaseline
      PROVE  RequestInv(s)'
  BY <1>2, <1>8 DEF ResetBaseline
<1>9. QED
  BY <1>3, <1>4, <1>6, <1>7, <1>8 DEF Next

-----------------------------------------------------------------------------
(* The stores and the histories.                                           *)

\* What a step leaves in the stores: each store is written by one action.
LEMMA StoreWriters ==
  ASSUME TypeOK, Next
  PROVE  /\ packs' = packs \/ \E r \in Requests : WritePack(r)
         /\ ledger' = ledger \/ \E r \in Requests : WriteRecord(r)
         /\ applied' = applied \/ \E r \in Requests : CreateIndex(r)
<1> DEFINE Good == /\ packs' = packs \/ \E r \in Requests : WritePack(r)
                   /\ ledger' = ledger \/ \E r \in Requests : WriteRecord(r)
                   /\ applied' = applied \/ \E r \in Requests : CreateIndex(r)
<1>1. ASSUME NEW r \in Requests, Receive(r)
      PROVE  UNCHANGED stores
  BY <1>1, ReceiveSteps
<1>2. ASSUME NEW r \in Requests, Proceed(r)
      PROVE  Good
  <2>1. CASE CreateIndex(r)
    BY <2>1 DEF CreateIndex
  <2>2. CASE WriteRecord(r)
    BY <2>2 DEF WriteRecord
  <2>3. CASE WritePack(r)
    BY <2>3 DEF WritePack
  <2>4. CASE \/ \E h \in Proposals : DiagnosisReturns(r, h)
             \/ AgentUnparsed(r)
             \/ \E verdict \in {"passed", "failed"} : VerifyReturns(r, verdict)
             \/ VerifyHintMissing(r)
             \/ Resume(r)
    BY <2>4 DEF DiagnosisReturns, AgentUnparsed, VerifyReturns, VerifyHintMissing,
       Resume, stores
  <2>5. QED
    BY <1>2, <2>1, <2>2, <2>3, <2>4 DEF Proceed
<1>3. QED
  BY <1>1, <1>2 DEF Next, CallRaises, Crash, ResetBaseline, stores

\* The pack a handler stores.
LEMMA StoredPack ==
  ASSUME TypeOK, NEW r \in Requests, RequestInv(r), WritePack(r)
  PROVE  LET u == req[r].run
             p == req[r].pack
         IN /\ u \in RunIds
            /\ p \in Pack
            /\ p.status # "absent"
            /\ Coherent(p)
            /\ <<u, p.hash>> \in offered'
            /\ Audited(p.status, Written(u))
            /\ packs' = [packs EXCEPT ![u] = p]
            /\ req'[r].pack = p
            /\ ledger' = ledger
            /\ applied' = applied
<1> DEFINE u == req[r].run
           p == req[r].pack
<1>1. req[r].pc \in PackSteps /\ packs' = [packs EXCEPT ![u] = p]
        /\ ledger' = ledger /\ applied' = applied
  BY DEF WritePack
<1>2. u \in RunIds /\ Coherent(p) /\ Carries(req[r].pc, p.status)
        /\ Precedes(req[r].pc, p.status, Written(u))
  BY <1>1 DEF RequestInv, LoopSteps, PackSteps
<1>3. p.status \in PackStatus /\ Audited(p.status, Written(u))
  BY <1>1, <1>2 DEF Carries, Precedes
<1>4. p \in Pack
  BY <1>3, PresentPack DEF TypeOK, Request, PackStatus
<1>5. <<u, p.hash>> \in offered'
  <2>1. CASE p.status = "diagnosed"
    BY <2>1 DEF WritePack
  <2>2. CASE p.status # "diagnosed"
    <3>1. p.status \in Decided
      BY <1>3, <2>2 DEF PackStatus
    <3>2. QED
      BY <2>2, <3>1 DEF RequestInv, DecisionInv, WritePack
  <2>3. QED
    BY <2>1, <2>2
<1>6. req'[r].pack = p
  BY DEF WritePack, Advance, TypeOK, Request
<1>7. QED
  BY <1>1, <1>2, <1>3, <1>4, <1>5, <1>6 DEF PackStatus

\* Every step preserves the invariant of the pack store.
LEMMA StepStore ==
  ASSUME TypeOK, StoreInv, \A r \in Requests : RequestInv(r), Next
  PROVE  StoreInv'
<1>1. Grows
  BY StepGrows
<1>2. SUFFICES ASSUME NEW u \in RunIds
               PROVE  (/\ Coherent(packs[u])
                       /\ packs[u].status # "absent" => <<u, packs[u].hash>> \in offered
                       /\ Audited(packs[u].status, Written(u)))'
  BY DEF StoreInv
<1>3. CASE packs'[u] = packs[u]
  <2>1. /\ Coherent(packs[u])
        /\ packs[u].status # "absent" => <<u, packs[u].hash>> \in offered
        /\ Audited(packs[u].status, Written(u))
    BY DEF StoreInv
  <2>2. Audited(packs[u].status, Written(u)')
    BY <1>1, <2>1 DEF Audited, Grows
  <2>3. QED
    BY <1>1, <1>3, <2>1, <2>2 DEF Grows
<1>4. ASSUME NEW r \in Requests, WritePack(r), req[r].run = u
      PROVE  (/\ Coherent(packs[u])
              /\ packs[u].status # "absent" => <<u, packs[u].hash>> \in offered
              /\ Audited(packs[u].status, Written(u)))'
  <2> DEFINE p == req[r].pack
  <2>1. /\ Coherent(p) /\ <<u, p.hash>> \in offered' /\ Audited(p.status, Written(u))
        /\ packs' = [packs EXCEPT ![u] = p]
    BY <1>4, StoredPack
  <2> HIDE DEF p
  <2>2. packs'[u] = p
    BY <2>1 DEF TypeOK
  <2>3. Audited(p.status, Written(u)')
    BY <1>1, <2>1 DEF Audited, Grows
  <2>4. QED
    BY <2>1, <2>2, <2>3
<1>5. ASSUME NEW r \in Requests, WritePack(r), req[r].run # u
      PROVE  packs'[u] = packs[u]
  BY <1>5 DEF WritePack, TypeOK
<1>6. QED
  BY <1>3, <1>4, <1>5, StoreWriters

\* A request that has created an index stays one.
LEMMA MutatedStays ==
  ASSUME FlowInv, Next, NEW s \in Requests, Mutated(req[s])
  PROVE  Mutated(req'[s])
<1>1. TypeOK /\ req[s] \in Request
  BY DEF FlowInv, TypeOK
<1>2. Keeps(s) /\ req[s].pc # "unsent"
  BY StepKeeps DEF FlowInv, Mutated
<1>3. CASE req[s].pack.status \in {"approved", "verified"}
  BY <1>2, <1>3 DEF Keeps, Mutated
<1>4. ASSUME req[s].pc \in {"verify", "failed", "lost"}, NEW r \in Requests, Receive(r)
      PROVE  Mutated(req'[s])
  <2>1. s # r
    BY <1>2, <1>4, ReceiveSteps, <1>1 DEF Unsent
  <2>2. QED
    BY <1>1, <1>4, <2>1, ReceiveSteps DEF Only, Mutated
<1>5. ASSUME req[s].pc \in {"verify", "failed", "lost"}, NEW r \in Requests, Proceed(r), s # r
      PROVE  Mutated(req'[s])
  <2>1. req'[s] = req[s]
    BY <1>1, <1>5 DEF Proceed, DiagnosisReturns, AgentUnparsed, CreateIndex, VerifyReturns,
       VerifyHintMissing, Resume, WriteRecord, WritePack, Advance, TypeOK
  <2>2. QED
    BY <1>5, <2>1 DEF Mutated
<1>6. ASSUME req[s].pc \in {"verify", "failed", "lost"}, Proceed(s)
      PROVE  Mutated(req'[s])
  <2>1. \/ \E verdict \in {"passed", "failed"} : VerifyReturns(s, verdict)
        \/ VerifyHintMissing(s)
    BY <1>6 DEF Proceed, DiagnosisReturns, AgentUnparsed, CreateIndex, Resume, ReadySteps,
       WriteRecord, LedgerSteps, Events, DiagnosisEvents, ApplicationEvents, RejectionEvents,
       WritePack, PackSteps
  <2>2. CASE VerifyHintMissing(s)
    BY <1>1, <2>2 DEF VerifyHintMissing, TypeOK, Mutated
  <2>3. ASSUME NEW verdict \in {"passed", "failed"}, VerifyReturns(s, verdict)
        PROVE  Mutated(req'[s])
    <3> DEFINE q == req[s]
    <3>1. q.pc = "verify" /\ req'[s].pc = "verdict"
            /\ req'[s].pack = AppliedPack(q.pack, q.hash, q.approver, verdict)
      BY <1>1, <2>3 DEF VerifyReturns, TypeOK, Request
    <3>2. q.pack.status = "diagnosed"
      BY <3>1 DEF FlowInv, RequestInv, AwaitSteps, Carries
    <3>3. q.pack \in Pack
      BY <1>1, <3>2, PresentPack DEF Request
    <3>4. AppliedPack(q.pack, q.hash, q.approver, verdict).status \in {"approved", "verified"}
      BY <3>3 DEF AppliedPack, Pack
    <3>5. QED
      BY <3>1, <3>4 DEF Mutated
  <2>4. QED
    BY <2>1, <2>2, <2>3
<1>7. ASSUME req[s].pc \in {"verify", "failed", "lost"},
             \/ \E r \in Requests : CallRaises(r)
             \/ \E i \in Instances : Crash(i)
             \/ ResetBaseline
      PROVE  req'[s].pc \in {"verify", "failed", "lost"}
  <2>1. ASSUME NEW r \in Requests, CallRaises(r)
        PROVE  req'[s].pc \in {"verify", "failed", "lost"}
    BY <1>1, <1>7, <2>1 DEF CallRaises, TypeOK, Request
  <2>2. ASSUME NEW i \in Instances, Crash(i)
        PROVE  req'[s].pc \in {"verify", "failed", "lost"}
    <3>1. req'[s] \in {req[s], [req[s] EXCEPT !.pc = "lost"]}
      BY <2>2 DEF Crash
    <3>2. [req[s] EXCEPT !.pc = "lost"].pc = "lost"
      BY <1>1 DEF Request
    <3>3. QED
      BY <1>7, <3>1, <3>2
  <2>3. ASSUME ResetBaseline
        PROVE  req' = req
    BY <2>3 DEF ResetBaseline
  <2>4. QED
    BY <1>7, <2>1, <2>2, <2>3
<1>8. CASE req[s].pc \in {"verify", "failed", "lost"}
  <2>1. (\E r \in Requests : Receive(r)) => Mutated(req'[s])
    BY <1>4, <1>8
  <2>2. (\E r \in Requests : Proceed(r)) => Mutated(req'[s])
    BY <1>5, <1>6, <1>8
  <2>3. QED
    BY <1>7, <1>8, <2>1, <2>2 DEF Next, Mutated
<1>9. QED
  BY <1>3, <1>8 DEF Mutated

\* Every step preserves what the property GatedMutation says of the
\* applications, and how far their requests are.
LEMMA StepApplied ==
  ASSUME FlowInv, Next
  PROVE  AppliedInv' /\ GatedMutation'
<1>1. Grows /\ \A s \in Requests : Keeps(s)
  BY StepGrows, StepKeeps DEF FlowInv
<1>2. SUFFICES ASSUME NEW m \in applied'
               PROVE  /\ Mutated(req'[m.by])
                      /\ <<m.run, m.hash>> \in offered'
                      /\ m.index = IndexOf[m.hash]
                      /\ req'[m.by].run = m.run
                      /\ req'[m.by].hash = m.hash
  BY DEF AppliedInv, Mutated, GatedMutation
<1>3. CASE m \in applied
  <2>1. m.by \in Requests
    BY <1>3 DEF FlowInv, TypeOK, Application, Requests
  <2>2. /\ Mutated(req[m.by]) /\ req[m.by].pc # "unsent" /\ <<m.run, m.hash>> \in offered
        /\ m.index = IndexOf[m.hash] /\ req[m.by].run = m.run /\ req[m.by].hash = m.hash
    BY <1>3 DEF FlowInv, AppliedInv, Mutated, GatedMutation
  <2>3. QED
    BY <1>1, <2>1, <2>2, MutatedStays DEF Keeps, Grows
<1>4. ASSUME NEW r \in Requests, CreateIndex(r), m \notin applied
      PROVE  /\ Mutated(req'[m.by])
             /\ <<m.run, m.hash>> \in offered'
             /\ m.index = IndexOf[m.hash]
             /\ req'[m.by].run = m.run
             /\ req'[m.by].hash = m.hash
  <2>1. /\ m.by = r /\ m.run = req[r].run /\ m.hash = req[r].hash
        /\ m.index = IndexOf[req[r].pack.proposal] /\ req[r].pc = "apply"
        /\ req'[r].pc = "verify" /\ offered' = offered
    BY <1>4 DEF CreateIndex, FlowInv, TypeOK, Request
  <2>2. req[r].pack.proposal = req[r].hash /\ <<req[r].run, req[r].hash>> \in offered
    BY <2>1 DEF FlowInv, RequestInv, DecisionInv, Coherent, HashBindsProposal
  <2>3. req'[r].run = req[r].run /\ req'[r].hash = req[r].hash
    BY <1>1, <2>1 DEF Keeps
  <2>4. QED
    BY <2>1, <2>2, <2>3 DEF Mutated
<1>5. QED
  BY <1>3, <1>4, StoreWriters DEF FlowInv

\* No step makes an unsent request of one that was received, and receiving a
\* request is the only step it takes.
LEMMA StepUnsent ==
  ASSUME FlowInv, Next
  PROVE  UnsentInv'
<1>1. TypeOK /\ UnsentInv /\ \A r \in Requests : Keeps(r)
  BY StepKeeps DEF FlowInv
<1>2. SUFFICES ASSUME NEW s \in Requests, req'[s].pc = "unsent"
               PROVE  req'[s] = req[s]
  BY <1>1 DEF UnsentInv, Keeps
<1>3. req[s].pc = "unsent"
  BY <1>1, <1>2 DEF Keeps
<1>4. ASSUME NEW r \in Requests, Receive(r)
      PROVE  req'[s] = req[s]
  <2>1. CASE s # r
    BY <1>1, <1>4, <2>1, ReceiveSteps DEF Only
  <2>2. CASE s = r
    <3>1. PICK i \in Instances, u \in RunIds :
            \/ ReceiveRun(r, i, u)
            \/ RefuseRun(r, i, u)
            \/ \E h \in Proposals, a \in Approvers :
                 RefuseDecision(r, i, u, h) \/ ApproveDecision(r, i, u, h, a)
                   \/ RejectDecision(r, i, u, h, a)
      BY <1>4 DEF Receive
    <3>2. req'[r].pc \in {"gate:opened", "refused", "apply", "approve:decision"}
      <4>1. CASE ReceiveRun(r, i, u) \/ RefuseRun(r, i, u)
        BY <1>1, <4>1 DEF ReceiveRun, RefuseRun, TypeOK, Unsent
      <4>2. ASSUME NEW h \in Proposals, RefuseDecision(r, i, u, h)
            PROVE  req'[r].pc = "refused"
        BY <1>1, <4>2 DEF RefuseDecision, TypeOK, Unsent
      <4>3. ASSUME NEW h \in Proposals, NEW a \in Approvers, ApproveDecision(r, i, u, h, a)
            PROVE  req'[r].pc = "apply"
        BY <1>1, <4>3 DEF ApproveDecision, TypeOK
      <4>4. ASSUME NEW h \in Proposals, NEW a \in Approvers, RejectDecision(r, i, u, h, a)
            PROVE  req'[r].pc = "approve:decision"
        BY <1>1, <4>4 DEF RejectDecision, TypeOK
      <4>5. QED
        BY <3>1, <4>1, <4>2, <4>3, <4>4
    <3>3. QED
      BY <1>2, <2>2, <3>2
  <2>3. QED
    BY <2>1, <2>2
<1>5. ASSUME NEW r \in Requests, Proceed(r) \/ CallRaises(r)
      PROVE  req'[s] = req[s]
  <2>1. req[r].pc # "unsent"
    BY <1>5 DEF Proceed, DiagnosisReturns, AgentUnparsed, CreateIndex, VerifyReturns,
       VerifyHintMissing, Resume, WriteRecord, WritePack, CallRaises, AwaitSteps, LoopSteps,
       ReadySteps, LedgerSteps, PackSteps, Events, DiagnosisEvents, ApplicationEvents,
       RejectionEvents
  <2>2. r # s
    BY <1>3, <2>1
  <2>3. QED
    BY <1>1, <1>5, <2>2 DEF Proceed, DiagnosisReturns, AgentUnparsed, CreateIndex,
       VerifyReturns, VerifyHintMissing, Resume, WriteRecord, WritePack, Advance,
       CallRaises, TypeOK
<1>6. ASSUME NEW i \in Instances, Crash(i)
      PROVE  req'[s] = req[s]
  BY <1>3, <1>6 DEF Crash
<1>7. ASSUME ResetBaseline
      PROVE  req'[s] = req[s]
  BY <1>7 DEF ResetBaseline
<1>8. QED
  BY <1>4, <1>5, <1>6, <1>7 DEF Next

\* Every step keeps the applications shown by packs and records real.
LEMMA StepReal ==
  ASSUME FlowInv, Next
  PROVE  ApplicationsAreReal'
<1> DEFINE Happened(s, u, h) == \E m \in s : m.run = u /\ m.hash = h
<1>1. TypeOK /\ Grows /\ \A r \in Requests : RequestInv(r)
  BY StepGrows DEF FlowInv
<1>2. \A u \in RunIds : \A h : Happened(applied, u, h) => Happened(applied', u, h)
  BY <1>1 DEF Grows
<1>3. \A u \in RunIds :
        /\ packs[u].status \in {"approved", "verified"} => Happened(applied, u, packs[u].hash)
        /\ ledger[u]["approve:application"] # NoRecord
             => Happened(applied, u, ledger[u]["approve:application"].hash)
  BY DEF FlowInv, ApplicationsAreReal
<1>4. ASSUME NEW r \in Requests, req[r].pack.status \in {"approved", "verified"}
      PROVE  Happened(applied, req[r].run, req[r].pack.hash)
  <2>1. ApplicationBy(r) \in applied /\ req[r].pack.hash = req[r].hash
    BY <1>1, <1>4 DEF RequestInv, DecisionInv
  <2>2. QED
    BY <2>1 DEF ApplicationBy
<1>5. ASSUME NEW u \in RunIds, packs'[u].status \in {"approved", "verified"}
      PROVE  Happened(applied', u, packs'[u].hash)
  <2>1. CASE packs' = packs
    BY <1>2, <1>3, <1>5, <2>1
  <2>2. ASSUME NEW r \in Requests, WritePack(r)
        PROVE  Happened(applied', u, packs'[u].hash)
    <3>1. packs' = [packs EXCEPT ![req[r].run] = req[r].pack] /\ applied' = applied
      BY <2>2 DEF WritePack
    <3>2. packs'[u] = IF u = req[r].run THEN req[r].pack ELSE packs[u]
      BY <1>1, <3>1 DEF TypeOK
    <3>3. QED
      BY <1>3, <1>4, <1>5, <3>1, <3>2
  <2>3. QED
    BY <1>1, <2>1, <2>2, StoreWriters
<1>6. ASSUME NEW u \in RunIds, ledger'[u]["approve:application"] # NoRecord
      PROVE  Happened(applied', u, ledger'[u]["approve:application"].hash)
  <2>1. CASE ledger' = ledger
    BY <1>2, <1>3, <1>6, <2>1
  <2>2. ASSUME NEW r \in Requests, WriteRecord(r),
               ledger'[u]["approve:application"] # ledger[u]["approve:application"]
        PROVE  Happened(applied', u, ledger'[u]["approve:application"].hash)
    <3> DEFINE e == EventOf(req[r].pc)
               rec == RecordOf(e, req[r].pack)
    <3>1. ledger' = [ledger EXCEPT ![req[r].run][e] = rec] /\ applied' = applied
      BY <2>2 DEF WriteRecord
    <3>2. req[r].run \in RunIds /\ e \in Events
      BY <1>1, <2>2, RecordIsPresent DEF WriteRecord
    <3>3. "approve:application" \in Events
      BY DEF Events, ApplicationEvents
    <3>4. e = "approve:application" /\ u = req[r].run
            /\ ledger'[u]["approve:application"] = rec
      <4> HIDE DEF e, rec
      <4>1. QED
        BY <1>1, <2>2, <3>1, <3>2, <3>3 DEF TypeOK
    <3>5. rec.hash = req[r].pack.hash
      BY <3>4 DEF RecordOf
    <3>6. req[r].pc = "approve:application"
      BY <2>2, <3>4 DEF EventOf
    <3>7. req[r].pack.status \in {"approved", "verified"}
      BY <1>1, <3>6 DEF RequestInv, Carries, LoopSteps, LedgerSteps, Events, ApplicationEvents
    <3>8. QED
      BY <1>4, <3>1, <3>4, <3>5, <3>7
  <2>3. QED
    BY <1>1, <1>2, <1>3, <1>6, <2>1, <2>2, StoreWriters
<1>7. QED
  BY <1>5, <1>6 DEF ApplicationsAreReal

\* Every step leaves every decided pack of the store with its operator.
LEMMA StepDecided ==
  ASSUME FlowInv, Next
  PROVE  DecidedByOperator'
<1>1. /\ TypeOK /\ StoreInv /\ \A r \in Requests : RequestInv(r) /\ Keeps(r)
      /\ DecisionRequests \subseteq Requests
  BY StepKeeps DEF FlowInv, Requests
<1>2. SUFFICES ASSUME NEW u \in RunIds, packs'[u].decision # NoDecision
               PROVE  \E r \in DecisionRequests :
                        /\ req'[r].run = u
                        /\ req'[r].pack = packs'[u]
                        /\ req'[r].hash = packs'[u].hash
                        /\ req'[r].approver = packs'[u].gate.approver
  BY DEF DecidedByOperator
<1>3. CASE packs'[u] = packs[u]
  <2>1. PICK r \in DecisionRequests :
          /\ req[r].run = u /\ req[r].pack = packs[u] /\ req[r].hash = packs[u].hash
          /\ req[r].approver = packs[u].gate.approver
    BY <1>2, <1>3 DEF FlowInv, DecidedByOperator
  <2>2. req[r].pack.status \in Decided
    BY <1>1, <1>2, <1>3, <2>1 DEF StoreInv, Coherent
  <2>3. req[r].pc # "unsent"
    <3>1. Unsent.pack.status \notin Decided
      BY DEF Unsent, NoPack
    <3>2. QED
      BY <1>1, <2>2, <3>1 DEF FlowInv, UnsentInv
  <2>4. QED
    BY <1>1, <1>3, <2>1, <2>2, <2>3 DEF Keeps
<1>4. ASSUME NEW r \in Requests, WritePack(r), req[r].run = u
      PROVE  /\ r \in DecisionRequests
             /\ req'[r].run = u
             /\ req'[r].pack = packs'[u]
             /\ req'[r].hash = packs'[u].hash
             /\ req'[r].approver = packs'[u].gate.approver
  <2> DEFINE p == req[r].pack
  <2>1. Coherent(p) /\ packs' = [packs EXCEPT ![u] = p] /\ req'[r].pack = p
    BY <1>1, <1>4, StoredPack
  <2>2. packs'[u] = p
    BY <1>1, <2>1 DEF TypeOK
  <2>3. p.status \in Decided
    BY <1>2, <2>1, <2>2 DEF Coherent
  <2>4. r \in DecisionRequests /\ p.hash = req[r].hash /\ p.gate.approver = req[r].approver
    BY <1>1, <2>3 DEF RequestInv, DecisionInv
  <2>5. req[r].pc # "unsent"
    BY <1>4 DEF WritePack, PackSteps
  <2>6. QED
    BY <1>1, <1>4, <2>1, <2>2, <2>4, <2>5 DEF Keeps
<1>5. ASSUME NEW r \in Requests, WritePack(r), req[r].run # u
      PROVE  packs'[u] = packs[u]
  BY <1>1, <1>5 DEF WritePack, TypeOK
<1>6. QED
  BY <1>1, <1>3, <1>4, <1>5, StoreWriters

-----------------------------------------------------------------------------
(* Types.                                                                  *)

\* Every step of a handler is a step.
LEMMA StepsAre ==
  /\ {"gate:opened", "approve:decision", "agent", "apply", "verify", "unparsed", "diagnosed",
      "verdict", "refused", "failed", "lost", "reopen", "diagnose:slow_query"} \subseteq Steps
  /\ \A pc \in ReadySteps : ResumeAt(pc) \in LoopSteps
  /\ LoopSteps \subseteq Steps
BY DEF Steps, LoopSteps, LedgerSteps, PackSteps, Events, DiagnosisEvents, ApplicationEvents,
   RejectionEvents, AwaitSteps, ReadySteps, Terminal, ResumeAt

\* The packs the handlers build are packs.
LEMMA BuiltPacks ==
  ASSUME NEW h \in Proposals, NEW a \in Approvers \cup {None}, NEW p \in Pack,
         NEW verdict \in {"passed", "failed"}
  PROVE  /\ DiagnosedPack(h) \in Pack
         /\ AppliedPack(p, h, a, verdict) \in Pack
         /\ RejectedPack(p, a) \in Pack
<1>1. DiagnosedPack(h) \in Pack
  BY DEF DiagnosedPack, Pack, PackStatus, AfterEvidence, Gate, GateState
<1>2. AppliedPack(p, h, a, verdict) \in Pack
  <2> DEFINE status == IF verdict = "passed" THEN "verified" ELSE "approved"
             decision == [action |-> "approve", hash |-> p.hash]
             gate == [state |-> status, required |-> p.hash, approved |-> h, approver |-> a]
  <2>1. status \in PackStatus \cap GateState /\ verdict \in AfterEvidence
    BY DEF PackStatus, GateState, AfterEvidence
  <2>2. decision \in Decision
    BY DEF Decision, Pack
  <2>3. gate \in Gate
    BY <2>1 DEF Gate, Pack
  <2>4. AppliedPack(p, h, a, verdict) =
          [p EXCEPT !.status = status, !.after = verdict, !.decision = decision, !.gate = gate]
    BY DEF AppliedPack
  <2> HIDE DEF status, decision, gate
  <2>5. QED
    BY <2>1, <2>2, <2>3, <2>4 DEF Pack
<1>3. RejectedPack(p, a) \in Pack
  BY DEF RejectedPack, Pack, PackStatus, AfterEvidence, Gate, GateState, Decision
<1>4. QED
  BY <1>1, <1>2, <1>3

\* The requests stay requests when one is received.
LEMMA ReceiveType ==
  ASSUME TypeOK, StoreInv, NEW r \in Requests, Receive(r)
  PROVE  req' \in [Requests -> Request]
<1>1. PICK i \in Instances, u \in RunIds :
        \/ ReceiveRun(r, i, u)
        \/ RefuseRun(r, i, u)
        \/ \E h \in Proposals, a \in Approvers :
             RefuseDecision(r, i, u, h) \/ ApproveDecision(r, i, u, h, a)
               \/ RejectDecision(r, i, u, h, a)
  BY DEF Receive
<1>2. CASE ReceiveRun(r, i, u) \/ RefuseRun(r, i, u)
  <2>1. \A pc \in {"gate:opened", "refused"} :
          [Unsent EXCEPT !.pc = pc, !.at = i, !.run = u] \in Request
    BY StepsAre DEF Unsent, Request
  <2>2. \E pc \in {"gate:opened", "refused"} :
          req' = [req EXCEPT ![r] = [Unsent EXCEPT !.pc = pc, !.at = i, !.run = u]]
    BY <1>2 DEF ReceiveRun, RefuseRun
  <2>3. QED
    BY <2>1, <2>2 DEF TypeOK
<1>3. ASSUME NEW h \in Proposals, RefuseDecision(r, i, u, h)
      PROVE  req' \in [Requests -> Request]
  BY <1>3, StepsAre DEF RefuseDecision, TypeOK, Unsent, Request
<1>4. ASSUME NEW h \in Proposals, NEW a \in Approvers, ApproveDecision(r, i, u, h, a)
      PROVE  req' \in [Requests -> Request]
  BY <1>4, StepsAre DEF ApproveDecision, TypeOK, Request
<1>5. ASSUME NEW h \in Proposals, NEW a \in Approvers, RejectDecision(r, i, u, h, a)
      PROVE  req' \in [Requests -> Request]
  <2>1. RejectedPack(packs[u], a) \in Pack
    BY <1>5, AcceptedPack, BuiltPacks DEF RejectDecision
  <2>2. QED
    BY <1>5, <2>1, StepsAre DEF RejectDecision, TypeOK, Request
<1>6. QED
  BY <1>1, <1>2, <1>3, <1>4, <1>5

\* A request that only moves to another step stays a request.
LEMMA MovedRequestType ==
  ASSUME TypeOK, NEW r \in Requests, NEW STATE pc, pc \in Steps,
         req' = [req EXCEPT ![r].pc = pc]
  PROVE  req' \in [Requests -> Request]
<1>1. req \in [Requests -> Request] /\ req[r] \in Request
  BY DEF TypeOK
<1>2. [req[r] EXCEPT !.pc = pc] \in Request
  BY <1>1 DEF Request
<1>3. req' = [req EXCEPT ![r] = [req[r] EXCEPT !.pc = pc]]
  BY <1>1
<1> QED
  BY <1>1, <1>2, <1>3

\* The requests stay requests when one goes on.
LEMMA ProceedType ==
  ASSUME TypeOK, NEW r \in Requests, RequestInv(r), Proceed(r)
  PROVE  req' \in [Requests -> Request]
<1>1. ASSUME NEW h \in Proposals, DiagnosisReturns(r, h)
      PROVE  req' \in [Requests -> Request]
  <2>1. DiagnosedPack(h) \in Pack
    BY DEF DiagnosedPack, Pack, PackStatus, AfterEvidence, Gate, GateState
  <2>2. [req[r] EXCEPT !.pc = "diagnosed", !.pack = DiagnosedPack(h)] \in Request
    BY <2>1, StepsAre DEF TypeOK, Request
  <2>3. req' = [req EXCEPT ![r] = [req[r] EXCEPT !.pc = "diagnosed", !.pack = DiagnosedPack(h)]]
    BY <1>1 DEF DiagnosisReturns, TypeOK
  <2>4. QED
    BY <2>2, <2>3 DEF TypeOK
<1>2. CASE AgentUnparsed(r) \/ CreateIndex(r) \/ VerifyHintMissing(r)
  <2>1. \E pc \in Steps : req' = [req EXCEPT ![r].pc = pc]
    BY <1>2, StepsAre DEF AgentUnparsed, CreateIndex, VerifyHintMissing
  <2>2. PICK pc \in Steps : req' = [req EXCEPT ![r].pc = pc]
    BY <2>1
  <2>3. QED
    BY <2>2, MovedRequestType
<1>3. ASSUME NEW verdict \in {"passed", "failed"}, VerifyReturns(r, verdict)
      PROVE  req' \in [Requests -> Request]
  <2> DEFINE q == req[r]
  <2>1. q \in Request /\ q.pc = "verify"
    BY <1>3 DEF VerifyReturns, TypeOK
  <2>2. q.pack.status = "diagnosed" /\ <<q.run, q.hash>> \in offered
    BY <2>1 DEF RequestInv, DecisionInv, AwaitSteps, Carries
  <2>3. q.pack \in Pack /\ q.hash \in Proposals
    BY <2>1, <2>2, PresentPack DEF TypeOK, Request
  <2>4. AppliedPack(q.pack, q.hash, q.approver, verdict) \in Pack
    BY <2>1, <2>3, BuiltPacks DEF Request
  <2> DEFINE p == AppliedPack(q.pack, q.hash, q.approver, verdict)
  <2>5. [q EXCEPT !.pc = "verdict", !.pack = p] \in Request
    BY <2>1, <2>4, StepsAre DEF Request
  <2>6. req' = [req EXCEPT ![r] = [q EXCEPT !.pc = "verdict", !.pack = p]]
    BY <1>3 DEF VerifyReturns, TypeOK
  <2>7. QED
    BY <2>5, <2>6 DEF TypeOK
<1>4. CASE Resume(r)
  <2>1. ResumeAt(req[r].pc) \in Steps
    BY <1>4, StepsAre DEF Resume
  <2>2. QED
    BY <1>4, <2>1, MovedRequestType DEF Resume
<1>5. CASE WriteRecord(r) \/ WritePack(r)
  <2> DEFINE x == StepAfter(req[r].pc, req[r].pack)
  <2>1. req[r].pc \in LoopSteps /\ req' = [req EXCEPT ![r].pc = x]
    BY <1>5 DEF WriteRecord, WritePack, Advance, LoopSteps
  <2>2. x \in Steps
    <3>1. req[r].pc # "unsent"
      BY <2>1 DEF LoopSteps, LedgerSteps, PackSteps, Events,
         DiagnosisEvents, ApplicationEvents, RejectionEvents
    <3>2. /\ Carries(req[r].pc, req[r].pack.status)
          /\ Precedes(req[r].pc, req[r].pack.status, Written(req[r].run))
      BY <2>1, <3>1 DEF RequestInv
    <3>3. QED
      BY <2>1, <3>2, NextStepFits, Written(req[r].run) \subseteq
           Written(req[r].run) \cup {EventOf(req[r].pc)}
  <2> HIDE DEF x
  <2>3. QED
    BY <2>1, <2>2, MovedRequestType
<1>6. QED
  BY <1>1, <1>2, <1>3, <1>4, <1>5 DEF Proceed

\* Every step preserves the types.
LEMMA StepType ==
  ASSUME FlowInv, Next
  PROVE  TypeOK'
<1>1. /\ TypeOK /\ StoreInv /\ \A r \in Requests : RequestInv(r)
  BY DEF FlowInv
<1>2. req' \in [Requests -> Request]
  <2>1. ASSUME NEW r \in Requests, CallRaises(r)
        PROVE  req' \in [Requests -> Request]
    BY <1>1, <2>1, StepsAre, MovedRequestType DEF CallRaises
  <2>2. ASSUME NEW i \in Instances, Crash(i)
        PROVE  req' \in [Requests -> Request]
    <3>1. ASSUME NEW s \in Requests
          PROVE  req'[s] \in Request
      <4>1. req[s] \in Request
        BY <1>1 DEF TypeOK
      <4>2. [req[s] EXCEPT !.pc = "lost"] \in Request
        BY <4>1, StepsAre DEF Request
      <4>3. req'[s] \in {req[s], [req[s] EXCEPT !.pc = "lost"]}
        BY <2>2 DEF Crash
      <4>4. QED
        BY <4>1, <4>2, <4>3
    <3>2. QED
      BY <2>2, <3>1 DEF Crash
  <2>3. QED
    BY <1>1, <2>1, <2>2, ReceiveType, ProceedType DEF Next, ResetBaseline, TypeOK
<1>3. loop' \in [Instances -> Requests \cup {None}]
  <2>1. ASSUME NEW r \in Requests, Receive(r)
        PROVE  loop' \in [Instances -> Requests \cup {None}]
    BY <1>1, <2>1, ReceiveSteps DEF TypeOK
  <2>2. ASSUME NEW r \in Requests, Proceed(r) \/ CallRaises(r)
        PROVE  loop' \in [Instances -> Requests \cup {None}]
    <3>1. \/ loop' = loop
          \/ \E i : loop' = [loop EXCEPT ![i] = r] \/ loop' = [loop EXCEPT ![i] = None]
      BY <2>2 DEF Proceed, DiagnosisReturns, AgentUnparsed, CreateIndex, VerifyReturns,
         VerifyHintMissing, Resume, WriteRecord, WritePack, Advance, CallRaises
    <3>2. QED
      BY <1>1, <3>1 DEF TypeOK
  <2>3. QED
    BY <1>1, <2>1, <2>2 DEF Next, Crash, ResetBaseline, TypeOK
<1>4. ledger' \in [RunIds -> [Events -> Record \cup {NoRecord}]]
  <2>1. ASSUME NEW r \in Requests, WriteRecord(r)
        PROVE  ledger' \in [RunIds -> [Events -> Record \cup {NoRecord}]]
    <3> DEFINE u == req[r].run
               e == EventOf(req[r].pc)
               rec == RecordOf(e, req[r].pack)
    <3>1. u \in RunIds /\ e \in Events /\ rec \in Record
      BY <1>1, <2>1, RecordIsPresent DEF WriteRecord
    <3>2. ledger' = [ledger EXCEPT ![u][e] = rec]
      BY <2>1 DEF WriteRecord
    <3> HIDE DEF u, e, rec
    <3>3. QED
      BY <1>1, <3>1, <3>2 DEF TypeOK
  <2>2. QED
    BY <1>1, <2>1, StoreWriters DEF TypeOK
<1>5. packs' \in [RunIds -> Pack \cup {NoPack}]
  <2>1. ASSUME NEW r \in Requests, WritePack(r)
        PROVE  packs' \in [RunIds -> Pack \cup {NoPack}]
    BY <1>1, <2>1, StoredPack DEF TypeOK
  <2>2. QED
    BY <1>1, <2>1, StoreWriters DEF TypeOK
<1>6. indexes' \subseteq Indexes /\ applied' \subseteq Application
  <2>1. ASSUME NEW r \in Requests, CreateIndex(r)
        PROVE  indexes' \subseteq Indexes /\ applied' \subseteq Application
    <3>1. /\ r \in DecisionRequests /\ <<req[r].run, req[r].hash>> \in offered
          /\ req[r].pack.proposal = req[r].hash
      BY <1>1, <2>1 DEF CreateIndex, RequestInv, DecisionInv, Coherent, HashBindsProposal
    <3>2. req[r].run \in RunIds /\ req[r].hash \in Proposals
            /\ IndexOf[req[r].hash] \in Indexes
      BY <1>1, <3>1, FlowAssumption DEF TypeOK
    <3>3. QED
      BY <1>1, <2>1, <3>1, <3>2 DEF CreateIndex, TypeOK, Application
  <2>2. indexes' \subseteq indexes \/ \E r \in Requests : CreateIndex(r)
    <3>1. ASSUME NEW r \in Requests, Receive(r)
          PROVE  indexes' = indexes
      BY <1>1, <3>1, ReceiveSteps DEF stores
    <3>2. ASSUME NEW r \in Requests, Proceed(r) \/ CallRaises(r), ~CreateIndex(r)
          PROVE  indexes' = indexes
      BY <3>2 DEF Proceed, DiagnosisReturns, AgentUnparsed, VerifyReturns,
         VerifyHintMissing, Resume, WriteRecord, WritePack, CallRaises, stores
    <3>3. QED
      BY <3>1, <3>2 DEF Next, Crash, ResetBaseline, stores
  <2>3. QED
    BY <1>1, <2>1, <2>2, StoreWriters DEF TypeOK
<1>7. offered' \subseteq RunIds \X Proposals /\ disturbances' \in 0 .. MaxDisturbances
  <2>1. ASSUME NEW r \in Requests, Receive(r)
        PROVE  offered' = offered /\ disturbances' = disturbances
    BY <1>1, <2>1, ReceiveSteps DEF stores
  <2>2. ASSUME NEW r \in Requests, Proceed(r)
        PROVE  offered' \subseteq RunIds \X Proposals /\ disturbances' = disturbances
    <3>1. CASE WritePack(r)
      <4>1. req[r].run \in RunIds /\ req[r].pack.hash \in Proposals
        BY <1>1, <3>1, StoredPack DEF Pack
      <4>2. QED
        BY <1>1, <3>1, <4>1 DEF WritePack, TypeOK
    <3>2. CASE ~WritePack(r)
      BY <1>1, <2>2, <3>2 DEF Proceed, DiagnosisReturns, AgentUnparsed, CreateIndex,
         VerifyReturns, VerifyHintMissing, Resume, WriteRecord, stores, TypeOK
    <3>3. QED
      BY <3>1, <3>2
  <2>3. ASSUME Disturb
        PROVE  disturbances' \in 0 .. MaxDisturbances
    BY <1>1, <2>3, FlowAssumption DEF Disturb, TypeOK
  <2>4. ASSUME \/ \E r \in Requests : CallRaises(r)
               \/ \E i \in Instances : Crash(i)
               \/ ResetBaseline
        PROVE  Disturb /\ offered' = offered
    BY <2>4 DEF CallRaises, Crash, ResetBaseline, stores
  <2>5. QED
    BY <1>1, <2>1, <2>2, <2>3, <2>4 DEF Next, TypeOK
<1>8. QED
  BY <1>2, <1>3, <1>4, <1>5, <1>6, <1>7 DEF TypeOK

\* A pack that is built is a diagnosis as long as it is undecided.
LEMMA BuiltDiagnosis ==
  ASSUME NEW p \in Pack, Built(p), p.status = "diagnosed"
  PROVE  p = DiagnosedPack(p.hash) /\ p.hash \in Proposals
<1>1. p.hash \in Proposals /\ p # NoPack
  BY DEF Pack, NoPack
<1>2. ASSUME NEW a \in Approvers, p \in Outcomes(p.hash, a)
      PROVE  FALSE
  BY <1>1, <1>2, OutcomesAreValid
<1>3. QED
  BY <1>1, <1>2 DEF Built

\* A pack that is built and decided is the outcome of a decision.
LEMMA BuiltDecision ==
  ASSUME NEW p \in Pack, Built(p), p.status # "diagnosed"
  PROVE  p \in Outcomes(p.hash, p.gate.approver) /\ p.gate.approver \in Approvers
<1>1. p.hash \in Proposals /\ p # NoPack
  BY DEF Pack, PackStatus, NoPack
<1>2. p # DiagnosedPack(p.hash)
  BY <1>1, DiagnosisIsValid
<1>3. PICK a \in Approvers : p \in Outcomes(p.hash, a)
  BY <1>1, <1>2 DEF Built
<1>4. p.gate.approver = a
  BY <1>1, <1>3, OutcomesAreValid
<1>5. QED
  BY <1>3, <1>4

\* The schema accepts every pack that is built.
LEMMA BuiltIsValid ==
  ASSUME NEW p \in Pack, Built(p)
  PROVE  Valid(p)
<1>1. p.hash \in Proposals
  BY DEF Pack
<1>2. CASE p.status = "diagnosed"
  BY <1>1, <1>2, BuiltDiagnosis, DiagnosisIsValid
<1>3. CASE p.status # "diagnosed"
  BY <1>1, <1>3, BuiltDecision, OutcomesAreValid
<1>4. QED
  BY <1>2, <1>3

LEMMA BuiltPacksAreValid ==
  ASSUME TypeOK, BuiltInv
  PROVE  PacksAreValid
<1>1. \A r \in Requests : req[r].pack \in Pack \cup {NoPack}
  BY DEF TypeOK, Request
<1>2. \A u \in RunIds : packs[u] \in Pack \cup {NoPack}
  BY DEF TypeOK
<1>3. QED
  BY <1>1, <1>2, BuiltIsValid DEF BuiltInv, PacksAreValid

\* What the controller makes of a diagnosis is built.
LEMMA BuiltByController ==
  ASSUME NEW h \in Proposals, NEW a \in Approvers, NEW verdict \in {"passed", "failed"}
  PROVE  /\ Built(DiagnosedPack(h))
         /\ Built(RejectedPack(DiagnosedPack(h), a))
         /\ Built(AppliedPack(DiagnosedPack(h), h, a, verdict))
<1>1. Built(DiagnosedPack(h))
  BY DiagnosisIsValid DEF Built
<1>2. ASSUME NEW p \in Outcomes(h, a)
      PROVE  Built(p)
  BY OutcomesAreValid DEF Built
<1>3. /\ RejectedPack(DiagnosedPack(h), a) \in Outcomes(h, a)
      /\ AppliedPack(DiagnosedPack(h), h, a, verdict) \in Outcomes(h, a)
  BY DEF Outcomes
<1>4. QED
  BY <1>1, <1>2, <1>3

\* Every step keeps the packs of the handlers and of the store as a diagnosis
\* and at most one decision built them.
LEMMA StepBuilt ==
  ASSUME FlowInv, Next
  PROVE  BuiltInv'
<1>1. /\ TypeOK /\ StoreInv /\ \A s \in Requests : RequestInv(s) /\ Built(req[s].pack)
      /\ \A u \in RunIds : Built(packs[u])
  BY DEF FlowInv, BuiltInv
<1>2. ASSUME NEW r \in Requests, Receive(r)
      PROVE  Built(req'[r].pack)
  <2>1. PICK i \in Instances, u \in RunIds :
          \/ ReceiveRun(r, i, u)
          \/ RefuseRun(r, i, u)
          \/ \E h \in Proposals, a \in Approvers :
               RefuseDecision(r, i, u, h) \/ ApproveDecision(r, i, u, h, a)
                 \/ RejectDecision(r, i, u, h, a)
    BY <1>2 DEF Receive
  <2>2. CASE ReceiveRun(r, i, u) \/ RefuseRun(r, i, u)
    <3>1. req'[r].pack = NoPack
      BY <1>1, <2>2 DEF ReceiveRun, RefuseRun, TypeOK, Unsent
    <3> QED
      BY <3>1 DEF Built
  <2>3. ASSUME NEW h \in Proposals, RefuseDecision(r, i, u, h)
        PROVE  Built(req'[r].pack)
    BY <1>1, <2>3 DEF RefuseDecision, TypeOK, Unsent, Built
  <2>4. ASSUME NEW h \in Proposals, NEW a \in Approvers, ApproveDecision(r, i, u, h, a)
        PROVE  Built(req'[r].pack)
    <3>1. req'[r].pack = packs[u]
      BY <1>1, <2>4 DEF ApproveDecision, TypeOK
    <3>2. QED
      BY <1>1, <3>1
  <2>5. ASSUME NEW h \in Proposals, NEW a \in Approvers, RejectDecision(r, i, u, h, a)
        PROVE  Built(req'[r].pack)
    <3>1. packs[u] \in Pack /\ packs[u].status = "diagnosed" /\ packs[u].hash = h
      BY <1>1, <2>5, AcceptedPack DEF RejectDecision
    <3>2. packs[u] = DiagnosedPack(h)
      BY <1>1, <3>1, BuiltDiagnosis
    <3>3. req'[r].pack = RejectedPack(packs[u], a)
      BY <1>1, <2>5 DEF RejectDecision, TypeOK
    <3>4. QED
      BY <3>2, <3>3, BuiltByController, "passed" \in {"passed", "failed"}
  <2>6. QED
    BY <2>1, <2>2, <2>3, <2>4, <2>5
<1>3. ASSUME NEW r \in Requests, Proceed(r)
      PROVE  Built(req'[r].pack)
  <2>1. ASSUME NEW h \in Proposals, DiagnosisReturns(r, h)
        PROVE  Built(req'[r].pack)
    <3>1. req'[r].pack = DiagnosedPack(h)
      BY <1>1, <2>1 DEF DiagnosisReturns, TypeOK, Request
    <3>2. QED
      BY <3>1, DiagnosisIsValid DEF Built
  <2>2. ASSUME NEW verdict \in {"passed", "failed"}, VerifyReturns(r, verdict)
        PROVE  Built(req'[r].pack)
    <3> DEFINE q == req[r]
    <3>1. q.pc = "verify" /\ req'[r].pack = AppliedPack(q.pack, q.hash, q.approver, verdict)
      BY <1>1, <2>2 DEF VerifyReturns, TypeOK, Request
    <3>2. q.pack.status = "diagnosed" /\ q.pack.hash = q.hash /\ q.approver \in Approvers
      BY <1>1, <3>1 DEF RequestInv, DecisionInv, AwaitSteps, Carries
    <3>3. q.pack \in Pack
      BY <1>1, <3>2, PresentPack DEF TypeOK, Request
    <3>4. q.pack = DiagnosedPack(q.hash) /\ q.hash \in Proposals
      BY <1>1, <3>2, <3>3, BuiltDiagnosis
    <3>5. QED
      BY <3>1, <3>2, <3>4, BuiltByController
  <2>3. CASE AgentUnparsed(r) \/ CreateIndex(r) \/ VerifyHintMissing(r) \/ Resume(r)
               \/ WriteRecord(r) \/ WritePack(r)
    <3>1. req'[r].pack = req[r].pack
      BY <1>1, <2>3 DEF AgentUnparsed, CreateIndex, VerifyHintMissing, Resume, WriteRecord,
         WritePack, Advance, TypeOK, Request
    <3>2. QED
      BY <1>1, <3>1
  <2>4. QED
    BY <1>3, <2>1, <2>2, <2>3 DEF Proceed
<1>4. ASSUME NEW s \in Requests
      PROVE  Built(req'[s].pack)
  <2>1. ASSUME req'[s] = req[s]
        PROVE  Built(req'[s].pack)
    BY <1>1, <2>1
  <2>2. ASSUME NEW r \in Requests, Receive(r)
        PROVE  Built(req'[s].pack)
    BY <1>1, <1>2, <2>1, <2>2, ReceiveSteps DEF Only
  <2>3. ASSUME NEW r \in Requests, Proceed(r)
        PROVE  Built(req'[s].pack)
    <3>1. s # r => req'[s] = req[s]
      BY <1>1, <2>3 DEF Proceed, DiagnosisReturns, AgentUnparsed, CreateIndex,
         VerifyReturns, VerifyHintMissing, Resume, WriteRecord, WritePack, Advance, TypeOK
    <3>2. QED
      BY <1>3, <2>1, <2>3, <3>1
  <2>4. ASSUME NEW r \in Requests, CallRaises(r)
        PROVE  req'[s].pack = req[s].pack
    BY <1>1, <2>4 DEF CallRaises, TypeOK, Request
  <2>5. ASSUME NEW i \in Instances, Crash(i)
        PROVE  req'[s].pack = req[s].pack
    BY <1>1, <2>5 DEF Crash, TypeOK, Request
  <2>6. ASSUME ResetBaseline
        PROVE  req'[s] = req[s]
    BY <2>6 DEF ResetBaseline
  <2>7. QED
    BY <1>1, <2>1, <2>2, <2>3, <2>4, <2>5, <2>6 DEF Next
<1>5. ASSUME NEW u \in RunIds
      PROVE  Built(packs'[u])
  <2>1. CASE packs' = packs
    BY <1>1, <2>1
  <2>2. ASSUME NEW r \in Requests, WritePack(r)
        PROVE  Built(packs'[u])
    <3>1. packs'[u] = IF u = req[r].run THEN req[r].pack ELSE packs[u]
      BY <1>1, <2>2 DEF WritePack, TypeOK
    <3>2. QED
      BY <1>1, <3>1
  <2>3. QED
    BY <1>1, <2>1, <2>2, StoreWriters
<1>6. SUFFICES (\A r \in Requests : Built(req'[r].pack)) /\ \A u \in RunIds : Built(packs'[u])
  BY DEF BuiltInv, Built
<1>7. QED
  BY <1>4, <1>5

-----------------------------------------------------------------------------
(* The invariant.                                                          *)

LEMMA FlowInit ==
  ASSUME Init
  PROVE  FlowInv
<1>1. TypeOK
  <2>1. Unsent \in Request /\ NoPack \in Pack \cup {NoPack}
    BY DEF Unsent, Request, Steps
  <2>2. QED
    BY <2>1, FlowAssumption DEF Init, TypeOK
<1>2. Coherent(NoPack)
  BY DEF Coherent, HashBindsProposal, NoPack
<1>3. ASSUME NEW r \in Requests
      PROVE  RequestInv(r)
  <2>1. req[r] = Unsent
    BY DEF Init
  <2>2. DecisionInv(r)
    BY <2>1 DEF DecisionInv, Unsent, NoPack
  <2>3. QED
    BY <1>2, <2>1, <2>2 DEF RequestInv, Unsent, LoopSteps, LedgerSteps, PackSteps, Events,
       DiagnosisEvents, ApplicationEvents, RejectionEvents, AwaitSteps, ReadySteps
<1>4. StoreInv
  BY <1>2 DEF Init, StoreInv, Audited, NoPack
<1>5. UnsentInv /\ AppliedInv /\ GatedMutation
  BY DEF Init, UnsentInv, AppliedInv, GatedMutation
<1>6. ApplicationsAreReal
  <2>1. "approve:application" \in Events
    BY DEF Events, ApplicationEvents
  <2>2. QED
    BY <2>1 DEF Init, ApplicationsAreReal, NoPack
<1>7. DecidedByOperator
  BY DEF Init, DecidedByOperator, NoPack
<1>8. BuiltInv
  BY DEF Init, BuiltInv, Built, Unsent
<1>9. QED
  BY <1>1, <1>3, <1>4, <1>5, <1>6, <1>7, <1>8 DEF FlowInv

LEMMA FlowStep ==
  ASSUME FlowInv, [Next]_vars
  PROVE  FlowInv'
<1>1. CASE Next
  <2>1. TypeOK /\ StoreInv /\ \A r \in Requests : RequestInv(r)
    BY DEF FlowInv
  <2>2. (\A r \in Requests : RequestInv(r))'
    BY <1>1, <2>1, StepRequest
  <2>3. TypeOK' /\ StoreInv' /\ UnsentInv' /\ AppliedInv' /\ GatedMutation'
          /\ ApplicationsAreReal' /\ DecidedByOperator' /\ BuiltInv'
    BY <1>1, <2>1, StepType, StepStore, StepUnsent, StepApplied, StepReal, StepDecided,
       StepBuilt
  <2>4. QED
    BY <2>2, <2>3 DEF FlowInv
<1>2. CASE UNCHANGED vars
  <2> USE <1>2 DEF vars, FlowInv
  <2>1. TypeOK'
    BY DEF TypeOK
  <2>2. \A u \in RunIds : Written(u)' = Written(u)
    BY DEF Written
  <2>3. ASSUME NEW r \in Requests
        PROVE  RequestInv(r)'
    BY <2>2, OthersStand DEF Grows
  <2>4. StoreInv'
    BY <2>2 DEF StoreInv
  <2>5. UnsentInv' /\ AppliedInv' /\ GatedMutation' /\ ApplicationsAreReal'
          /\ DecidedByOperator' /\ BuiltInv'
    BY DEF UnsentInv, AppliedInv, GatedMutation, ApplicationsAreReal, DecidedByOperator,
       BuiltInv, Built
  <2>6. QED
    BY <2>1, <2>3, <2>4, <2>5
<1>3. QED
  BY <1>1, <1>2

\* The invariant holds in every reachable state of the flow, whatever the
\* interleaving of the instances and the calls that fail (orchestrator.py,
\* routes.py, ledger_store.py).
THEOREM FlowInvariant == Spec => []FlowInv
<1>1. Init => FlowInv
  BY FlowInit
<1>2. FlowInv /\ [Next]_vars => FlowInv'
  BY FlowStep
<1>3. QED
  BY <1>1, <1>2, PTL DEF Spec

\* Every variable of the flow keeps its type.
THEOREM TypeCorrect == Spec => []TypeOK
<1>1. FlowInv => TypeOK
  BY DEF FlowInv
<1>2. QED
  BY <1>1, FlowInvariant, PTL

\* A pack is never visible in the store before the ledger has every record of
\* how it came about (write_diagnosis_records, write_application_records,
\* write_rejection_records): for any number of instances, requests and faults.
THEOREM AuditIsWrittenAhead == Spec => []WriteAheadAudit
<1>1. FlowInv => WriteAheadAudit
  <2>1. SUFFICES ASSUME FlowInv, NEW u \in RunIds
                 PROVE  /\ packs[u] # NoPack => DiagnosisEvents \subseteq Written(u)
                        /\ packs[u].status \in {"approved", "verified"} =>
                             ApplicationEvents \subseteq Written(u)
                        /\ packs[u].status = "rejected" => RejectionEvents \subseteq Written(u)
    BY DEF WriteAheadAudit
  <2>2. Audited(packs[u].status, Written(u))
    BY <2>1 DEF FlowInv, StoreInv
  <2>3. packs[u] # NoPack => packs[u].status # "absent"
    BY <2>1 DEF FlowInv, TypeOK, Pack, PackStatus
  <2>4. QED
    BY <2>2, <2>3 DEF Audited
<1>2. QED
  BY <1>1, FlowInvariant, PTL

\* An index is only created by a request that presented the hash of a pack
\* that was pending in its run, and it is the index that pack recommends
\* (decide_pack, issue_approval_ticket, apply_and_verify).
THEOREM MutationIsGated == Spec => []GatedMutation
<1>1. FlowInv => GatedMutation
  BY DEF FlowInv
<1>2. QED
  BY <1>1, FlowInvariant, PTL

\* A pack that is approved or verified, and an application record, follow the
\* creation of the very index they name (apply_and_verify).
THEOREM NoFalseApplication == Spec => []ApplicationsAreReal
<1>1. FlowInv => ApplicationsAreReal
  BY DEF FlowInv
<1>2. QED
  BY <1>1, FlowInvariant, PTL

\* Every decided pack is the one an operator's decision made, and names that
\* operator (apply_and_verify, reject_pack).
THEOREM DecisionsAreTheOperators == Spec => []DecidedByOperator
<1>1. FlowInv => DecidedByOperator
  BY DEF FlowInv
<1>2. QED
  BY <1>1, FlowInvariant, PTL

\* Every pack a handler carries or the store returns passes the validators of
\* EvidencePack, so building the after-pack never fails once its index exists.
THEOREM PacksStayValid == Spec => []PacksAreValid
<1>1. FlowInv => PacksAreValid
  BY BuiltPacksAreValid DEF FlowInv
<1>2. QED
  BY <1>1, FlowInvariant, PTL

\* A decision the endpoint accepts is refused by none of the checks behind it
\* (issue_approval_ticket, _assert_ticket_allows_apply, reject_pack).
THEOREM NoRunIsStuckAtItsGate == Spec => []AcceptedIsDecidable
<1>1. FlowInv => AcceptedIsDecidable
  <2>1. SUFFICES ASSUME FlowInv, NEW u \in RunIds, NEW h \in Proposals,
                        DecisionAnswer(packs[u], h) = "accepted"
                 PROVE  TicketIssued(packs[u], h) /\ TicketAllowsApply(packs[u], h)
                          /\ MayReject(packs[u])
    BY DEF AcceptedIsDecidable
  <2>2. packs[u] # NoPack
    BY <2>1 DEF DecisionAnswer
  <2>3. packs[u] \in Pack /\ Valid(packs[u])
    BY <2>1, <2>2, BuiltPacksAreValid DEF FlowInv, TypeOK, PacksAreValid
  <2>4. QED
    BY <2>1, <2>3, AcceptedIsNeverRefused
<1>2. QED
  BY <1>1, FlowInvariant, PTL

-----------------------------------------------------------------------------
(* The refinement.                                                         *)

\* Every step of the flow is a step of the promise or leaves it as it is.
LEMMA StepPromise ==
  ASSUME FlowInv, [Next]_vars
  PROVE  [Promise!Next]_(Promise!vars)
<1> DEFINE shown == [u \in RunIds |-> [status |-> packs[u].status, proposal |-> packs[u].hash]]
           done(s) == {<<m.run, m.hash>> : m \in s}
<1>1. /\ TypeOK /\ StoreInv /\ \A r \in Requests : RequestInv(r)
  BY DEF FlowInv
<1>2. ASSUME UNCHANGED <<packs, applied, offered>>
      PROVE  UNCHANGED Promise!vars
  BY <1>2 DEF Promise!vars
<1>3. ASSUME NEW r \in Requests, Receive(r)
      PROVE  UNCHANGED Promise!vars
  BY <1>1, <1>2, <1>3, ReceiveSteps DEF stores
<1>4. ASSUME NEW r \in Requests, CreateIndex(r)
      PROVE  Promise!Next
  <2>1. <<req[r].run, req[r].hash>> \in offered
    BY <1>1, <1>4 DEF CreateIndex, RequestInv, DecisionInv
  <2>2. PICK u \in RunIds, h \in Proposals : u = req[r].run /\ h = req[r].hash
    BY <1>1, <2>1 DEF TypeOK
  <2> DEFINE m == [by |-> r, run |-> u, hash |-> h, index |-> IndexOf[req[r].pack.proposal]]
  <2>3. applied' = applied \cup {m}
    BY <1>4, <2>2 DEF CreateIndex
  <2>4. m.run = u /\ m.hash = h
    OBVIOUS
  <2> HIDE DEF m
  <2>5. done(applied') = done(applied) \cup {<<u, h>>}
    BY <2>3, <2>4
  <2>6. packs' = packs /\ offered' = offered
    BY <1>4 DEF CreateIndex
  <2>7. Promise!Apply(u, h)
    BY <2>1, <2>2, <2>5, <2>6 DEF Promise!Apply
  <2>8. QED
    BY <2>7 DEF Promise!Next
<1>5. ASSUME NEW r \in Requests, WritePack(r)
      PROVE  Promise!Next
  <2>1. /\ req[r].run \in RunIds /\ req[r].pack \in Pack
        /\ <<req[r].run, req[r].pack.hash>> \in offered'
        /\ packs' = [packs EXCEPT ![req[r].run] = req[r].pack] /\ applied' = applied
    BY <1>1, <1>5, StoredPack
  <2>2. PICK u \in RunIds, h \in Proposals, status \in PackStatus :
          u = req[r].run /\ h = req[r].pack.hash /\ status = req[r].pack.status
    BY <2>1 DEF Pack
  <2>3. offered' = IF status = "diagnosed" THEN offered \cup {<<u, h>>} ELSE offered
    BY <1>5, <2>2 DEF WritePack
  <2>4. status \in {"approved", "verified"} => <<u, h>> \in done(applied)
    <3>1. ASSUME status \in {"approved", "verified"}
          PROVE  ApplicationBy(r) \in applied /\ h = req[r].hash
      BY <1>1, <2>2, <3>1 DEF RequestInv, DecisionInv
    <3>2. QED
      BY <2>2, <3>1 DEF ApplicationBy
  <2>5. shown' = [shown EXCEPT ![u] = [status |-> status, proposal |-> h]]
    BY <1>1, <2>1, <2>2 DEF TypeOK
  <2>6. CASE status = "diagnosed"
    <3>1. Promise!Offer(u, h)
      BY <2>1, <2>3, <2>5, <2>6 DEF Promise!Offer
    <3>2. QED
      BY <3>1 DEF Promise!Next
  <2>7. CASE status \in {"approved", "verified", "rejected"}
    <3>1. Promise!Conclude(u, h, status)
      BY <2>1, <2>2, <2>3, <2>4, <2>5, <2>7 DEF Promise!Conclude
    <3>2. QED
      BY <2>7, <3>1 DEF Promise!Next
  <2>8. QED
    BY <2>6, <2>7 DEF PackStatus
<1>6. ASSUME NEW r \in Requests, Proceed(r), ~CreateIndex(r), ~WritePack(r)
      PROVE  UNCHANGED Promise!vars
  BY <1>2, <1>6 DEF Proceed, DiagnosisReturns, AgentUnparsed, VerifyReturns,
     VerifyHintMissing, Resume, WriteRecord, stores
<1>7. ASSUME \/ \E r \in Requests : CallRaises(r)
             \/ \E i \in Instances : Crash(i)
             \/ ResetBaseline
             \/ UNCHANGED vars
      PROVE  UNCHANGED Promise!vars
  BY <1>2, <1>7 DEF CallRaises, Crash, ResetBaseline, stores, vars
<1>8. QED
  BY <1>3, <1>4, <1>5, <1>6, <1>7 DEF Next

\* The flow implements the promise of GatedRun: only what was pending is
\* applied, and only what was applied is shown as applied.
THEOREM FlowImplementsPromise == Spec => ImplementsPromise
<1>1. Init => Promise!Init
  BY DEF Init, Promise!Init, Promise!Unseen, NoPack
<1>2. FlowInv /\ [Next]_vars => [Promise!Next]_(Promise!vars)
  BY StepPromise
<1>3. QED
  BY <1>1, <1>2, FlowInvariant, PTL DEF Spec, ImplementsPromise, Promise!Spec
-----------------------------------------------------------------------------
(* The documents of the runs.                                              *)

\* The packs of the record are those of the flow.
LEMMA SamePacks ==
  /\ Kept!NoPack = NoPack
  /\ \A h : Kept!DiagnosedPack(h) = DiagnosedPack(h)
  /\ \A h, a : Kept!Outcomes(h, a) = Outcomes(h, a)
<1>1. Kept!NoPack = NoPack
  BY DEF Kept!NoPack, NoPack, Kept!NoDecision, NoDecision, Kept!NoGate, NoGate
<1>2. \A h : Kept!DiagnosedPack(h) = DiagnosedPack(h)
  BY DEF Kept!DiagnosedPack, DiagnosedPack, Kept!NoDecision, NoDecision
<1>3. \A p, a : Kept!RejectedPack(p, a) = RejectedPack(p, a)
  BY DEF Kept!RejectedPack, RejectedPack
<1>4. \A p, h, a, v : Kept!AppliedPack(p, h, a, v) = AppliedPack(p, h, a, v)
  BY DEF Kept!AppliedPack, AppliedPack
<1>5. \A h, a : Kept!Outcomes(h, a) = Outcomes(h, a)
  BY <1>2, <1>3, <1>4, Zenon DEF Kept!Outcomes, Outcomes
<1>6. QED
  BY <1>1, <1>2, <1>5

\* Storing a pack is a diagnosis of its run, or a decision on an offered one.
LEMMA StepRecord ==
  ASSUME FlowInv, [Next]_vars
  PROVE  [Kept!Next]_(Kept!vars)
<1>1. TypeOK /\ BuiltInv /\ \A r \in Requests : RequestInv(r)
  BY DEF FlowInv
<1>2. ASSUME UNCHANGED <<packs, offered>>
      PROVE  UNCHANGED Kept!vars
  BY <1>2 DEF Kept!vars
<1>3. ASSUME NEW r \in Requests, Receive(r)
      PROVE  UNCHANGED Kept!vars
  BY <1>1, <1>2, <1>3, ReceiveSteps DEF stores
<1>4. ASSUME NEW r \in Requests, WritePack(r)
      PROVE  Kept!Next
  <2> DEFINE u == req[r].run
             p == req[r].pack
  <2>1. u \in RunIds /\ p \in Pack /\ Built(p) /\ packs' = [packs EXCEPT ![u] = p]
    BY <1>1, <1>4, StoredPack DEF BuiltInv
  <2>2. p.hash \in Proposals
    BY <2>1 DEF Pack
  <2>3. CASE p.status = "diagnosed"
    <3>1. p = DiagnosedPack(p.hash)
      BY <2>1, <2>3, BuiltDiagnosis
    <3>2. offered' = offered \cup {<<u, p.hash>>}
      BY <1>4, <2>3 DEF WritePack
    <3>3. Kept!Diagnose(u, p.hash)
      BY <2>1, <3>1, <3>2, SamePacks DEF Kept!Diagnose
    <3>4. QED
      BY <2>1, <2>2, <3>3 DEF Kept!Next
  <2>4. CASE p.status # "diagnosed"
    <3>1. p \in Outcomes(p.hash, p.gate.approver) /\ p.gate.approver \in Approvers
      BY <2>1, <2>4, BuiltDecision
    <3>2. p.status \in Decided
      BY <2>2, <3>1, OutcomesAreValid
    <3>3. <<u, p.hash>> \in offered
      BY <1>1, <3>2 DEF RequestInv, DecisionInv
    <3>4. offered' = offered
      BY <1>4, <2>4 DEF WritePack
    <3>5. Kept!Decide(u, p.hash, p.gate.approver)
      BY <2>1, <3>1, <3>3, <3>4, SamePacks DEF Kept!Decide
    <3>6. QED
      BY <2>1, <2>2, <3>1, <3>5 DEF Kept!Next
  <2>5. QED
    BY <2>3, <2>4
<1>5. ASSUME NEW r \in Requests, Proceed(r), ~WritePack(r)
      PROVE  UNCHANGED Kept!vars
  BY <1>2, <1>5 DEF Proceed, DiagnosisReturns, AgentUnparsed, CreateIndex, VerifyReturns,
     VerifyHintMissing, Resume, WriteRecord, stores
<1>6. ASSUME \/ \E r \in Requests : CallRaises(r)
             \/ \E i \in Instances : Crash(i)
             \/ ResetBaseline
             \/ UNCHANGED vars
      PROVE  UNCHANGED Kept!vars
  BY <1>2, <1>6 DEF CallRaises, Crash, ResetBaseline, stores, vars
<1>7. QED
  BY <1>3, <1>4, <1>5, <1>6 DEF Next

\* The flow implements RunRecord: however many instances serve a run and
\* whatever fails, its document is always a diagnosis or one decision on a
\* diagnosis it was offered (build_pack, decide_pack).
THEOREM FlowImplementsRecord == Spec => ImplementsRecord
<1>1. Init => Kept!Init
  BY SamePacks DEF Init, Kept!Init
<1>2. FlowInv /\ [Next]_vars => [Kept!Next]_(Kept!vars)
  BY StepRecord
<1>3. QED
  BY <1>1, <1>2, FlowInvariant, PTL DEF Spec, ImplementsRecord, Kept!Spec
=============================================================================
