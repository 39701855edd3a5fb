------------------------ MODULE SingleInstance_proofs -----------------------
(***************************************************************************)
(* The event loop of an instance is exclusive, for any number of them; and *)
(* what one instance alone promises, for any number of requests, runs and  *)
(* proposals: SoloInv is inductive, so the ledger agrees with the packs as *)
(* long as nothing raises, and a rejection never replaces an application,  *)
(* whatever raises.                                                        *)
(***************************************************************************)
EXTENDS SingleInstance, ApprovalFlow_proofs

-----------------------------------------------------------------------------
(* The event loop.                                                         *)

\* A handler that awaits, is ready or has ended does not have the loop.
LEMMA StepKinds ==
  /\ LoopSteps \cap (AwaitSteps \cup ReadySteps \cup Terminal \cup {"unsent"}) = {}
  /\ {"gate:opened", "reopen", "approve:decision", "diagnose:slow_query"} \subseteq LedgerSteps
  /\ LedgerSteps \cap PackSteps = {}
  /\ LoopSteps = LedgerSteps \cup PackSteps
BY DEF LoopSteps, LedgerSteps, PackSteps, Events, DiagnosisEvents, ApplicationEvents,
   RejectionEvents, AwaitSteps, ReadySteps, Terminal

\* A handler takes a loop that is free.
LEMMA TakesLoop ==
  ASSUME TypeOK, LoopInv, NEW r \in Requests, NEW i \in Instances,
         loop[i] = None, loop' = [loop EXCEPT ![i] = r], Only(r),
         req[r].pc \notin LoopSteps, req'[r].at = i, req'[r].pc \in LoopSteps
  PROVE  LoopInv'
<1> SUFFICES ASSUME NEW s \in Requests, NEW j \in Instances
             PROVE  loop'[j] = s <=> req'[s].at = j /\ req'[s].pc \in LoopSteps
  BY DEF LoopInv
<1>1. loop'[j] = IF j = i THEN r ELSE loop[j]
  BY DEF TypeOK
<1>2. loop[j] = s <=> req[s].at = j /\ req[s].pc \in LoopSteps
  BY DEF LoopInv
<1>3. CASE s = r
  BY <1>1, <1>2, <1>3
<1>4. CASE s # r
  BY <1>1, <1>2, <1>4, FlowAssumption DEF Only
<1> QED
  BY <1>3, <1>4

\* The handler that has the loop moves, and keeps it as long as it calls.
LEMMA HoldsLoop ==
  ASSUME TypeOK, LoopInv, NEW r \in Requests, req[r].pc \in LoopSteps,
         req[r].at \in Instances, req'[r].at = req[r].at, Only(r),
         loop' = [loop EXCEPT ![req[r].at] = IF req'[r].pc \in LoopSteps THEN r ELSE None]
  PROVE  LoopInv'
<1> DEFINE i == req[r].at
<1> SUFFICES ASSUME NEW s \in Requests, NEW j \in Instances
             PROVE  loop'[j] = s <=> req'[s].at = j /\ req'[s].pc \in LoopSteps
  BY DEF LoopInv
<1>1. loop'[j] = IF j = i THEN IF req'[r].pc \in LoopSteps THEN r ELSE None ELSE loop[j]
  BY DEF TypeOK
<1>2. /\ loop[j] = s <=> req[s].at = j /\ req[s].pc \in LoopSteps
      /\ loop[i] = r
  BY DEF LoopInv
<1>3. CASE s = r
  BY <1>1, <1>2, <1>3, FlowAssumption
<1>4. CASE s # r
  BY <1>1, <1>2, <1>4, FlowAssumption DEF Only
<1> QED
  BY <1>3, <1>4

\* A step of a request that is not and does not get in the loop.
LEMMA StaysOut ==
  ASSUME LoopInv, NEW r \in Requests, loop' = loop, Only(r),
         req[r].pc \notin LoopSteps, req'[r].pc \notin LoopSteps
  PROVE  LoopInv'
BY DEF LoopInv, Only

LEMMA ReceiveLoop ==
  ASSUME TypeOK, LoopInv, NEW r \in Requests, Receive(r)
  PROVE  LoopInv'
<1>1. PICK i \in Instances, u \in RunIds :
        \/ ReceiveRun(r, i, u)
        \/ RefuseRun(r, i, u)
        \/ \E h \in Proposals, a \in Approvers :
             RefuseDecision(r, i, u, h) \/ ApproveDecision(r, i, u, h, a)
               \/ RejectDecision(r, i, u, h, a)
  BY DEF Receive
<1>2. Only(r) /\ req[r].pc \notin LoopSteps
  BY ReceiveSteps, StepKinds DEF Unsent
<1>3. CASE ReceiveRun(r, i, u)
  <2>1. req'[r].at = i /\ req'[r].pc \in LoopSteps
    BY <1>3, StepKinds DEF ReceiveRun, TypeOK, Unsent
  <2> QED
    BY <1>2, <1>3, <2>1, TakesLoop DEF ReceiveRun
<1>4. ASSUME NEW h \in Proposals, NEW a \in Approvers, RejectDecision(r, i, u, h, a)
      PROVE  LoopInv'
  <2>1. req'[r].at = i /\ req'[r].pc \in LoopSteps
    BY <1>4, StepKinds DEF RejectDecision, TypeOK
  <2> QED
    BY <1>2, <1>4, <2>1, TakesLoop DEF RejectDecision
<1>5. ASSUME NEW h \in Proposals, NEW a \in Approvers,
             RefuseDecision(r, i, u, h) \/ ApproveDecision(r, i, u, h, a)
      PROVE  LoopInv'
  <2>1. loop' = loop /\ req'[r].pc \in {"refused", "apply"}
    <3>1. CASE RefuseDecision(r, i, u, h)
      BY <3>1 DEF RefuseDecision, TypeOK, Unsent
    <3>2. CASE ApproveDecision(r, i, u, h, a)
      BY <3>2 DEF ApproveDecision, TypeOK
    <3> QED
      BY <1>5, <3>1, <3>2
  <2>2. req'[r].pc \notin LoopSteps
    BY <2>1, StepKinds DEF Terminal, AwaitSteps
  <2> QED
    BY <1>2, <2>1, <2>2, StaysOut
<1>6. CASE RefuseRun(r, i, u)
  <2>1. loop' = loop /\ req'[r].pc = "refused"
    BY <1>6 DEF RefuseRun, TypeOK, Unsent
  <2>2. req'[r].pc \notin LoopSteps
    BY <2>1, StepKinds DEF Terminal
  <2> QED
    BY <1>2, <2>1, <2>2, StaysOut
<1> QED
  BY <1>1, <1>3, <1>4, <1>5, <1>6

\* How a request goes on when it does not have the loop, and when it has.
LEMMA ProceedSteps ==
  ASSUME TypeOK, NEW r \in Requests, RequestInv(r), Proceed(r)
  PROVE  /\ Only(r) /\ disturbances' = disturbances
         /\ req'[r].at = req[r].at /\ req'[r].run = req[r].run
         /\ req[r].at \in Instances /\ req[r].run \in RunIds
         /\ \/ /\ req[r].pc \notin LoopSteps /\ req'[r].pc \notin LoopSteps
               /\ UNCHANGED <<loop, ledger, packs>>
            \/ /\ Resume(r) /\ UNCHANGED <<ledger, packs>>
               /\ req[r].pc \notin LoopSteps /\ req'[r].pack = req[r].pack
               /\ req'[r].pc \in {"reopen", "diagnose:slow_query", "approve:decision"}
            \/ /\ WriteRecord(r) \/ WritePack(r)
               /\ req[r].pc \in LoopSteps /\ req'[r].pack = req[r].pack
               /\ req'[r].pc = StepAfter(req[r].pc, req[r].pack)
<1> DEFINE Out == req[r].pc \notin LoopSteps /\ req'[r].pc \notin LoopSteps
                  /\ UNCHANGED <<loop, ledger, packs>>
           Stays == /\ Only(r) /\ disturbances' = disturbances
                    /\ req'[r].at = req[r].at /\ req'[r].run = req[r].run
<1>1. CASE \/ \E h \in Proposals : DiagnosisReturns(r, h)
           \/ AgentUnparsed(r) \/ CreateIndex(r)
           \/ \E verdict \in {"passed", "failed"} : VerifyReturns(r, verdict)
           \/ VerifyHintMissing(r)
  <2>1. /\ Stays /\ UNCHANGED <<loop, ledger, packs>>
        /\ req[r].pc \in AwaitSteps
        /\ req'[r].pc \in {"diagnosed", "unparsed", "verify", "verdict", "failed"}
    BY <1>1 DEF DiagnosisReturns, AgentUnparsed, CreateIndex, VerifyReturns, VerifyHintMissing,
       stores, Only, TypeOK, Request, AwaitSteps
  <2>2. Out
    BY <2>1, StepKinds DEF AwaitSteps, ReadySteps, Terminal
  <2>3. req[r].pc # "unsent"
    BY <2>1 DEF AwaitSteps
  <2> QED
    BY <2>1, <2>2, <2>3 DEF RequestInv
<1>2. CASE Resume(r)
  <2>1. /\ Stays /\ UNCHANGED <<ledger, packs>> /\ req'[r].pack = req[r].pack
        /\ req[r].pc \in ReadySteps /\ req'[r].pc = ResumeAt(req[r].pc)
    BY <1>2 DEF Resume, stores, Only, TypeOK, Request
  <2>2. /\ req[r].pc \notin LoopSteps /\ req[r].pc # "unsent"
        /\ req'[r].pc \in {"reopen", "diagnose:slow_query", "approve:decision"}
    BY <2>1, StepKinds DEF ReadySteps, ResumeAt
  <2> QED
    BY <1>2, <2>1, <2>2 DEF RequestInv
<1>3. CASE WriteRecord(r) \/ WritePack(r)
  <2>1. /\ Stays /\ req'[r].pack = req[r].pack
        /\ req'[r].pc = StepAfter(req[r].pc, req[r].pack)
    BY <1>3 DEF WriteRecord, WritePack, Advance, Only, TypeOK, Request
  <2>2. req[r].pc \in LoopSteps /\ req[r].pc # "unsent"
    BY <1>3, StepKinds DEF WriteRecord, WritePack
  <2> QED
    BY <1>3, <2>1, <2>2 DEF RequestInv
<1> QED
  BY <1>1, <1>2, <1>3 DEF Proceed

LEMMA LoopStep ==
  ASSUME FlowInv, LoopInv, Next
  PROVE  LoopInv'
<1>1. TypeOK /\ \A r \in Requests : RequestInv(r)
  BY DEF FlowInv
<1>2. ASSUME NEW r \in Requests, Receive(r)
      PROVE  LoopInv'
  BY <1>1, <1>2, ReceiveLoop
<1>3. ASSUME NEW r \in Requests, Proceed(r)
      PROVE  LoopInv'
  <2>1. Only(r) /\ req'[r].at = req[r].at /\ req[r].at \in Instances
    BY <1>1, <1>3, ProceedSteps
  <2>2. CASE req[r].pc \notin LoopSteps /\ req'[r].pc \notin LoopSteps /\ loop' = loop
    BY <2>1, <2>2, StaysOut
  <2>3. CASE Resume(r)
    <3>1. req[r].pc \notin LoopSteps /\ req'[r].pc \in LoopSteps
      <4>1. req[r].pc \in ReadySteps /\ req'[r].pc = ResumeAt(req[r].pc)
        BY <1>1, <2>3 DEF Resume, TypeOK, Request
      <4> QED
        BY <4>1, StepKinds, StepsAre
    <3> QED
      BY <1>1, <2>1, <2>3, <3>1, TakesLoop DEF Resume
  <2>4. CASE WriteRecord(r) \/ WritePack(r)
    <3>1. /\ req[r].pc \in LoopSteps
          /\ loop' = [loop EXCEPT ![req[r].at] = IF req'[r].pc \in LoopSteps THEN r ELSE None]
      BY <1>1, <1>3, <2>4, ProceedSteps, StepKinds DEF WriteRecord, WritePack, Advance, TypeOK,
         Request
    <3> QED
      BY <1>1, <2>1, <3>1, HoldsLoop
  <2> QED
    BY <1>1, <1>3, <2>2, <2>3, <2>4, ProceedSteps
<1>4. ASSUME NEW r \in Requests, CallRaises(r)
      PROVE  LoopInv'
  <2>1. /\ Only(r) /\ req'[r].pc = "failed" /\ req'[r].at = req[r].at
        /\ req'[r].pc \notin LoopSteps
    BY <1>1, <1>4, StepKinds DEF CallRaises, Only, TypeOK, Request, Terminal
  <2>2. req[r].pc # "unsent"
    BY <1>4, StepKinds DEF CallRaises, AwaitSteps
  <2>3. req[r].at \in Instances
    BY <1>1, <2>2 DEF RequestInv
  <2>4. CASE req[r].pc \in LoopSteps
    BY <1>1, <1>4, <2>1, <2>3, <2>4, HoldsLoop DEF CallRaises
  <2>5. CASE req[r].pc \notin LoopSteps
    BY <1>4, <2>1, <2>5, StaysOut DEF CallRaises
  <2> QED
    BY <2>4, <2>5
<1>5. ASSUME NEW i \in Instances, Crash(i)
      PROVE  LoopInv'
  <2>1. \A s \in Requests :
          \/ /\ req[s].at = i /\ req[s].pc \notin Terminal \cup {"unsent"}
             /\ req'[s].pc = "lost"
          \/ /\ req[s].at # i \/ req[s].pc \in Terminal \cup {"unsent"}
             /\ req'[s] = req[s]
    BY <1>1, <1>5 DEF Crash, TypeOK, Request
  <2>2. \A j \in Instances : loop'[j] = IF j = i THEN None ELSE loop[j]
    BY <1>1, <1>5 DEF Crash, TypeOK
  <2>3. "lost" \notin LoopSteps /\ \A pc \in Terminal \cup {"unsent"} : pc \notin LoopSteps
    BY StepKinds DEF Terminal
  <2>4. \A s \in Requests : req'[s].at = req[s].at
    BY <1>1, <1>5 DEF Crash, TypeOK, Request
  <2> QED
    BY <2>1, <2>2, <2>3, <2>4, FlowAssumption DEF LoopInv
<1>6. ASSUME ResetBaseline
      PROVE  LoopInv'
  BY <1>6 DEF ResetBaseline, LoopInv
<1> QED
  BY <1>2, <1>3, <1>4, <1>5, <1>6 DEF Next

\* However many instances there are, the loop of each is held by exactly the
\* handler between two driver calls, and no raising call, crash or answer leaves
\* it taken (the endpoints are coroutines, and the driver's calls block).
THEOREM LoopIsExclusive == Spec => []LoopInv
<1>1. Init => LoopInv
  BY FlowAssumption, StepKinds DEF Init, LoopInv, Unsent
<1>2. FlowInv /\ LoopInv /\ [Next]_vars => LoopInv'
  <2>1. ASSUME LoopInv, UNCHANGED vars
        PROVE  LoopInv'
    BY <2>1 DEF LoopInv, vars
  <2> QED
    BY <2>1, LoopStep
<1> QED
  BY <1>1, <1>2, FlowInvariant, PTL DEF Spec

-----------------------------------------------------------------------------
(* One instance: between two driver calls of a handler there is nobody.    *)

LEMMA Alone ==
  ASSUME OneInstance, FlowInv, LoopInv, NEW r \in Requests, NEW s \in Requests,
         req[r].pc \in LoopSteps, req[s].pc \in LoopSteps
  PROVE  r = s
<1>1. req[r].at \in Instances /\ req[s].at \in Instances
  BY StepKinds DEF FlowInv, RequestInv
<1>2. req[r].at = req[s].at
  BY <1>1 DEF OneInstance
<1> QED
  BY <1>1, <1>2 DEF LoopInv

\* What a write to the store leaves alone.
LEMMA WritePackStores ==
  ASSUME TypeOK, NEW r \in Requests, RequestInv(r), WritePack(r)
  PROVE  /\ ledger' = ledger
         /\ \A u \in RunIds : packs'[u] = IF u = req[r].run THEN req[r].pack ELSE packs[u]
         /\ req[r].pc \in PackSteps
         /\ req[r].pc = "pack" => req'[r].pc = "save"
         /\ req[r].pc = "save" => req'[r].pc = "answered"
<1>1. req'[r].pc = StepAfter(req[r].pc, req[r].pack)
  BY DEF WritePack, Advance, TypeOK, Request
<1>2. \A u \in RunIds : packs'[u] = IF u = req[r].run THEN req[r].pack ELSE packs[u]
  BY DEF WritePack, TypeOK
<1>3. "pack" \notin LastRecords /\ "save" \notin LastRecords
  BY DEF LastRecords
<1> QED
  BY <1>1, <1>2, <1>3 DEF WritePack, StepAfter

\* The record that is written, and those that are not.
LEMMA WriteRecordStores ==
  ASSUME TypeOK, NEW r \in Requests, RequestInv(r), WriteRecord(r)
  PROVE  /\ packs' = packs /\ req[r].pc \in LedgerSteps
         /\ \A u \in RunIds, e \in Events :
              ledger'[u][e] = IF u = req[r].run /\ e = EventOf(req[r].pc)
                              THEN RecordOf(e, req[r].pack) ELSE ledger[u][e]
<1> DEFINE e == EventOf(req[r].pc)
           rec == RecordOf(e, req[r].pack)
<1>1. ledger' = [ledger EXCEPT ![req[r].run][e] = rec]
  BY DEF WriteRecord
<1>2. req[r].run \in RunIds /\ e \in Events
  BY RecordIsPresent DEF WriteRecord
<1> HIDE DEF e, rec
<1>3. \A u \in RunIds, f \in Events :
        ledger'[u][f] = IF u = req[r].run /\ f = e THEN rec ELSE ledger[u][f]
  BY <1>1, <1>2 DEF TypeOK
<1> QED
  BY <1>3 DEF WriteRecord, e, rec

-----------------------------------------------------------------------------
(* The rejections.                                                         *)

\* The reject handler starts with the pending pack of the store.
LEMMA RejectionStarts ==
  ASSUME FlowInv, NEW r \in Requests, Receive(r),
         req'[r].pc \in LoopSteps, req'[r].pack.status = "rejected"
  PROVE  /\ req'[r].pc = "approve:decision"
         /\ packs[req'[r].run].status = "diagnosed"
         /\ req'[r].pack = RejectedPack(packs[req'[r].run], req'[r].approver)
<1>1. PICK i \in Instances, u \in RunIds :
        \/ ReceiveRun(r, i, u)
        \/ RefuseRun(r, i, u)
        \/ \E h \in Proposals, a \in Approvers :
             RefuseDecision(r, i, u, h) \/ ApproveDecision(r, i, u, h, a)
               \/ RejectDecision(r, i, u, h, a)
  BY DEF Receive
<1>2. TypeOK /\ StoreInv
  BY DEF FlowInv
<1>3. req'[r].pack # NoPack
  BY DEF NoPack
<1>4. /\ ~ReceiveRun(r, i, u)
      /\ ~RefuseRun(r, i, u)
      /\ \A h \in Proposals : ~RefuseDecision(r, i, u, h)
  BY <1>2, <1>3 DEF ReceiveRun, RefuseRun, RefuseDecision, TypeOK, Unsent
<1>5. ASSUME NEW h \in Proposals, NEW a \in Approvers PROVE ~ApproveDecision(r, i, u, h, a)
  BY <1>2, <1>5, StepKinds DEF ApproveDecision, TypeOK, AwaitSteps
<1>6. PICK h \in Proposals, a \in Approvers : RejectDecision(r, i, u, h, a)
  BY <1>1, <1>4, <1>5
<1>7. req'[r] = [pc |-> "approve:decision", at |-> i, run |-> u, hash |-> h,
                 approver |-> a, pack |-> RejectedPack(packs[u], a)]
  BY <1>2, <1>6 DEF RejectDecision, TypeOK
<1>8. packs[u].status = "diagnosed"
  BY <1>2, <1>6, AcceptedPack DEF RejectDecision
<1> QED
  BY <1>7, <1>8

\* From one driver call to the next, the rejection still fits the store.
LEMMA RejectionStep ==
  ASSUME OneInstance, FlowInv, LoopInv, RejectionInv, Next
  PROVE  RejectionInv'
<1>1. TypeOK /\ \A r \in Requests : RequestInv(r)
  BY DEF FlowInv
<1> DEFINE Fits(r) ==
      req[r].pc \in LoopSteps /\ req[r].pack.status = "rejected" =>
        IF req[r].pc = "save"
        THEN packs[req[r].run] = req[r].pack
        ELSE /\ packs[req[r].run].status = "diagnosed"
             /\ req[r].pack = RejectedPack(packs[req[r].run], req[r].approver)
<1> SUFFICES ASSUME NEW r \in Requests, req'[r].pc \in LoopSteps,
                    req'[r].pack.status = "rejected"
             PROVE  Fits(r)'
  BY DEF RejectionInv
<1>2. Fits(r)
  BY DEF RejectionInv
<1>3. CASE req'[r] = req[r] /\ packs' = packs
  BY <1>2, <1>3
<1>4. ASSUME NEW s \in Requests, Receive(s)
      PROVE  Fits(r)'
  <2>1. packs' = packs /\ Only(s)
    BY <1>1, <1>4, ReceiveSteps DEF stores
  <2>2. CASE s # r
    BY <1>3, <2>1, <2>2 DEF Only
  <2>3. CASE s = r
    <3>1. /\ req'[r].pc = "approve:decision"
          /\ packs'[req'[r].run].status = "diagnosed"
          /\ req'[r].pack = RejectedPack(packs'[req'[r].run], req'[r].approver)
      BY <1>4, <2>1, <2>3, RejectionStarts
    <3> QED
      BY <3>1
  <2> QED
    BY <2>2, <2>3
<1>5. ASSUME NEW s \in Requests, Proceed(s), s # r
      PROVE  Fits(r)'
  <2>1. req'[r] = req[r]
    BY <1>1, <1>5, ProceedSteps DEF Only
  <2>2. req[s].pc \notin LoopSteps
    BY <1>5, <2>1, Alone
  <2>3. packs' = packs
    BY <1>1, <1>5, <2>2, ProceedSteps
  <2> QED
    BY <1>3, <2>1, <2>3
<1>6. ASSUME Proceed(r)
      PROVE  Fits(r)'
  <2>1. req'[r].run = req[r].run /\ req[r].run \in RunIds
    BY <1>1, <1>6, ProceedSteps
  <2>2. ~Resume(r)
    <3>1. SUFFICES ASSUME Resume(r) PROVE FALSE
      OBVIOUS
    <3>2. req[r].pc \in ReadySteps /\ req[r].pack.status = "rejected"
      BY <1>1, <1>6, <3>1, ProceedSteps DEF Resume, TypeOK, Request
    <3>3. Carries(req[r].pc, "rejected")
      BY <1>1, <3>2 DEF RequestInv
    <3> QED
      BY <3>2, <3>3 DEF Carries, ReadySteps
  <2>3. /\ WriteRecord(r) \/ WritePack(r)
        /\ req[r].pc \in LoopSteps /\ req'[r].pack = req[r].pack
        /\ req'[r].pc = StepAfter(req[r].pc, req[r].pack)
    BY <1>1, <1>6, <2>2, ProceedSteps
  <2>4. req'[r].approver = req[r].approver
    BY <1>1, <2>3 DEF WriteRecord, WritePack, Advance, TypeOK, Request
  <2>5. CASE WriteRecord(r)
    <3>1. packs' = packs /\ req[r].pc \in LedgerSteps
      BY <2>5 DEF WriteRecord
    <3>2. req[r].pc # "save" /\ req'[r].pc # "save"
      <4>1. Carries(req[r].pc, "rejected")
        BY <1>1, <2>3 DEF RequestInv
      <4>2. req[r].pc \in {"approve:decision", "approve:rejection"}
        BY <3>1, <4>1 DEF Carries, LedgerSteps, Events, DiagnosisEvents, ApplicationEvents,
           RejectionEvents
      <4> QED
        BY <2>3, <4>2 DEF StepAfter, LastRecords
    <3> QED
      BY <1>2, <2>1, <2>3, <2>4, <3>1, <3>2
  <2>6. CASE WritePack(r)
    <3>1. req[r].pc = "pack" /\ req'[r].pc = "save"
      BY <1>1, <2>6, WritePackStores, StepKinds DEF PackSteps, Terminal
    <3>2. packs'[req[r].run] = req[r].pack
      BY <1>1, <2>1, <2>6, WritePackStores
    <3> QED
      BY <2>1, <2>3, <3>1, <3>2
  <2> QED
    BY <2>3, <2>5, <2>6
<1>7. ASSUME NEW s \in Requests, CallRaises(s)
      PROVE  Fits(r)'
  <2>1. packs' = packs /\ (req'[r] = req[r] \/ req'[r].pc = "failed")
    BY <1>1, <1>7 DEF CallRaises, stores, TypeOK, Request
  <2>2. "failed" \notin LoopSteps
    BY StepKinds DEF Terminal
  <2> QED
    BY <1>3, <2>1, <2>2
<1>8. ASSUME NEW i \in Instances, Crash(i)
      PROVE  Fits(r)'
  <2>1. packs' = packs /\ (req'[r] = req[r] \/ req'[r].pc = "lost")
    BY <1>1, <1>8 DEF Crash, stores, TypeOK, Request
  <2>2. "lost" \notin LoopSteps
    BY StepKinds DEF Terminal
  <2> QED
    BY <1>3, <2>1, <2>2
<1>9. CASE ResetBaseline
  BY <1>3, <1>9 DEF ResetBaseline
<1> QED
  BY <1>4, <1>5, <1>6, <1>7, <1>8, <1>9 DEF Next

-----------------------------------------------------------------------------
(* The records.                                                            *)

\* What a step writes is what the sequence of the next step has beyond its own,
\* and the last record completes what the status of the pack asks for.
LEMMA SoFarGrows ==
  ASSUME NEW pc \in LedgerSteps, NEW p, Carries(pc, p.status)
  PROVE  LET next == StepAfter(pc, p)
             done == SoFar(pc) \cup {EventOf(pc)}
         IN /\ next \in LoopSteps <=> pc \notin {"gate:opened", "reopen"}
            /\ next \notin {"gate:opened", "reopen", "save"}
            /\ next \in LedgerSteps => SoFar(next) \subseteq done
            /\ next = "pack" =>
                 /\ p.status = "diagnosed" => DiagnosisEvents \subseteq done
                 /\ p.status = "rejected" => RejectionEvents \subseteq done
                 /\ p.status \in {"approved", "verified"} => ApplicationEvents \subseteq done
<1> USE DEF EventOf, DiagnosisEvents, RejectionEvents, ApplicationEvents, PackSteps, Carries,
            LoopSteps, LedgerSteps, Events, LastRecords, SoFar
<1>1. CASE pc = "gate:opened"
  BY <1>1, StepAfter(pc, p) \in {"agent", "explain"} DEF StepAfter
<1>2. CASE pc = "reopen"
  BY <1>2, StepAfter(pc, p) = "explain" DEF StepAfter
<1>3. CASE pc = "diagnose:slow_query"
  BY <1>3, StepAfter(pc, p) = "diagnose:candidate" DEF StepAfter
<1>4. CASE pc = "diagnose:candidate"
  BY <1>4, StepAfter(pc, p) = "diagnose:before" DEF StepAfter
<1>5. CASE pc = "diagnose:before"
  BY <1>5, StepAfter(pc, p) = "gate:pending" DEF StepAfter
<1>6. CASE pc = "gate:pending"
  BY <1>6, StepAfter(pc, p) = "pack" DEF StepAfter
<1>7. CASE pc = "approve:decision" /\ p.status = "rejected"
  BY <1>7, StepAfter(pc, p) = "approve:rejection" DEF StepAfter
<1>8. CASE pc = "approve:decision" /\ p.status # "rejected"
  BY <1>8, StepAfter(pc, p) = "approve:approval" DEF StepAfter
<1>9. CASE pc = "approve:rejection"
  BY <1>9, StepAfter(pc, p) = "pack" DEF StepAfter
<1>10. CASE pc = "approve:approval"
  BY <1>10, StepAfter(pc, p) = "approve:application" DEF StepAfter
<1>11. CASE pc = "approve:application"
  BY <1>11, StepAfter(pc, p) = "verify:verification" DEF StepAfter
<1>12. CASE pc = "verify:verification"
  BY <1>12, StepAfter(pc, p) = "pack" DEF StepAfter
<1> QED
  BY <1>1, <1>2, <1>3, <1>4, <1>5, <1>6, <1>7, <1>8, <1>9, <1>10, <1>11, <1>12

\* The record of an opened gate names no pack.
LEMMA GateOpenedIsConstant ==
  ASSUME NEW p
  PROVE  RecordOf("gate:opened", p) = RecordOf("gate:opened", NoPack)
BY DEF RecordOf

LEMMA SoFarIsWritable ==
  ASSUME NEW pc
  PROVE  SoFar(pc) \subseteq Events
BY DEF SoFar, Events, DiagnosisEvents, ApplicationEvents, RejectionEvents

\* The sequence of a handler that writes a record goes on.
LEMMA SequenceWrites ==
  ASSUME TypeOK, NEW r \in Requests, RequestInv(r), SequenceInv(r), Proceed(r), WriteRecord(r)
  PROVE  SequenceInv(r)'
<1> DEFINE pc == req[r].pc
           p == req[r].pack
           u == req[r].run
           next == StepAfter(pc, p)
           done == SoFar(pc) \cup {EventOf(pc)}
<1>1. /\ pc \in LedgerSteps /\ u \in RunIds /\ EventOf(pc) \in Events
      /\ req'[r].pc = next /\ req'[r].run = u /\ req'[r].pack = p
  BY RecordIsPresent, ProceedSteps DEF WriteRecord, Advance, TypeOK, Request
<1>2. Carries(pc, p.status)
  BY <1>1, StepKinds DEF RequestInv
<1>3. \A e \in done : ledger'[u][e] = RecordOf(e, p)
  <2>1. \A e \in SoFar(pc) : ledger[u][e] = RecordOf(e, p)
    BY <1>1 DEF SequenceInv
  <2>2. \A e \in Events :
          ledger'[u][e] = IF e = EventOf(pc) THEN RecordOf(e, p) ELSE ledger[u][e]
    BY <1>1, WriteRecordStores
  <2> QED
    BY <1>1, <2>1, <2>2, SoFarIsWritable
<1>4. /\ next # "save"
      /\ next \in LedgerSteps => SoFar(next) \subseteq done
      /\ next = "pack" =>
           /\ p.status = "diagnosed" => DiagnosisEvents \subseteq done
           /\ p.status = "rejected" => RejectionEvents \subseteq done
           /\ p.status \in {"approved", "verified"} => ApplicationEvents \subseteq done
  BY <1>1, <1>2, SoFarGrows
<1> HIDE DEF pc, p, u, next, done
<1>5. next = "pack" => Agrees(p, ledger'[u])
  BY <1>3, <1>4 DEF Agrees
<1>6. next \in PackSteps => next = "pack"
  BY <1>4 DEF PackSteps
<1>7. next \in LedgerSteps => \A e \in SoFar(next) : ledger'[u][e] = RecordOf(e, p)
  BY <1>3, <1>4
<1> QED
  BY <1>1, <1>5, <1>6, <1>7 DEF SequenceInv

\* Where a request that is received begins, or ends at once.
LEMMA ReceivedAt ==
  ASSUME TypeOK, NEW r \in Requests, Receive(r)
  PROVE  req'[r].pc \in {"gate:opened", "refused", "apply", "approve:decision"}
<1>1. PICK i \in Instances, u \in RunIds :
        \/ ReceiveRun(r, i, u)
        \/ RefuseRun(r, i, u)
        \/ \E h \in Proposals, a \in Approvers :
             RefuseDecision(r, i, u, h) \/ ApproveDecision(r, i, u, h, a)
               \/ RejectDecision(r, i, u, h, a)
  BY DEF Receive
<1>2. ReceiveRun(r, i, u) => req'[r].pc = "gate:opened"
  BY DEF ReceiveRun, TypeOK, Unsent
<1>3. RefuseRun(r, i, u) => req'[r].pc = "refused"
  BY DEF RefuseRun, TypeOK, Unsent
<1>4. \A h \in Proposals : RefuseDecision(r, i, u, h) => req'[r].pc = "refused"
  BY DEF RefuseDecision, TypeOK, Unsent
<1>5. \A h \in Proposals, a \in Approvers :
        /\ ApproveDecision(r, i, u, h, a) => req'[r].pc = "apply"
        /\ RejectDecision(r, i, u, h, a) => req'[r].pc = "approve:decision"
  BY DEF ApproveDecision, RejectDecision, TypeOK
<1> QED
  BY <1>1, <1>2, <1>3, <1>4, <1>5

\* A request that is received has written nothing of its sequence.
LEMMA SequenceStarts ==
  ASSUME TypeOK, NEW r \in Requests, Receive(r)
  PROVE  SequenceInv(r)'
<1>1. req'[r].pc \in {"gate:opened", "refused", "apply", "approve:decision"}
  BY ReceivedAt
<1>2. req'[r].pc \notin PackSteps /\ SoFar(req'[r].pc) = {}
  BY <1>1 DEF PackSteps, SoFar
<1> QED
  BY <1>2 DEF SequenceInv

\* A request is answered by the save of its pack.
LEMMA AnsweredBy ==
  ASSUME FlowInv, Next, NEW r \in Requests, req[r].pc # "answered", req'[r].pc = "answered"
  PROVE  WritePack(r) /\ req[r].pc \in PackSteps /\ Proceed(r)
<1>1. TypeOK /\ \A s \in Requests : RequestInv(s)
  BY DEF FlowInv
<1>2. ASSUME NEW s \in Requests, Receive(s)
      PROVE  FALSE
  BY <1>1, <1>2, ReceivedAt, ReceiveSteps DEF Only
<1>3. ASSUME NEW s \in Requests, CallRaises(s)
      PROVE  FALSE
  <2>1. req'[r] = req[r] \/ req'[r].pc = "failed"
    BY <1>1, <1>3 DEF CallRaises, TypeOK, Request
  <2> QED
    BY <2>1
<1>4. ASSUME NEW i \in Instances, Crash(i)
      PROVE  FALSE
  <2>1. req'[r] \in {req[r], [req[r] EXCEPT !.pc = "lost"]}
    BY <1>4 DEF Crash
  <2>2. [req[r] EXCEPT !.pc = "lost"].pc = "lost"
    BY <1>1 DEF TypeOK, Request
  <2> QED
    BY <2>1, <2>2
<1>5. PICK s \in Requests : Proceed(s)
  BY <1>2, <1>3, <1>4 DEF Next, ResetBaseline
<1>6. s = r
  BY <1>1, <1>5, ProceedSteps DEF Only
<1>7. ~Resume(r)
  <2>1. Resume(r) => req'[r].pc = ResumeAt(req[r].pc) /\ req[r].pc \in ReadySteps
    BY <1>1 DEF Resume, TypeOK, Request
  <2> QED
    BY <2>1 DEF ReadySteps, ResumeAt
<1>8. ~WriteRecord(r)
  <2>1. WriteRecord(r) => req'[r].pc = StepAfter(req[r].pc, req[r].pack)
                            /\ req[r].pc \in LedgerSteps
    BY <1>1 DEF WriteRecord, Advance, TypeOK, Request
  <2>2. req[r].pc \in LedgerSteps => StepAfter(req[r].pc, req[r].pack) # "answered"
    BY DEF StepAfter, LastRecords, LedgerSteps, Events, DiagnosisEvents, ApplicationEvents,
       RejectionEvents
  <2> QED
    BY <2>1, <2>2
<1>9. ASSUME ~WritePack(r)
      PROVE  FALSE
  <2>1. \/ \E h \in Proposals : DiagnosisReturns(r, h)
        \/ AgentUnparsed(r)
        \/ CreateIndex(r)
        \/ \E verdict \in {"passed", "failed"} : VerifyReturns(r, verdict)
        \/ VerifyHintMissing(r)
    BY <1>5, <1>6, <1>7, <1>8, <1>9 DEF Proceed
  <2>2. \A h \in Proposals : DiagnosisReturns(r, h) => req'[r].pc = "diagnosed"
    BY <1>1 DEF DiagnosisReturns, TypeOK, Request
  <2>3. AgentUnparsed(r) => req'[r].pc = "unparsed"
    BY <1>1 DEF AgentUnparsed, TypeOK, Request
  <2>4. CreateIndex(r) => req'[r].pc = "verify"
    BY <1>1 DEF CreateIndex, TypeOK, Request
  <2>5. \A verdict \in {"passed", "failed"} : VerifyReturns(r, verdict) => req'[r].pc = "verdict"
    BY <1>1 DEF VerifyReturns, TypeOK, Request
  <2>6. VerifyHintMissing(r) => req'[r].pc = "failed"
    BY <1>1 DEF VerifyHintMissing, TypeOK, Request
  <2> QED
    BY <2>1, <2>2, <2>3, <2>4, <2>5, <2>6
<1> QED
  BY <1>5, <1>6, <1>9 DEF WritePack

\* The mover's own sequence, whatever it does.
LEMMA MoverSequence ==
  ASSUME FlowInv, AgreementInv, NEW r \in Requests, Proceed(r)
  PROVE  SequenceInv(r)'
<1>1. TypeOK /\ RequestInv(r) /\ SequenceInv(r)
  BY DEF FlowInv, AgreementInv
<1>2. CASE req'[r].pc \notin LoopSteps
  BY <1>2, StepKinds DEF SequenceInv
<1>3. CASE Resume(r)
  <2>1. /\ req'[r].pc \in {"reopen", "diagnose:slow_query", "approve:decision"}
        /\ ledger' = ledger /\ req'[r].pack = req[r].pack
        /\ req'[r].run = req[r].run /\ req[r].run \in RunIds
    <3>1. /\ ledger' = ledger /\ req'[r].pack = req[r].pack
          /\ req[r].pc \in ReadySteps /\ req'[r].pc = ResumeAt(req[r].pc)
      BY <1>1, <1>3 DEF Resume, stores, TypeOK, Request
    <3>2. req'[r].run = req[r].run /\ req[r].run \in RunIds
      BY <1>1, ProceedSteps
    <3> QED
      BY <3>1, <3>2 DEF ReadySteps, ResumeAt
  <2>2. req'[r].pc \notin PackSteps
    BY <2>1 DEF PackSteps
  <2>3. req'[r].pc # "diagnose:slow_query" => SoFar(req'[r].pc) = {}
    BY <2>1 DEF SoFar
  <2>4. req'[r].pc = "diagnose:slow_query" =>
          SoFar(req'[r].pc) = {"gate:opened"} /\ req[r].pc = "diagnosed"
    <3>1. req'[r].pc = ResumeAt(req[r].pc) /\ req[r].pc \in ReadySteps
      BY <1>1, <1>3 DEF Resume, TypeOK, Request
    <3> QED
      BY <3>1 DEF SoFar, ResumeAt, ReadySteps
  <2>5. req[r].pc = "diagnosed" =>
          ledger[req[r].run]["gate:opened"] = RecordOf("gate:opened", req[r].pack)
    <3>1. req[r].pc = "diagnosed" => "gate:opened" \in Written(req[r].run)
      BY <1>1 DEF RequestInv, Precedes
    <3>2. req[r].pc = "diagnosed" => ledger[req[r].run]["gate:opened"] # NoRecord
      BY <3>1 DEF Written
    <3> QED
      BY <2>1, <3>2, GateOpenedIsConstant DEF AgreementInv
  <2> QED
    BY <2>1, <2>2, <2>3, <2>4, <2>5 DEF SequenceInv
<1>4. CASE WriteRecord(r)
  BY <1>1, <1>4, SequenceWrites
<1>5. CASE WritePack(r)
  <2>1. /\ ledger' = ledger /\ req[r].pc \in PackSteps
        /\ req'[r].pc \in {"save", "answered"}
        /\ req'[r].run = req[r].run /\ req'[r].pack = req[r].pack
    <3>1. req'[r].run = req[r].run /\ req'[r].pack = req[r].pack
      BY <1>1, <1>5 DEF WritePack, Advance, TypeOK, Request
    <3>2. ledger' = ledger /\ req[r].pc \in PackSteps /\ req'[r].pc \in {"save", "answered"}
      BY <1>1, <1>5, WritePackStores DEF PackSteps
    <3> QED
      BY <3>1, <3>2
  <2>2. req'[r].pc \notin LedgerSteps
    BY <2>1, StepKinds DEF PackSteps, Terminal
  <2> QED
    BY <1>1, <2>1, <2>2 DEF SequenceInv
<1> QED
  BY <1>1, <1>2, <1>3, <1>4, <1>5, ProceedSteps

\* The records of the runs whose handler has not begun to replace them.
LEMMA RecordsStep ==
  ASSUME OneInstance, FlowInv, LoopInv, AgreementInv, NEW r \in Requests, Proceed(r),
         NEW u \in RunIds
  PROVE  Rewritten(u)' \/ Agrees(packs'[u], ledger'[u])
<1>1. /\ TypeOK /\ RequestInv(r) /\ SequenceInv(r)
      /\ Rewritten(u) \/ Agrees(packs[u], ledger[u])
  BY DEF FlowInv, AgreementInv
<1>2. Only(r) /\ req'[r].run = req[r].run
  BY <1>1, ProceedSteps
<1> DEFINE Rewrites(s) == req[s].run = u /\ req[s].pc \in LoopSteps \ {"gate:opened", "reopen"}
<1>3. ASSUME NEW s \in Requests, s # r, Rewrites(s)
      PROVE  Rewritten(u)'
  BY <1>2, <1>3 DEF Rewritten, Only
<1>4. ASSUME packs'[u] = packs[u], ledger'[u] = ledger[u], ~Rewrites(r)
      PROVE  Rewritten(u)' \/ Agrees(packs'[u], ledger'[u])
  BY <1>1, <1>3, <1>4 DEF Rewritten
<1>5. CASE UNCHANGED <<ledger, packs>> /\ req[r].pc \notin LoopSteps
  BY <1>4, <1>5
<1>6. CASE WriteRecord(r)
  <2> DEFINE pc == req[r].pc
             p == req[r].pack
  <2>1. /\ packs' = packs /\ pc \in LedgerSteps /\ pc \in LoopSteps
        /\ req'[r].pc = StepAfter(pc, p)
        /\ \A e \in Events :
             ledger'[u][e] = IF u = req[r].run /\ e = EventOf(pc)
                             THEN RecordOf(e, p) ELSE ledger[u][e]
    BY <1>1, <1>6, WriteRecordStores, ProceedSteps, StepKinds
       DEF WriteRecord, Advance, TypeOK, Request
  <2>2. CASE u # req[r].run
    <3>1. \A e \in Events : ledger'[u][e] = ledger[u][e]
      BY <2>1, <2>2
    <3>2. Agrees(packs[u], ledger[u]) => Agrees(packs'[u], ledger'[u])
      BY <2>1, <3>1 DEF Agrees, Events
    <3>3. ~Rewrites(r)
      BY <2>2
    <3> QED
      BY <1>1, <1>3, <3>2, <3>3 DEF Rewritten
  <2>3. CASE u = req[r].run /\ pc \in {"gate:opened", "reopen"}
    <3>1. \A e \in Events : ledger'[u][e] = IF e = "gate:opened"
                                            THEN RecordOf(e, packs[u]) ELSE ledger[u][e]
      BY <2>1, <2>3, GateOpenedIsConstant DEF EventOf
    <3>2. Agrees(packs[u], ledger[u]) => Agrees(packs'[u], ledger'[u])
      BY <2>1, <3>1 DEF Agrees, Events
    <3>3. ~Rewrites(r)
      BY <2>3
    <3> QED
      BY <1>1, <1>3, <3>2, <3>3 DEF Rewritten
  <2>4. CASE u = req[r].run /\ pc \notin {"gate:opened", "reopen"}
    <3>1. Carries(pc, p.status)
      BY <1>1, <2>1 DEF RequestInv
    <3>2. StepAfter(pc, p) \in LoopSteps \ {"gate:opened", "reopen"}
      BY <2>1, <2>4, <3>1, SoFarGrows
    <3> QED
      BY <1>2, <2>1, <2>4, <3>2 DEF Rewritten
  <2> QED
    BY <2>2, <2>3, <2>4
<1>7. CASE WritePack(r)
  <2>1. /\ ledger' = ledger /\ req[r].pc \in PackSteps
        /\ packs'[u] = IF u = req[r].run THEN req[r].pack ELSE packs[u]
    BY <1>1, <1>7, WritePackStores
  <2>2. CASE u # req[r].run
    BY <1>4, <2>1, <2>2
  <2>3. CASE u = req[r].run
    BY <1>1, <2>1, <2>3 DEF SequenceInv
  <2> QED
    BY <2>2, <2>3
<1> QED
  BY <1>1, <1>5, <1>6, <1>7, ProceedSteps

\* As long as nothing raised, the records agree, up to the sequence that is
\* being written.
LEMMA AgreementStep ==
  ASSUME OneInstance, FlowInv, LoopInv, AgreementInv,
         NEW r \in Requests, Receive(r) \/ Proceed(r)
  PROVE  AgreementInv'
<1>1. TypeOK /\ RequestInv(r)
  BY DEF FlowInv
<1>2. Only(r) /\ (Receive(r) => UNCHANGED <<ledger, packs>> /\ req[r] = Unsent)
  BY <1>1, ReceiveSteps, ProceedSteps DEF stores
<1>3. ASSUME NEW u \in RunIds
      PROVE  ledger'[u]["gate:opened"] \in {NoRecord, RecordOf("gate:opened", NoPack)}
  <2>1. ledger[u]["gate:opened"] \in {NoRecord, RecordOf("gate:opened", NoPack)}
    BY DEF AgreementInv
  <2>2. CASE ledger' = ledger
    BY <2>1, <2>2
  <2>3. CASE WriteRecord(r)
    <3>1. "gate:opened" \in Events
      BY DEF Events, DiagnosisEvents
    <3> QED
      BY <1>1, <2>1, <2>3, <3>1, WriteRecordStores, GateOpenedIsConstant
  <2>4. CASE WritePack(r)
    BY <2>2, <2>4 DEF WritePack
  <2> QED
    BY <1>1, <1>2, <2>2, <2>3, <2>4, ProceedSteps
<1>4. ASSUME NEW u \in RunIds
      PROVE  Rewritten(u)' \/ Agrees(packs'[u], ledger'[u])
  <2>1. CASE Proceed(r)
    BY <2>1, RecordsStep
  <2>2. CASE Receive(r)
    <3>1. Rewritten(u) \/ Agrees(packs[u], ledger[u])
      BY DEF AgreementInv
    <3>2. req[r].pc \notin LoopSteps
      BY <1>2, <2>2, StepKinds DEF Unsent
    <3>3. Rewritten(u) => Rewritten(u)'
      BY <1>2, <3>2 DEF Rewritten, Only
    <3> QED
      BY <1>2, <2>2, <3>1, <3>3
  <2> QED
    BY <2>1, <2>2
<1>5. ASSUME NEW s \in Requests
      PROVE  SequenceInv(s)'
  <2>1. CASE s = r
    BY <1>1, <2>1, MoverSequence, SequenceStarts
  <2>2. CASE s # r
    <3>1. req'[s] = req[s] /\ SequenceInv(s)
      BY <1>2, <2>2 DEF Only, AgreementInv
    <3>2. CASE ledger' = ledger
      BY <3>1, <3>2 DEF SequenceInv
    <3>3. CASE WriteRecord(r) \/ WritePack(r)
      <4>1. req[r].pc \in LoopSteps
        BY <3>3, StepKinds DEF WriteRecord, WritePack
      <4>2. req[s].pc \notin LoopSteps
        BY <2>2, <4>1, Alone
      <4> QED
        BY <3>1, <4>2, StepKinds DEF SequenceInv
    <3> QED
      BY <1>1, <1>2, <3>2, <3>3, ProceedSteps
  <2> QED
    BY <2>1, <2>2
<1> QED
  BY <1>3, <1>4, <1>5 DEF AgreementInv

\* A step after which nothing has raised yet is no disturbance.
LEMMA UndisturbedStep ==
  ASSUME TypeOK, Next, disturbances' = 0
  PROVE  disturbances = 0 /\ \E r \in Requests : Receive(r) \/ Proceed(r)
<1>1. disturbances \in Nat
  BY FlowAssumption DEF TypeOK
<1>2. ~Disturb
  BY <1>1 DEF Disturb
<1>3. PICK r \in Requests : Receive(r) \/ Proceed(r)
  BY <1>2 DEF Next, CallRaises, Crash, ResetBaseline
<1>4. disturbances' = disturbances
  <2>1. CASE Receive(r)
    BY <2>1, ReceiveSteps
  <2>2. CASE Proceed(r)
    BY <2>2 DEF Proceed, DiagnosisReturns, AgentUnparsed, CreateIndex, VerifyReturns,
       VerifyHintMissing, Resume, WriteRecord, WritePack
  <2> QED
    BY <1>3, <2>1, <2>2
<1> QED
  BY <1>3, <1>4

-----------------------------------------------------------------------------
(* The records of an application.                                          *)

\* A record stands if neither it nor the pack it was made of changes.
LEMMA RecordStands ==
  ASSUME FlowInv, Next, NEW r \in Requests, NEW e, OnRecord(r, e),
         req'[r].run = req[r].run, req'[r].at = req[r].at, req'[r].pack = req[r].pack,
         ledger'[req[r].run][e] = ledger[req[r].run][e]
  PROVE  OnRecord(r, e)'
<1>1. CASE ledger[req[r].run][e] = RecordOf(e, req[r].pack)
  BY <1>1 DEF OnRecord
<1>2. ASSUME NEW s \in Requests, req[s].run = req[r].run, req[s].at # req[r].at,
             req[s].pack.decision # NoDecision,
             ledger[req[r].run][e] = RecordOf(e, req[s].pack)
      PROVE  OnRecord(r, e)'
  <2>1. req[s].pack.status \in Decided
    BY <1>2 DEF FlowInv, RequestInv, Coherent
  <2>2. req[s].pc # "unsent"
    <3>1. Unsent.pack.status \notin Decided
      BY DEF Unsent, NoPack, Decided
    <3> QED
      BY <2>1, <3>1 DEF FlowInv, UnsentInv
  <2>3. req'[s].run = req[s].run /\ req'[s].at = req[s].at /\ req'[s].pack = req[s].pack
    BY <2>1, <2>2, StepKeeps DEF FlowInv, Keeps
  <2> QED
    BY <1>2, <2>3 DEF OnRecord
<1> QED
  BY <1>1, <1>2 DEF OnRecord

\* The record a handler has just written is its own.
LEMMA RecordWritten ==
  ASSUME TypeOK, NEW r \in Requests, RequestInv(r), WriteRecord(r),
         NEW e, e = EventOf(req[r].pc)
  PROVE  OnRecord(r, e)'
<1>1. req[r].run \in RunIds /\ e \in Events
  BY RecordIsPresent DEF WriteRecord
<1>2. ledger'[req[r].run][e] = RecordOf(e, req[r].pack)
  BY <1>1, WriteRecordStores
<1>3. req'[r].run = req[r].run /\ req'[r].pack = req[r].pack
  BY DEF WriteRecord, Advance, TypeOK, Request
<1> QED
  BY <1>2, <1>3 DEF OnRecord

\* What the step after a write of an application rests on.
LEMMA ApplicationGrows ==
  ASSUME NEW pc \in LedgerSteps, NEW p, Carries(pc, p.status),
         p.status \in {"approved", "verified"}
  PROVE  LET next == StepAfter(pc, p) IN
         /\ pc \in ApplicationEvents /\ EventOf(pc) = pc
         /\ IF next \in PackSteps THEN ApplicationEvents \subseteq SoFar(pc) \cup {pc}
                                  ELSE SoFar(next) \subseteq SoFar(pc) \cup {pc}
<1>1. pc \in ApplicationEvents
  BY DEF Carries, LedgerSteps, Events, DiagnosisEvents, ApplicationEvents, RejectionEvents
<1>2. EventOf(pc) = pc
  BY <1>1 DEF EventOf, ApplicationEvents
<1>3. CASE pc = "approve:decision"
  BY <1>1, <1>2, <1>3, StepAfter(pc, p) = "approve:approval"
     DEF StepAfter, LastRecords, SoFar, PackSteps
<1>4. CASE pc = "approve:approval"
  BY <1>1, <1>2, <1>4, StepAfter(pc, p) = "approve:application"
     DEF StepAfter, LastRecords, SoFar, PackSteps
<1>5. CASE pc = "approve:application"
  BY <1>1, <1>2, <1>5, StepAfter(pc, p) = "verify:verification"
     DEF StepAfter, LastRecords, SoFar, PackSteps, ApplicationEvents
<1>6. CASE pc = "verify:verification"
  BY <1>1, <1>2, <1>6, StepAfter(pc, p) = "pack"
     DEF StepAfter, LastRecords, SoFar, PackSteps, ApplicationEvents
<1> QED
  BY <1>1, <1>3, <1>4, <1>5, <1>6 DEF ApplicationEvents

\* The events a handler has written at a step, as ApplicationRecordsInv counts them.
Recorded(pc) == IF pc \in PackSteps THEN ApplicationEvents ELSE SoFar(pc)

\* The handler that moves keeps its application on record.
LEMMA MoverRecords ==
  ASSUME FlowInv, Next, ApplicationRecordsInv, NEW r \in Requests, Proceed(r),
         req'[r].pc \in LoopSteps, req'[r].pack.status \in {"approved", "verified"},
         NEW e \in Recorded(req'[r].pc)
  PROVE  OnRecord(r, e)'
<1>1. TypeOK /\ RequestInv(r)
  BY DEF FlowInv
<1>2. CASE Resume(r)
  <2>1. req'[r].pc = ResumeAt(req[r].pc) /\ req[r].pc \in ReadySteps
          /\ req'[r].pack = req[r].pack
    BY <1>1, <1>2 DEF Resume, TypeOK, Request
  <2>2. Carries(req[r].pc, req[r].pack.status)
    BY <1>1, <2>1 DEF RequestInv
  <2>3. req'[r].pc = "approve:decision"
    BY <2>1, <2>2 DEF Carries, ReadySteps, ResumeAt
  <2> QED
    BY <2>3 DEF Recorded, SoFar, PackSteps
<1>3. CASE WriteRecord(r)
  <2> DEFINE pc == req[r].pc
             p == req[r].pack
  <2>1. /\ pc \in LedgerSteps /\ req'[r].pc = StepAfter(pc, p) /\ req'[r].pack = p
        /\ req'[r].run = req[r].run /\ req'[r].at = req[r].at
    BY <1>1, <1>3 DEF WriteRecord, Advance, TypeOK, Request
  <2>2. Carries(pc, p.status) /\ req[r].run \in RunIds /\ pc \in LoopSteps
    BY <1>1, <2>1, RecordIsPresent, StepKinds DEF RequestInv
  <2>3. pc \in ApplicationEvents /\ EventOf(pc) = pc /\ e \in SoFar(pc) \cup {pc}
    <3>1. p.status \in {"approved", "verified"} /\ e \in Recorded(StepAfter(pc, p))
      BY <2>1
    <3>2. /\ pc \in ApplicationEvents /\ EventOf(pc) = pc
          /\ Recorded(StepAfter(pc, p)) \subseteq SoFar(pc) \cup {pc}
      <4> HIDE DEF pc, p
      <4> QED
        BY <2>1, <2>2, <3>1, ApplicationGrows DEF Recorded
    <3> QED
      BY <3>1, <3>2
  <2>4. CASE e = pc
    BY <1>1, <1>3, <2>3, <2>4, RecordWritten
  <2>5. CASE e # pc
    <3>1. OnRecord(r, e)
      BY <2>1, <2>2, <2>3, <2>5, StepKinds DEF ApplicationRecordsInv
    <3>2. e \in Events
      BY <2>3, <2>5, SoFarIsWritable
    <3>3. ledger'[req[r].run][e] = ledger[req[r].run][e]
      BY <1>1, <1>3, <2>2, <2>3, <2>5, <3>2, WriteRecordStores
    <3> QED
      BY <2>1, <3>1, <3>3, RecordStands
  <2> QED
    BY <2>4, <2>5
<1>4. CASE WritePack(r)
  <2>1. /\ ledger' = ledger /\ req[r].pc \in PackSteps /\ req'[r].pack = req[r].pack
        /\ req'[r].run = req[r].run /\ req'[r].at = req[r].at
    BY <1>1, <1>4 DEF WritePack, Advance, TypeOK, Request
  <2>2. req'[r].pc \in PackSteps
    BY <1>1, <1>4, WritePackStores, StepKinds DEF PackSteps, Terminal
  <2>3. OnRecord(r, e)
    BY <2>1, <2>2, StepKinds DEF ApplicationRecordsInv, Recorded
  <2> QED
    BY <2>1, <2>3, RecordStands
<1> QED
  BY <1>1, <1>2, <1>3, <1>4, ProceedSteps

\* A handler keeps its application on record when a request of another instance,
\* or of its own that has not the loop, goes on.
LEMMA OtherRecords ==
  ASSUME FlowInv, Next, LoopInv, ApplicationRecordsInv, NEW r \in Requests, Proceed(r),
         NEW s \in Requests, s # r, req[s].pc \in LoopSteps,
         req[s].pack.status \in {"approved", "verified"}, NEW e \in Recorded(req[s].pc)
  PROVE  OnRecord(s, e)'
<1>1. TypeOK /\ RequestInv(r) /\ RequestInv(s) /\ Only(r) /\ req'[s] = req[s]
  BY ProceedSteps DEF FlowInv, Only
<1>2. OnRecord(s, e) /\ req[s].run \in RunIds
  BY <1>1, StepKinds DEF ApplicationRecordsInv, Recorded, RequestInv
<1>3. CASE ledger'[req[s].run][e] = ledger[req[s].run][e]
  BY <1>1, <1>2, <1>3, RecordStands
<1>4. CASE WriteRecord(r) /\ ledger'[req[s].run][e] # ledger[req[s].run][e]
  <2>1. req[r].pc \in LedgerSteps /\ req[r].pc \in LoopSteps
          /\ req'[r].run = req[r].run /\ req'[r].at = req[r].at /\ req'[r].pack = req[r].pack
    BY <1>1, <1>4, StepKinds DEF WriteRecord, Advance, TypeOK, Request
  <2>2. req[s].at \in Instances /\ req[r].at \in Instances
    BY <1>1, <2>1, StepKinds DEF RequestInv
  <2>3. req[r].at # req[s].at
    BY <2>1, <2>2 DEF LoopInv
  <2>4. e \in ApplicationEvents /\ e \in Events
    <3>1. Carries(req[s].pc, req[s].pack.status)
      BY <1>1 DEF RequestInv
    <3>2. req[s].pc \in PackSteps \/ req[s].pc \in ApplicationEvents
      BY <3>1, StepKinds, ApplicationGrows
    <3> QED
      BY <3>2 DEF Recorded, SoFar, ApplicationEvents, Events
  <2>5. /\ req[s].run = req[r].run /\ e = EventOf(req[r].pc)
        /\ ledger'[req[s].run][e] = RecordOf(e, req[r].pack)
    BY <1>1, <1>2, <1>4, <2>4, WriteRecordStores
  <2>6. req[r].pack.decision # NoDecision
    <3>1. Carries(req[r].pc, req[r].pack.status) /\ Coherent(req[r].pack)
      BY <1>1, <2>1 DEF RequestInv
    <3>2. req[r].pc \in ApplicationEvents
      BY <2>1, <2>4, <2>5 DEF EventOf, ApplicationEvents
    <3> QED
      BY <3>1, <3>2 DEF Carries, Coherent, ApplicationEvents, Decided
  <2> QED
    BY <1>1, <2>1, <2>3, <2>5, <2>6 DEF OnRecord
<1>5. CASE ledger' = ledger
  BY <1>3, <1>5
<1>6. WritePack(r) => ledger' = ledger
  BY DEF WritePack
<1> QED
  BY <1>1, <1>3, <1>4, <1>5, <1>6, ProceedSteps

\* Every step leaves the application records of the handlers as they stand.
LEMMA ApplicationRecordsStep ==
  ASSUME FlowInv, Next, LoopInv, ApplicationRecordsInv
  PROVE  ApplicationRecordsInv'
<1>1. SUFFICES ASSUME NEW s \in Requests, req'[s].pc \in LoopSteps,
                      req'[s].pack.status \in {"approved", "verified"},
                      NEW e \in Recorded(req'[s].pc)
               PROVE  OnRecord(s, e)'
  BY DEF ApplicationRecordsInv, Recorded
<1>2. TypeOK /\ StoreInv /\ \A r \in Requests : RequestInv(r)
  BY DEF FlowInv
<1>3. ASSUME req'[s] = req[s], ledger' = ledger
      PROVE  OnRecord(s, e)'
  <2>1. OnRecord(s, e)
    BY <1>1, <1>3 DEF ApplicationRecordsInv, Recorded
  <2> QED
    BY <1>3, <2>1, RecordStands
<1>4. ASSUME NEW r \in Requests, Receive(r)
      PROVE  OnRecord(s, e)'
  <2>1. Only(r) /\ ledger' = ledger
    BY <1>2, <1>4, ReceiveSteps DEF stores
  <2>2. s # r
    <3>1. s = r => DecisionInv(s)' /\ RequestInv(s)'
      BY <1>2, <1>4, ReceiveRequest DEF RequestInv
    <3>2. s = r => req'[s].pc \in {"gate:opened", "refused", "apply", "approve:decision"}
      BY <1>2, <1>4, ReceivedAt
    <3>3. s = r => req'[s].pc = "approve:decision"
      BY <1>1, <3>1, <3>2, StepKinds DEF RequestInv, Carries, Terminal, AwaitSteps
    <3> QED
      BY <1>1, <3>3 DEF Recorded, SoFar, PackSteps
  <2> QED
    BY <1>3, <2>1, <2>2 DEF Only
<1>5. ASSUME NEW r \in Requests, Proceed(r)
      PROVE  OnRecord(s, e)'
  <2>1. CASE s = r
    BY <1>1, <1>5, <2>1, MoverRecords
  <2>2. CASE s # r
    <3>1. req'[s] = req[s]
      BY <1>2, <1>5, <2>2, ProceedSteps DEF Only
    <3> QED
      BY <1>1, <1>5, <2>2, <3>1, OtherRecords
  <2> QED
    BY <2>1, <2>2
<1>6. ASSUME \/ \E r \in Requests : CallRaises(r)
             \/ \E i \in Instances : Crash(i)
             \/ ResetBaseline
      PROVE  req'[s] = req[s] /\ ledger' = ledger
  <2>1. ASSUME NEW r \in Requests, CallRaises(r)
        PROVE  req'[s] = req[s] /\ ledger' = ledger
    <3>1. s = r => req'[s].pc = "failed"
      BY <1>2, <2>1 DEF CallRaises, TypeOK, Request
    <3>2. s # r
      BY <1>1, <3>1, StepKinds DEF Terminal
    <3> QED
      BY <1>2, <2>1, <3>2 DEF CallRaises, stores, TypeOK
  <2>2. ASSUME NEW i \in Instances, Crash(i)
        PROVE  req'[s] = req[s] /\ ledger' = ledger
    <3>1. req'[s] \in {req[s], [req[s] EXCEPT !.pc = "lost"]} /\ ledger' = ledger
      BY <2>2 DEF Crash, stores
    <3>2. [req[s] EXCEPT !.pc = "lost"].pc = "lost"
      BY <1>2 DEF TypeOK, Request
    <3> QED
      BY <1>1, <3>1, <3>2, StepKinds DEF Terminal
  <2> QED
    BY <1>6, <2>1, <2>2 DEF ResetBaseline
<1> QED
  BY <1>3, <1>4, <1>5, <1>6 DEF Next

\* The moment a request that created an index is answered, its application is on
\* record: for any number of instances, requests and faults (apply_and_verify,
\* write_application_records, MongoLedgerStore.upsert).
THEOREM ReportsAreAudited == Spec => ReportedIsAudited
<1> DEFINE Inv == FlowInv /\ LoopInv /\ ApplicationRecordsInv
<1>1. Init => Inv
  BY FlowInit, FlowAssumption, StepKinds
     DEF Init, LoopInv, ApplicationRecordsInv, Unsent
<1>2. Inv /\ [Next]_vars => Inv'
  <2>1. ASSUME Inv, Next
        PROVE  Inv'
    BY <2>1, FlowStep, LoopStep, ApplicationRecordsStep DEF FlowInv
  <2>2. ASSUME Inv, UNCHANGED vars
        PROVE  Inv'
    BY <2>2, FlowStep DEF LoopInv, ApplicationRecordsInv, OnRecord, vars
  <2> QED
    BY <2>1, <2>2
<1>3. Inv /\ [Next]_vars =>
        [\A m \in applied :
           req[m.by].pc # "answered" /\ req'[m.by].pc = "answered"
             => \A e \in ApplicationEvents : OnRecord(m.by, e)']_vars
  <2>1. SUFFICES ASSUME Inv, Next, NEW m \in applied, NEW e \in ApplicationEvents,
                        req[m.by].pc # "answered", req'[m.by].pc = "answered"
                 PROVE  OnRecord(m.by, e)'
    BY DEF vars
  <2> DEFINE r == m.by
  <2>2. TypeOK /\ RequestInv(r) /\ r \in Requests /\ Mutated(req[r])
    BY <2>1 DEF FlowInv, TypeOK, Application, Requests, AppliedInv
  <2>3. WritePack(r) /\ req[r].pc \in PackSteps /\ Proceed(r)
    BY <2>1, <2>2, AnsweredBy DEF FlowInv
  <2>4. req[r].pack.status \in {"approved", "verified"}
    BY <2>2, <2>3 DEF Mutated, PackSteps
  <2>5. OnRecord(r, e)
    BY <2>1, <2>2, <2>3, <2>4, StepKinds DEF ApplicationRecordsInv
  <2>6. /\ ledger' = ledger /\ req'[r].run = req[r].run /\ req'[r].at = req[r].at
        /\ req'[r].pack = req[r].pack
    BY <2>2, <2>3 DEF WritePack, Advance, TypeOK, Request
  <2> QED
    BY <2>1, <2>2, <2>5, <2>6, RecordStands
<1> QED
  BY <1>1, <1>2, <1>3, PTL DEF Spec, ReportedIsAudited

-----------------------------------------------------------------------------
(* The invariant of one instance, and what follows from it.                *)

LEMMA SoloInit ==
  ASSUME Init
  PROVE  SoloInv
<1>1. FlowInv
  BY FlowInit
<1>2. LoopInv
  BY FlowAssumption, StepKinds DEF Init, LoopInv, Unsent
<1>3. \A r \in Requests : req[r].pc \notin LoopSteps
  BY StepKinds DEF Init, Unsent
<1>4. RejectionInv
  BY <1>3 DEF RejectionInv
<1>5. AgreementInv
  <2>1. \A u \in RunIds : Agrees(packs[u], ledger[u])
    BY DEF Init, Agrees, NoPack
  <2>2. \A r \in Requests : SequenceInv(r)
    BY <1>3, StepKinds DEF SequenceInv
  <2>3. \A u \in RunIds : ledger[u]["gate:opened"] = NoRecord
    BY DEF Init, Events, DiagnosisEvents
  <2> QED
    BY <2>1, <2>2, <2>3 DEF AgreementInv
<1> QED
  BY <1>1, <1>2, <1>4, <1>5 DEF SoloInv

\* SoloInv is inductive where there is one instance.
THEOREM SoloInvariant == ASSUME OneInstance PROVE Spec => []SoloInv
<1>1. Init => SoloInv
  BY SoloInit
<1>2. SoloInv /\ [Next]_vars => SoloInv'
  <2>1. ASSUME SoloInv, Next
        PROVE  SoloInv'
    <3>1. FlowInv /\ LoopInv /\ RejectionInv /\ TypeOK
      BY <2>1 DEF SoloInv, FlowInv
    <3>2. FlowInv' /\ LoopInv' /\ RejectionInv'
      BY <2>1, <3>1, FlowStep, LoopStep, RejectionStep
    <3>3. ASSUME disturbances' = 0
          PROVE  AgreementInv'
      BY <2>1, <3>1, <3>3, UndisturbedStep, AgreementStep DEF SoloInv
    <3> QED
      BY <3>2, <3>3 DEF SoloInv
  <2>2. ASSUME SoloInv, UNCHANGED vars
        PROVE  SoloInv'
    <3>1. FlowInv' /\ LoopInv' /\ RejectionInv'
      BY <2>2, FlowStep DEF SoloInv, LoopInv, RejectionInv, vars
    <3>2. AgreementInv => AgreementInv'
      BY <2>2 DEF AgreementInv, SequenceInv, Rewritten, vars
    <3> QED
      BY <2>2, <3>1, <3>2 DEF SoloInv, vars
  <2> QED
    BY <2>1, <2>2
<1> QED
  BY <1>1, <1>2, PTL DEF Spec

\* With one instance, and as long as nothing has raised, crashed or been reset,
\* the ledger agrees with every pack whenever no handler is between two calls,
\* for any number of diagnoses and decisions of any number of runs.
THEOREM UndisturbedAuditAgrees ==
  ASSUME OneInstance
  PROVE  Spec => [](disturbances = 0 => AuditAgrees)
<1>1. SoloInv => (disturbances = 0 => AuditAgrees)
  <2>1. SUFFICES ASSUME SoloInv, disturbances = 0, \A i \in Instances : loop[i] = None,
                        NEW u \in RunIds
                 PROVE  Agrees(packs[u], ledger[u])
    BY DEF AuditAgrees
  <2>2. ASSUME NEW r \in Requests
        PROVE  req[r].pc \notin LoopSteps
    <3>1. SUFFICES ASSUME req[r].pc \in LoopSteps PROVE FALSE
      OBVIOUS
    <3>2. req[r].at \in Instances
      BY <2>1, <3>1, StepKinds DEF SoloInv, FlowInv, RequestInv
    <3> QED
      BY <2>1, <3>1, <3>2, FlowAssumption DEF SoloInv, LoopInv
  <2>3. ~Rewritten(u)
    BY <2>2 DEF Rewritten
  <2> QED
    BY <2>1, <2>3 DEF SoloInv, AgreementInv
<1> QED
  BY <1>1, SoloInvariant, PTL

\* One instance on which nothing can raise: the audit agrees, always.
THEOREM HealthyAuditAgrees ==
  ASSUME OneInstance, MaxDisturbances = 0
  PROVE  Spec => []AuditAgrees
<1>1. TypeOK /\ (disturbances = 0 => AuditAgrees) => AuditAgrees
  BY DEF TypeOK
<1> QED
  BY <1>1, UndisturbedAuditAgrees, TypeCorrect, PTL

\* With one instance, a rejection is recorded on the pack that was pending until
\* then, whatever else is in flight, raises or crashes (reject_pack).
LEMMA RejectionIsCurrent ==
  ASSUME SoloInv, [Next]_vars, NEW u \in RunIds,
         packs'[u] # packs[u], packs'[u].status = "rejected"
  PROVE  /\ packs[u].status = "diagnosed"
         /\ packs'[u] = RejectedPack(packs[u], packs'[u].gate.approver)
<1>1. TypeOK /\ RejectionInv /\ \A r \in Requests : RequestInv(r)
  BY DEF SoloInv, FlowInv
<1>2. PICK r \in Requests : WritePack(r)
  BY <1>1, StoreWriters DEF vars
<1>3. /\ u = req[r].run /\ packs'[u] = req[r].pack
      /\ req[r].pc \in PackSteps
  BY <1>1, <1>2, WritePackStores
<1>4. IF req[r].pc = "save"
      THEN packs[u] = req[r].pack
      ELSE /\ packs[u].status = "diagnosed"
           /\ req[r].pack = RejectedPack(packs[u], req[r].approver)
  BY <1>1, <1>3, StepKinds DEF RejectionInv
<1>5. packs[u].status = "diagnosed" /\ req[r].pack = RejectedPack(packs[u], req[r].approver)
  BY <1>3, <1>4
<1>6. packs[u] \in Pack
  BY <1>1, <1>5, PresentPack DEF TypeOK
<1>7. req[r].pack.gate.approver = req[r].approver
  BY <1>5, <1>6 DEF RejectedPack, Pack
<1> QED
  BY <1>3, <1>5, <1>7

THEOREM RejectionsDecideWhatTheyRead ==
  ASSUME OneInstance
  PROVE  Spec => RejectionsAreCurrent
<1>1. SoloInv /\ [Next]_vars =>
        [\A u \in RunIds :
           packs'[u] # packs[u] /\ packs'[u].status = "rejected" =>
             /\ packs[u].status = "diagnosed"
             /\ packs'[u] = RejectedPack(packs[u], packs'[u].gate.approver)]_vars
  BY RejectionIsCurrent
<1> QED
  BY <1>1, SoloInvariant, PTL DEF Spec, RejectionsAreCurrent

\* With one instance, a rejection never replaces a pack whose index was applied,
\* whatever raises, crashes or is reset (reject_pack).
THEOREM RejectionHidesNothing ==
  ASSUME OneInstance
  PROVE  Spec => RejectionNeverHidesApplication
<1>1. SoloInv /\ [Next]_vars =>
        [\A u \in RunIds : packs[u].status \in {"approved", "verified"}
                             => packs'[u].status # "rejected"]_vars
  <2>1. ASSUME SoloInv, [Next]_vars, NEW u \in RunIds,
               packs[u].status \in {"approved", "verified"}, packs'[u].status = "rejected"
        PROVE  FALSE
    <3>1. packs'[u] # packs[u]
      BY <2>1
    <3> QED
      BY <2>1, <3>1, RejectionIsCurrent
  <2> QED
    BY <2>1
<1> QED
  BY <1>1, SoloInvariant, PTL DEF Spec, RejectionNeverHidesApplication
=============================================================================
