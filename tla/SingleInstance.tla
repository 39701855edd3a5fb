--------------------------- MODULE SingleInstance ---------------------------
(***************************************************************************)
(* ApprovalFlow with one instance of the API: the invariants of its event  *)
(* loop, which is what keeps the ledger in agreement with the packs and a  *)
(* rejection from replacing an application.                                *)
(***************************************************************************)
EXTENDS ApprovalFlowInvariant

OneInstance == \A i, j \in Instances : i = j

\* The loop is held by exactly the handler that is between two driver calls, and
\* nobody leaves it taken (for any number of instances).
LoopInv ==
  \A r \in Requests, i \in Instances :
    loop[i] = r <=> req[r].at = i /\ req[r].pc \in LoopSteps

\* A handler that rejects works on the pack the store still shows, up to its save.
RejectionInv ==
  \A r \in Requests :
    LET q == req[r] IN
    q.pc \in LoopSteps /\ q.pack.status = "rejected" =>
      IF q.pc = "save"
      THEN packs[q.run] = q.pack
      ELSE /\ packs[q.run].status = "diagnosed"
           /\ q.pack = RejectedPack(packs[q.run], q.approver)

\* What a handler that reached a step has written of its sequence of records.
SoFar(pc) ==
  CASE pc = "diagnose:slow_query" -> {"gate:opened"}
    [] pc = "diagnose:candidate"  -> {"gate:opened", "diagnose:slow_query"}
    [] pc = "diagnose:before"     -> {"gate:opened", "diagnose:slow_query",
                                      "diagnose:candidate"}
    [] pc = "gate:pending"        -> DiagnosisEvents \ {"gate:pending"}
    [] pc \in {"approve:approval", "approve:rejection"} -> {"approve:decision"}
    [] pc = "approve:application" -> {"approve:decision", "approve:approval"}
    [] pc = "verify:verification" -> ApplicationEvents \ {"verify:verification"}
    [] OTHER -> {}

\* The sequence of a handler is its own: nobody wrote in between.
SequenceInv(r) ==
  LET q == req[r] IN
  /\ q.pc \in LedgerSteps =>
       \A e \in SoFar(q.pc) : ledger[q.run][e] = RecordOf(e, q.pack)
  /\ q.pc \in PackSteps => Agrees(q.pack, ledger[q.run])

\* What a handler has written of an application stands, up to what the handlers of
\* other instances wrote (for any number of instances).
ApplicationRecordsInv ==
  \A r \in Requests :
    LET q == req[r] IN
    q.pc \in LoopSteps /\ q.pack.status \in {"approved", "verified"} =>
      \A e \in IF q.pc \in PackSteps THEN ApplicationEvents ELSE SoFar(q.pc) : OnRecord(r, e)

\* Some handler has begun to replace the records of the run.
Rewritten(u) ==
  \E r \in Requests :
    req[r].run = u /\ req[r].pc \in LoopSteps \ {"gate:opened", "reopen"}

AgreementInv ==
  /\ \A u \in RunIds :
       ledger[u]["gate:opened"] \in {NoRecord, RecordOf("gate:opened", NoPack)}
  /\ \A u \in RunIds : Rewritten(u) \/ Agrees(packs[u], ledger[u])
  /\ \A r \in Requests : SequenceInv(r)

\* The invariant of one instance: the loop, the rejections, and, as long as
\* nothing raised, the records (write_diagnosis_records, write_application_records,
\* write_rejection_records, reject_pack).
SoloInv ==
  /\ FlowInv
  /\ LoopInv
  /\ RejectionInv
  /\ disturbances = 0 => AgreementInv

\* A rejection is recorded on the very pack that was pending until then.
RejectionsAreCurrent ==
  [][\A u \in RunIds :
       packs'[u] # packs[u] /\ packs'[u].status = "rejected" =>
         /\ packs[u].status = "diagnosed"
         /\ packs'[u] = RejectedPack(packs[u], packs'[u].gate.approver)]_vars
=============================================================================
