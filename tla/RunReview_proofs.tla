-------------------------- MODULE RunReview_proofs --------------------------
(***************************************************************************)
(* The safety properties of RunReview, for any submissions and loads of    *)
(* the page, however often the run is diagnosed and decided behind it.     *)
(***************************************************************************)
EXTENDS ReviewInvariant, EvidencePack_proofs

USE ReviewAssumption, NoneIsFresh

-----------------------------------------------------------------------------
(* Packs.                                                                  *)

LEMMA NoPackIsNone == NoPack \notin Pack
<1>1. \A p \in Pack : p.hash # None
  BY DEF Pack
<1>2. NoPack.hash = None
  BY DEF NoPack
<1> QED
  BY <1>1, <1>2

LEMMA DiagnosedIsFine ==
  ASSUME NEW h \in Proposals
  PROVE  DiagnosedPack(h) \in Pack /\ Valid(DiagnosedPack(h)) /\ Reviewable(DiagnosedPack(h))
BY DEF DiagnosedPack, Pack, PackStatus, AfterEvidence, Gate, GateState, Valid, Reviewable,
   HashBindsProposal, DecisionBindsPack, StatusMatchesDecision, GateMatchesStatus

LEMMA LegacyIsFine ==
  ASSUME NEW h \in Proposals
  PROVE  LegacyPack(h) \in Pack /\ Valid(LegacyPack(h))
BY DEF LegacyPack, DiagnosedPack, Pack, PackStatus, AfterEvidence, Gate, GateState, Valid,
   HashBindsProposal, DecisionBindsPack, StatusMatchesDecision, GateMatchesStatus

LEMMA ExampleIsFine ==
  ExamplePack \in Pack /\ Valid(ExamplePack) /\ Reviewable(ExamplePack)
BY DiagnosedIsFine DEF ExamplePack

\* A decision that the endpoint accepts yields a valid pack.
LEMMA DecidedIsFine ==
  ASSUME NEW p \in Pack, Valid(p), NEW h, DecisionAnswer(p, h) = "accepted",
         NEW a \in Approvers, NEW verdict \in {"passed", "failed"}
  PROVE  /\ AppliedPack(p, h, a, verdict) \in Pack /\ Valid(AppliedPack(p, h, a, verdict))
         /\ RejectedPack(p, a) \in Pack /\ Valid(RejectedPack(p, a))
<1>1. h = p.hash /\ p.status = "diagnosed" /\ h \in Proposals
  BY DEF DecisionAnswer, AlreadyDecided, Pack
<1> QED
  BY <1>1, BuildersAreValid

\* What the panel submits for a valid pack is its hash, and a pack whose
\* buttons are enabled is undecided.
LEMMA ButtonsAreRight ==
  ASSUME NEW p \in Pack, Valid(p), p.status = "diagnosed",
         p.gate = NoGate \/ p.gate.state = "pending_approval"
  PROVE  HashOf(p) = p.hash /\ Reviewable(p)
BY DEF HashOf, Reviewable, Valid, GateMatchesStatus, StatusMatchesDecision

-----------------------------------------------------------------------------
(* What a step leaves alone.                                               *)

LEMMA DecideFrame ==
  ASSUME NEW d \in Submissions, Decide(d)
  PROVE  UNCHANGED <<load, config, cache, retrieved>>
BY DEF Decide, Click, DecisionRefused, Rejected, Applying, Applied, DecisionFails, AnswerLost,
   Deliver, Drop, GiveUp, Store

LEMMA VisitFrame ==
  ASSUME NEW l \in Loads, Visit(l)
  PROVE  UNCHANGED <<stored, seen, sub, config>>
BY DEF Visit, LoadPack, LoadFallback, LookupReads, LookupRefused, Lookup, LookupWithout,
   LookupVoyage, Render

LEMMA SeenGrows ==
  ASSUME [Next]_vars
  PROVE  seen \subseteq seen'
<1>1. ASSUME NEW d \in Submissions, Decide(d)
      PROVE  seen \subseteq seen'
  BY <1>1 DEF Decide, Click, DecisionRefused, Rejected, Applying, Applied, DecisionFails,
     AnswerLost, Deliver, Drop, GiveUp, Store
<1>2. ASSUME NEW l \in Loads, Visit(l)
      PROVE  seen \subseteq seen'
  BY <1>2, VisitFrame
<1> QED
  BY <1>1, <1>2 DEF Next, vars, Rediagnose, OtherDecides, Store, Restart

-----------------------------------------------------------------------------
(* Types.                                                                  *)

LEMMA BlankIsAPage ==
  /\ Unsent \in Submission
  /\ Blank \in Page
  /\ Idle \in Load
  /\ Closed \in Load
BY DEF Unsent, Submission, Blank, Page, Errors, Idle, Closed, Load

LEMMA TypeInit == Init => TypeOK
<1> SUFFICES ASSUME Init
             PROVE  TypeOK
  OBVIOUS
<1>1. stored \in Pack \cup {NoPack} /\ seen \subseteq Pack
  BY LegacyIsFine DEF Init
<1> QED
  BY <1>1, BlankIsAPage DEF Init, TypeOK

\* The packs of a step keep their type.
LEMMA TypePacks ==
  ASSUME TypeOK, PacksInv, SubmissionInv, [Next]_vars
  PROVE  /\ stored' \in Pack \cup {NoPack}
         /\ seen' \subseteq Pack
         /\ PacksInv'
<1> DEFINE Goal == stored' \in Pack \cup {NoPack} /\ seen' \subseteq Pack /\ PacksInv'
<1>1. ASSUME NEW p \in Pack, Valid(p), Store(p),
             p.status = "diagnosed" => p \in {DiagnosedPack(p.hash), LegacyPack(p.hash)}
      PROVE  Goal
  BY <1>1, NoPackIsNone DEF Store, TypeOK, PacksInv
<1>2. ASSUME UNCHANGED <<stored, seen>>
      PROVE  Goal
  BY <1>2 DEF TypeOK, PacksInv
<1>3. ASSUME NEW p \in seen, NEW h, DecisionAnswer(p, h) = "accepted", NEW a \in Approvers,
             NEW verdict \in {"passed", "failed"},
             Store(RejectedPack(p, a)) \/ Store(AppliedPack(p, h, a, verdict))
      PROVE  Goal
  <2>1. p \in Pack /\ Valid(p)
    BY DEF TypeOK, PacksInv
  <2>2. RejectedPack(p, a).status # "diagnosed" /\ AppliedPack(p, h, a, verdict).status # "diagnosed"
    BY <2>1 DEF RejectedPack, AppliedPack, Pack
  <2> QED
    BY <1>1, <1>3, <2>1, <2>2, DecidedIsFine
<1>4. ASSUME NEW h \in Proposals, Rediagnose(h)
      PROVE  Goal
  <2>1. DiagnosedPack(h).hash = h
    BY DEF DiagnosedPack
  <2> QED
    BY <1>1, <1>4, <2>1, DiagnosedIsFine DEF Rediagnose
<1>5. ASSUME NEW read \in seen, NEW a \in Approvers \ {Operator},
             NEW verdict \in {"passed", "failed"}, OtherDecides(read, a, verdict)
      PROVE  Goal
  BY <1>3, <1>5 DEF OtherDecides
<1>6. ASSUME NEW d \in Submissions, Decide(d)
      PROVE  Goal
  <2>1. CASE Rejected(d)
    <3>1. FoundFor(d) = stored /\ stored # NoPack
      BY <2>1 DEF Rejected, FoundFor, DecisionAnswer
    <3>2. stored \in seen /\ DecisionAnswer(stored, sub[d].hash) = "accepted"
      BY <2>1, <3>1 DEF Rejected, PacksInv
    <3>3. Store(RejectedPack(stored, Operator))
      BY <2>1 DEF Rejected
    <3> QED
      BY <1>3, <3>2, <3>3, "passed" \in {"passed", "failed"}
  <2>2. ASSUME NEW verdict \in {"passed", "failed"}, Applied(d, verdict)
        PROVE  Goal
    <3>1. Accepted(sub[d])
      BY <2>2 DEF Applied, SubmissionInv
    <3>2. Store(AppliedPack(sub[d].found, sub[d].hash, Operator, verdict))
      BY <2>2 DEF Applied
    <3> QED
      BY <1>3, <3>1, <3>2 DEF Accepted
  <2> QED
    BY <1>2, <1>6, <2>1, <2>2
       DEF Decide, Click, DecisionRefused, Applying, DecisionFails, AnswerLost, Deliver, Drop,
           GiveUp
<1>7. ASSUME NEW l \in Loads, Visit(l)
      PROVE  Goal
  BY <1>2, <1>7, VisitFrame
<1>8. CASE Restart
  BY <1>2, <1>8 DEF Restart
<1>9. CASE UNCHANGED vars
  BY <1>2, <1>9 DEF vars
<1> QED
  BY <1>4, <1>5, <1>6, <1>7, <1>8, <1>9 DEF Next

\* A submission keeps its type: what the endpoint answers, and what it found.
LEMMA TypeDecide ==
  ASSUME TypeOK, PacksInv, SubmissionInv, NEW d \in Submissions, Decide(d)
  PROVE  sub' \in [Submissions -> Submission] /\ page' \in Page
<1> DEFINE Goal == sub' \in [Submissions -> Submission] /\ page' \in Page
<1>1. /\ sub \in [Submissions -> Submission] /\ sub[d] \in Submission
      /\ page \in Page /\ stored \in Pack \cup {NoPack} /\ FoundFor(d) \in Pack \cup {NoPack}
  BY DEF TypeOK, FoundFor
<1>2. ASSUME NEW s \in Submission, sub' = [sub EXCEPT ![d] = s]
      PROVE  sub' \in [Submissions -> Submission]
  BY <1>1, <1>2
<1>3. ASSUME NEW kind \in {"approve", "reject"}, Click(d, kind)
      PROVE  Goal
  <2> DEFINE s == [Unsent EXCEPT !.pc = "sent", !.kind = kind, !.source = page.source,
                                 !.shown = page.shown, !.hash = HashOf(page.shown)]
  <2>1. page.source \in {"live", "fallback"} /\ page.shown \in Pack \cup {NoPack}
    BY <1>1, <1>3 DEF Click, CanDecide, Page
  <2>2. HashOf(page.shown) \in Proposals \cup {None}
    BY <2>1 DEF HashOf, Pack, Gate, NoPack
  <2>3. s \in Submission
    BY <2>1, <2>2 DEF Unsent, Submission
  <2>4. sub' = [sub EXCEPT ![d] = s]
    BY <1>3 DEF Click
  <2>5. page' \in Page
    BY <1>1, <1>3, BlankIsAPage DEF Click, Page, Errors
  <2> QED
    BY <1>2, <2>3, <2>4, <2>5
<1>4. CASE DecisionRefused(d)
  <2> DEFINE s == [sub[d] EXCEPT !.pc = "answered", !.found = FoundFor(d),
                                 !.answer = DecisionAnswer(FoundFor(d), sub[d].hash)]
  <2>1. s \in Submission
    BY <1>1 DEF DecisionAnswer, Submission
  <2>2. sub' = [sub EXCEPT ![d] = s] /\ page' = page
    BY <1>1, <1>4 DEF DecisionRefused
  <2> QED
    BY <1>1, <1>2, <2>1, <2>2
<1>5. CASE Rejected(d)
  <2> DEFINE result == RejectedPack(stored, Operator)
             s == [sub[d] EXCEPT !.pc = "answered", !.found = stored, !.answer = "accepted",
                                 !.result = result]
  <2>1. FoundFor(d) = stored /\ stored # NoPack
    BY <1>5 DEF Rejected, FoundFor, DecisionAnswer
  <2>2. result \in Pack
    BY <1>5, <2>1, DecidedIsFine DEF Rejected, TypeOK, PacksInv
  <2>3. s \in Submission
    BY <1>1, <2>2 DEF Submission
  <2>4. sub' = [sub EXCEPT ![d] = s] /\ page' = page
    BY <1>1, <1>5 DEF Rejected
  <2> QED
    BY <1>1, <1>2, <2>3, <2>4
<1>6. CASE Applying(d)
  <2> DEFINE s == [sub[d] EXCEPT !.pc = "applying", !.found = stored]
  <2>1. s \in Submission
    BY <1>1 DEF Submission
  <2>2. sub' = [sub EXCEPT ![d] = s] /\ page' = page
    BY <1>1, <1>6 DEF Applying
  <2> QED
    BY <1>1, <1>2, <2>1, <2>2
<1>7. ASSUME NEW verdict \in {"passed", "failed"}, Applied(d, verdict)
      PROVE  Goal
  <2> DEFINE result == AppliedPack(sub[d].found, sub[d].hash, Operator, verdict)
             s == [sub[d] EXCEPT !.pc = "answered", !.answer = "accepted", !.result = result]
  <2>1. Accepted(sub[d])
    BY <1>7 DEF Applied, SubmissionInv
  <2>2. result \in Pack
    BY <2>1, DecidedIsFine DEF Accepted, TypeOK, PacksInv
  <2>3. s \in Submission
    BY <1>1, <2>2 DEF Submission
  <2>4. sub' = [sub EXCEPT ![d] = s] /\ page' = page
    BY <1>1, <1>7 DEF Applied
  <2> QED
    BY <1>1, <1>2, <2>3, <2>4
<1>8. CASE DecisionFails(d) \/ AnswerLost(d)
  <2>1. /\ [sub[d] EXCEPT !.pc = "answered", !.answer = "error"] \in Submission
        /\ [sub[d] EXCEPT !.answer = "error", !.result = NoPack] \in Submission
    BY <1>1 DEF Submission
  <2>2. /\ page' = page
        /\ \/ sub' = [sub EXCEPT ![d] = [sub[d] EXCEPT !.pc = "answered", !.answer = "error"]]
           \/ sub' = [sub EXCEPT ![d] = [sub[d] EXCEPT !.answer = "error", !.result = NoPack]]
    BY <1>1, <1>8 DEF DecisionFails, AnswerLost
  <2> QED
    BY <1>1, <1>2, <2>1, <2>2
<1>9. CASE Deliver(d) \/ Drop(d)
  <2>1. [Unsent EXCEPT !.pc = "closed"] \in Submission
    BY DEF Unsent, Submission
  <2>2. sub' \in [Submissions -> Submission]
    BY <1>1, <1>9, <2>1 DEF Deliver, Drop
  <2>3. CASE Deliver(d)
    <3>1. sub[d].result \in Pack \cup {NoPack} /\ sub[d].answer \in
            {"none", "accepted", "not_found", "already_decided", "stale_evidence_hash",
             "approval_gate", "error"}
      BY <1>1 DEF Submission
    <3>2. CASE sub[d].answer = "accepted"
      <4>1. page' = [page EXCEPT !.busy = None, !.shown = sub[d].result]
        BY <2>3, <3>2 DEF Deliver
      <4> QED
        BY <1>1, <2>2, <3>1, <4>1 DEF Page
    <3>3. CASE sub[d].answer # "accepted"
      <4>1. sub[d].answer # "none"
        BY <2>3 DEF Deliver, SubmissionInv
      <4>2. ErrorOf(sub[d].answer) \in Errors
        BY <3>1, <3>3, <4>1 DEF ErrorOf, Errors
      <4>3. page' = [page EXCEPT !.busy = None, !.error = ErrorOf(sub[d].answer), !.told = sub[d]]
        BY <2>3, <3>3 DEF Deliver
      <4> QED
        BY <1>1, <2>2, <4>2, <4>3 DEF Page
    <3> QED
      BY <3>2, <3>3
  <2> QED
    BY <1>1, <1>9, <2>2, <2>3 DEF Drop
<1>10. CASE GiveUp(d)
  BY <1>1, <1>10 DEF GiveUp, Page, Errors
<1> QED
  BY <1>3, <1>4, <1>5, <1>6, <1>7, <1>8, <1>9, <1>10 DEF Decide

\* What VoyageAnswer returns is an answer about the pack that was read, or an
\* earlier one of the cache.
LEMMA VoyageAnswerType ==
  ASSUME TypeOK, NEW read \in Pack, NEW voyage \in {"guidance", "nothing", "fails", "malformed"}
  PROVE  VoyageAnswer(read, voyage) \in Response \cup {NoResponse}
BY DEF VoyageAnswer, Response, TypeOK

LEMMA TypeVisit ==
  ASSUME TypeOK, LoadInv, NEW l \in Loads, Visit(l)
  PROVE  /\ page' \in Page
         /\ load' \in [Loads -> Load]
         /\ cache' \in Response \cup {NoResponse}
         /\ retrieved' \in BOOLEAN
<1> DEFINE Goal == /\ page' \in Page
                   /\ load' \in [Loads -> Load]
                   /\ cache' \in Response \cup {NoResponse}
                   /\ retrieved' \in BOOLEAN
<1>1. /\ load \in [Loads -> Load] /\ load[l] \in Load /\ page \in Page
      /\ cache \in Response \cup {NoResponse} /\ retrieved \in BOOLEAN
      /\ stored \in Pack \cup {NoPack} /\ seen \subseteq Pack
  BY DEF TypeOK
<1>2. ASSUME NEW x \in Load, load' = [load EXCEPT ![l] = x]
      PROVE  load' \in [Loads -> Load]
  BY <1>1, <1>2
<1>3. CASE LoadPack(l)
  <2>1. [Idle EXCEPT !.pc = "loaded", !.pack = stored] \in Load
    BY <1>1 DEF Idle, Load
  <2>2. [page EXCEPT !.loading = l] \in Page
    BY <1>1 DEF Page
  <2> QED
    BY <1>1, <1>2, <1>3, <2>1, <2>2 DEF LoadPack
<1>4. CASE LoadFallback(l)
  <2>1. [Blank EXCEPT !.source = "fallback", !.shown = ExamplePack] \in Page
    BY BlankIsAPage, ExampleIsFine DEF Page
  <2> QED
    BY <1>1, <1>2, <1>4, <2>1, BlankIsAPage DEF LoadFallback
<1>5. CASE LookupReads(l)
  <2>1. [load[l] EXCEPT !.pc = "reading", !.read = stored] \in Load
    BY <1>1 DEF Load
  <2>2. load' = [load EXCEPT ![l] = [load[l] EXCEPT !.pc = "reading", !.read = stored]]
    BY <1>1, <1>5 DEF LookupReads
  <2> QED
    BY <1>1, <1>2, <1>5, <2>1, <2>2 DEF LookupReads
<1>6. CASE LookupRefused(l)
  <2>1. [load[l] EXCEPT !.pc = "answered"] \in Load
    BY <1>1 DEF Load
  <2>2. load' = [load EXCEPT ![l] = [load[l] EXCEPT !.pc = "answered"]]
    BY <1>1, <1>6 DEF LookupRefused
  <2> QED
    BY <1>1, <1>2, <1>6, <2>1, <2>2 DEF LookupRefused
<1>7. ASSUME NEW status \in {"unconfigured", "empty"}, LookupWithout(l, status)
      PROVE  Goal
  <2> DEFINE x == [load[l] EXCEPT !.pc = "answered",
                                  !.answer = [status |-> status, about |-> load[l].read]]
  <2>1. load[l].read \in Pack
    BY <1>1, <1>7 DEF LookupWithout, LoadInv
  <2>2. x \in Load
    BY <1>1, <2>1 DEF Load, Response
  <2>3. load' = [load EXCEPT ![l] = x]
    BY <1>1, <1>7 DEF LookupWithout
  <2> QED
    BY <1>1, <1>2, <1>7, <2>2, <2>3 DEF LookupWithout
<1>8. ASSUME NEW voyage \in {"guidance", "nothing", "fails", "malformed"}, LookupVoyage(l, voyage)
      PROVE  Goal
  <2> DEFINE answer == VoyageAnswer(load[l].read, voyage)
             x == [load[l] EXCEPT !.pc = "answered", !.voyage = voyage, !.answer = answer]
  <2>1. load[l].read \in Pack
    BY <1>1, <1>8 DEF LookupVoyage, LoadInv
  <2>2. answer \in Response \cup {NoResponse}
    BY <2>1, VoyageAnswerType
  <2>3. x \in Load
    BY <1>1, <2>2 DEF Load
  <2>4. load' = [load EXCEPT ![l] = x]
    BY <1>1, <1>8 DEF LookupVoyage
  <2>5. cache' \in Response \cup {NoResponse} /\ retrieved' \in BOOLEAN /\ page' = page
    BY <1>1, <1>8, <2>2 DEF LookupVoyage
  <2> QED
    BY <1>1, <1>2, <2>3, <2>4, <2>5
<1>9. CASE Render(l)
  <2>1. [Blank EXCEPT !.source = "live", !.shown = load[l].pack] \in Page
    BY <1>1, BlankIsAPage DEF Page, Load
  <2> QED
    BY <1>1, <1>2, <1>9, <2>1, BlankIsAPage DEF Render
<1> QED
  BY <1>3, <1>4, <1>5, <1>6, <1>7, <1>8, <1>9 DEF Visit, Lookup

LEMMA TypeNext ==
  ASSUME TypeOK, PacksInv, SubmissionInv, LoadInv, [Next]_vars
  PROVE  TypeOK'
<1>1. stored' \in Pack \cup {NoPack} /\ seen' \subseteq Pack
  BY TypePacks
<1>2. ASSUME NEW d \in Submissions, Decide(d)
      PROVE  TypeOK'
  BY <1>1, <1>2, TypeDecide, DecideFrame DEF TypeOK
<1>3. ASSUME NEW l \in Loads, Visit(l)
      PROVE  TypeOK'
  BY <1>1, <1>3, TypeVisit, VisitFrame DEF TypeOK
<1>4. CASE Restart
  <2>1. ASSUME NEW d \in Submissions
        PROVE  sub'[d] \in Submission
    <3>1. sub[d] \in Submission
      BY DEF TypeOK
    <3>2. [sub[d] EXCEPT !.pc = "answered", !.answer = "error"] \in Submission
      BY <3>1 DEF Submission
    <3>3. sub'[d] \in {sub[d], [sub[d] EXCEPT !.pc = "answered", !.answer = "error"]}
      BY <1>4 DEF Restart
    <3> QED
      BY <3>1, <3>2, <3>3
  <2>2. ASSUME NEW l \in Loads
        PROVE  load'[l] \in Load
    <3>1. load[l] \in Load
      BY DEF TypeOK
    <3>2. [load[l] EXCEPT !.pc = "answered"] \in Load
      BY <3>1 DEF Load
    <3>3. load'[l] \in {load[l], [load[l] EXCEPT !.pc = "answered"]}
      BY <1>4 DEF Restart
    <3> QED
      BY <3>1, <3>2, <3>3
  <2>3. sub' \in [Submissions -> Submission] /\ load' \in [Loads -> Load]
    BY <1>4, <2>1, <2>2 DEF Restart
  <2> QED
    BY <1>1, <1>4, <2>3 DEF Restart, TypeOK
<1>5. CASE \E h \in Proposals : Rediagnose(h)
  BY <1>1, <1>5 DEF Rediagnose, TypeOK
<1>6. CASE \E read \in seen, a \in Approvers \ {Operator}, verdict \in {"passed", "failed"} :
             OtherDecides(read, a, verdict)
  BY <1>1, <1>6 DEF OtherDecides, TypeOK
<1>7. CASE UNCHANGED vars
  BY <1>1, <1>7 DEF vars, TypeOK
<1> QED
  BY <1>2, <1>3, <1>4, <1>5, <1>6, <1>7 DEF Next

-----------------------------------------------------------------------------
(* Loads and Sift Memory.                                                  *)

\* The packs a run had stay the packs it had.
LEMMA LoadsKept ==
  ASSUME LoadInv, FreshUnlessVoyageFails, seen \subseteq seen',
         UNCHANGED <<load, cache, retrieved>>
  PROVE  LoadInv' /\ FreshUnlessVoyageFails'
BY DEF LoadInv, FreshUnlessVoyageFails

\* A lookup answers about the pack it read, or what the cache has of the run.
LEMMA VoyageAnswerIsFresh ==
  ASSUME LoadInv, NEW l \in Loads, load[l].pc = "reading",
         NEW voyage \in {"guidance", "nothing", "fails", "malformed"}
  PROVE  LET a == VoyageAnswer(load[l].read, voyage) IN
         /\ a # NoResponse => /\ a.about \in seen
                              /\ a.about # load[l].read => voyage = "fails" /\ a.status = "ok"
         /\ voyage = "guidance" => a # NoResponse /\ a.status = "ok" /\ a.about \in seen
         /\ voyage = "fails" /\ retrieved => a.status = "ok"
BY DEF VoyageAnswer, LoadInv, NoResponse

LEMMA LoadVisit ==
  ASSUME TypeOK, PacksInv, LoadInv, FreshUnlessVoyageFails, NEW l \in Loads, Visit(l)
  PROVE  LoadInv' /\ FreshUnlessVoyageFails'
<1> DEFINE Fine(x) ==
             /\ x.pc \in {"loaded", "reading", "answered"} => x.pack \in seen
             /\ x.pc \in {"loaded", "reading"} => x.voyage = "none" /\ x.answer = NoResponse
             /\ x.pc = "reading" => x.read \in seen
             /\ x.answer # NoResponse =>
                  /\ x.answer.about \in seen
                  /\ x.answer.about # x.read => x.voyage = "fails" /\ x.answer.status = "ok"
<1>1. load \in [Loads -> Load] /\ load[l] \in Load /\ seen' = seen
  BY VisitFrame DEF TypeOK
<1>2. Fine(load[l])
  BY DEF LoadInv, FreshUnlessVoyageFails
<1>3. ASSUME NEW x, Fine(x), load' = [load EXCEPT ![l] = x], UNCHANGED <<cache, retrieved>>
      PROVE  LoadInv' /\ FreshUnlessVoyageFails'
  BY <1>1, <1>3 DEF LoadInv, FreshUnlessVoyageFails
<1>4. CASE LoadPack(l)
  <2>1. Fine([Idle EXCEPT !.pc = "loaded", !.pack = stored])
    BY <1>4 DEF LoadPack, Idle, PacksInv
  <2> QED
    BY <1>3, <1>4, <2>1 DEF LoadPack
<1>5. Fine(Closed)
  BY DEF Closed, Idle
<1>6. CASE LoadFallback(l)
  BY <1>3, <1>5, <1>6 DEF LoadFallback
<1>7. CASE LookupReads(l)
  <2> DEFINE x == [load[l] EXCEPT !.pc = "reading", !.read = stored]
  <2>1. stored \in seen
    BY <1>2, <1>7 DEF LookupReads, PacksInv
  <2>2. Fine(x)
    BY <1>1, <1>2, <1>7, <2>1 DEF LookupReads, Load
  <2>3. load' = [load EXCEPT ![l] = x]
    BY <1>1, <1>7 DEF LookupReads
  <2> QED
    BY <1>3, <1>7, <2>2, <2>3 DEF LookupReads
<1>8. CASE LookupRefused(l)
  <2> DEFINE x == [load[l] EXCEPT !.pc = "answered"]
  <2>1. Fine(x)
    BY <1>1, <1>2, <1>8 DEF LookupRefused, Load
  <2>2. load' = [load EXCEPT ![l] = x]
    BY <1>1, <1>8 DEF LookupRefused
  <2> QED
    BY <1>3, <1>8, <2>1, <2>2 DEF LookupRefused
<1>9. ASSUME NEW status, LookupWithout(l, status)
      PROVE  LoadInv' /\ FreshUnlessVoyageFails'
  <2> DEFINE x == [load[l] EXCEPT !.pc = "answered",
                                  !.answer = [status |-> status, about |-> load[l].read]]
  <2>1. Fine(x)
    BY <1>1, <1>2, <1>9 DEF LookupWithout, Load
  <2>2. load' = [load EXCEPT ![l] = x]
    BY <1>1, <1>9 DEF LookupWithout
  <2> QED
    BY <1>3, <1>9, <2>1, <2>2 DEF LookupWithout
<1>10. ASSUME NEW voyage \in {"guidance", "nothing", "fails", "malformed"},
              LookupVoyage(l, voyage)
       PROVE  LoadInv' /\ FreshUnlessVoyageFails'
  <2> DEFINE answer == VoyageAnswer(load[l].read, voyage)
             x == [load[l] EXCEPT !.pc = "answered", !.voyage = voyage, !.answer = answer]
  <2>1. /\ answer # NoResponse =>
             /\ answer.about \in seen
             /\ answer.about # load[l].read => voyage = "fails" /\ answer.status = "ok"
        /\ voyage = "guidance" =>
             answer # NoResponse /\ answer.status = "ok" /\ answer.about \in seen
    BY <1>10, VoyageAnswerIsFresh DEF LookupVoyage
  <2>2. Fine(x)
    BY <1>1, <1>2, <1>10, <2>1 DEF LookupVoyage, Load
  <2>3. load' = [load EXCEPT ![l] = x]
    BY <1>1, <1>10 DEF LookupVoyage
  <2>4. /\ cache' # NoResponse => cache'.status = "ok" /\ cache'.about \in seen
        /\ retrieved' => cache' # NoResponse
    BY <1>10, <2>1 DEF LookupVoyage, LoadInv
  <2> HIDE DEF x, answer
  <2>5. \A m \in Loads : Fine(load[m])
    BY DEF LoadInv, FreshUnlessVoyageFails
  <2>6. \A m \in Loads : Fine(load'[m])
    BY <1>1, <2>2, <2>3, <2>5
  <2> QED
    BY <1>1, <2>4, <2>6 DEF LoadInv, FreshUnlessVoyageFails
<1>11. CASE Render(l)
  BY <1>3, <1>5, <1>11 DEF Render
<1> QED
  BY <1>4, <1>6, <1>7, <1>8, <1>9, <1>10, <1>11 DEF Visit, Lookup

LEMMA LoadRestart ==
  ASSUME TypeOK, LoadInv, FreshUnlessVoyageFails, Restart
  PROVE  LoadInv' /\ FreshUnlessVoyageFails'
<1>1. /\ seen' = seen
      /\ \A l \in Loads : load[l] \in Load
      /\ \A l \in Loads : load'[l] = IF load[l].pc = "reading"
                                       THEN [load[l] EXCEPT !.pc = "answered"] ELSE load[l]
  BY DEF Restart, TypeOK
<1>2. \A l \in Loads : /\ load'[l].pack = load[l].pack /\ load'[l].read = load[l].read
                       /\ load'[l].voyage = load[l].voyage /\ load'[l].answer = load[l].answer
                       /\ \/ load'[l].pc = load[l].pc /\ load[l].pc # "reading"
                          \/ load'[l].pc = "answered" /\ load[l].pc = "reading"
  BY <1>1 DEF Load
<1>3. cache' = NoResponse /\ retrieved' = FALSE
  BY DEF Restart
<1>4. LoadInv'
  BY <1>1, <1>2, <1>3 DEF LoadInv
<1>5. FreshUnlessVoyageFails'
  BY <1>1, <1>2 DEF FreshUnlessVoyageFails
<1> QED
  BY <1>4, <1>5

LEMMA LoadNext ==
  ASSUME TypeOK, PacksInv, LoadInv, FreshUnlessVoyageFails, [Next]_vars
  PROVE  LoadInv' /\ FreshUnlessVoyageFails'
<1>1. seen \subseteq seen'
  BY SeenGrows
<1>2. ASSUME NEW d \in Submissions, Decide(d)
      PROVE  LoadInv' /\ FreshUnlessVoyageFails'
  BY <1>1, <1>2, DecideFrame, LoadsKept
<1>3. CASE \/ \E h \in Proposals : Rediagnose(h)
           \/ \E read \in seen, a \in Approvers \ {Operator}, verdict \in {"passed", "failed"} :
                OtherDecides(read, a, verdict)
           \/ UNCHANGED vars
  <2>1. UNCHANGED <<load, cache, retrieved>>
    BY <1>3 DEF Rediagnose, OtherDecides, vars
  <2> QED
    BY <1>1, <2>1, LoadsKept
<1> QED
  BY <1>2, <1>3, LoadVisit, LoadRestart DEF Next

\* A lookup that Voyage fails while the instance has guidance of the run.
LEMMA GuidanceStep ==
  ASSUME TypeOK, LoadInv, [Next]_vars, NEW l \in Loads,
         load[l].pc = "reading", load'[l].pc = "answered", load'[l].voyage = "fails", retrieved
  PROVE  load'[l].answer.status = "ok"
<1>1. load \in [Loads -> Load] /\ load[l].voyage = "none"
  BY DEF TypeOK, LoadInv
<1>2. ASSUME NEW m \in Loads, Visit(m)
      PROVE  load'[l].answer.status = "ok"
  <2>1. CASE m # l
    <3>1. load'[l] = load[l]
      BY <1>1, <1>2, <2>1 DEF Visit, LoadPack, LoadFallback, LookupReads, LookupRefused, Lookup,
         LookupWithout, LookupVoyage, Render
    <3> QED
      BY <3>1
  <2>2. CASE m = l /\ \E voyage \in {"guidance", "nothing", "fails", "malformed"} :
                        LookupVoyage(l, voyage)
    <3>1. PICK voyage \in {"guidance", "nothing", "fails", "malformed"} : LookupVoyage(l, voyage)
      BY <2>2
    <3>2. /\ load[l] \in Load
          /\ load' = [load EXCEPT ![l] = [load[l] EXCEPT !.pc = "answered", !.voyage = voyage,
                                            !.answer = VoyageAnswer(load[l].read, voyage)]]
      BY <1>1, <3>1 DEF LookupVoyage
    <3>3. voyage = "fails" /\ load'[l].answer = VoyageAnswer(load[l].read, voyage)
      BY <1>1, <3>2 DEF Load
    <3> QED
      BY <3>3, VoyageAnswerIsFresh
  <2>3. ASSUME m = l, LookupWithout(l, "unconfigured") \/ LookupWithout(l, "empty")
        PROVE  load'[l].voyage = "none"
    BY <1>1, <2>3 DEF LookupWithout, Load
  <2>4. ASSUME m = l, Render(l) \/ LoadPack(l) \/ LoadFallback(l) \/ LookupReads(l) \/ LookupRefused(l)
        PROVE  FALSE
    BY <2>4 DEF Render, LoadPack, LoadFallback, LookupReads, LookupRefused
  <2> QED
    BY <1>2, <2>1, <2>2, <2>3, <2>4 DEF Visit, Lookup
<1>3. CASE Restart
  <2>1. load'[l] = [load[l] EXCEPT !.pc = "answered"] /\ load[l] \in Load
    BY <1>1, <1>3 DEF Restart
  <2> QED
    BY <1>1, <2>1 DEF Load
<1>4. CASE load' = load
  BY <1>4
<1>5. ASSUME NEW d \in Submissions, Decide(d)
      PROVE  load' = load
  BY <1>5, DecideFrame
<1> QED
  BY <1>2, <1>3, <1>4, <1>5 DEF Next, vars, Rediagnose, OtherDecides

-----------------------------------------------------------------------------
(* Submissions.                                                            *)

\* What the invariant says of one submission, of the packs the run had.
SubmissionFine(s, had) ==
  /\ s.pc \in {"sent", "applying", "answered"} =>
       /\ s.source = "live" => s.shown \in had
       /\ s.source # "live" => s.shown = ExamplePack
       /\ Reviewable(s.shown)
       /\ s.hash = s.shown.hash
  /\ s.answer = "none" <=> s.pc # "answered"
  /\ s.answer # "accepted" => s.result = NoPack
  /\ s.pc = "applying" \/ s.answer = "accepted" =>
       s.source = "live" /\ s.found \in had /\ DecisionAnswer(s.found, s.hash) = "accepted"
  /\ s.answer = "accepted" => s.result \in had
  /\ s.answer \in Answered => Refused(s)

LEMMA SubmissionByOne == SubmissionInv <=> \A d \in Submissions : SubmissionFine(sub[d], seen)
BY DEF SubmissionInv, SubmissionFine, Genuine, Accepted

LEMMA SubmissionByOneNext ==
  SubmissionInv' <=> \A d \in Submissions : SubmissionFine(sub'[d], seen')
BY DEF SubmissionInv, SubmissionFine, Genuine, Accepted

LEMMA SubmissionKept ==
  ASSUME NEW s, NEW had, NEW more, had \subseteq more, SubmissionFine(s, had)
  PROVE  SubmissionFine(s, more)
BY DEF SubmissionFine

LEMMA ClosedIsFine ==
  ASSUME NEW had
  PROVE  SubmissionFine(Unsent, had) /\ SubmissionFine([Unsent EXCEPT !.pc = "closed"], had)
BY DEF SubmissionFine, Unsent, Answered

\* What the endpoint finds for a submission of a live page is the stored pack.
LEMMA FoundForIt ==
  ASSUME TypeOK, PacksInv, SubmissionInv, NEW d \in Submissions, sub[d].pc = "sent"
  PROVE  /\ FoundFor(d) = NoPack <=> sub[d].source = "fallback"
         /\ FoundFor(d) # NoPack => FoundFor(d) = stored /\ stored \in seen /\ sub[d].source = "live"
<1>1. sub[d].source \in {"live", "fallback"}
  BY DEF TypeOK, Submission
<1>2. sub[d].source = "live" => sub[d].shown \in seen
  BY DEF SubmissionInv, Genuine
<1> QED
  BY <1>1, <1>2 DEF FoundFor, PacksInv

LEMMA SubmissionDecide ==
  ASSUME TypeOK, PacksInv, PageInv, SubmissionInv, NEW d \in Submissions, Decide(d),
         seen \subseteq seen'
  PROVE  SubmissionInv'
<1>1. sub \in [Submissions -> Submission] /\ sub[d] \in Submission
  BY DEF TypeOK
<1>2. \A e \in Submissions : SubmissionFine(sub[e], seen')
  BY SubmissionByOne, SubmissionKept
<1>3. ASSUME NEW s, SubmissionFine(s, seen'), sub' = [sub EXCEPT ![d] = s]
      PROVE  SubmissionInv'
  BY <1>1, <1>2, <1>3, SubmissionByOneNext
<1>4. ASSUME NEW kind, Click(d, kind)
      PROVE  SubmissionInv'
  <2> DEFINE s == [Unsent EXCEPT !.pc = "sent", !.kind = kind, !.source = page.source,
                                 !.shown = page.shown, !.hash = HashOf(page.shown)]
  <2>1. page.source \in {"live", "fallback"} /\ Genuine(page.source, page.shown)
    BY <1>4 DEF Click, CanDecide, PageInv, TypeOK, Page
  <2>2. page.shown \in Pack /\ Valid(page.shown)
    BY <2>1, ExampleIsFine DEF Genuine, PacksInv, TypeOK
  <2>3. HashOf(page.shown) = page.shown.hash /\ Reviewable(page.shown)
    BY <1>4, <2>2, ButtonsAreRight DEF Click, CanDecide
  <2>4. /\ s.pc = "sent" /\ s.source = page.source /\ s.shown = page.shown
        /\ s.hash = page.shown.hash /\ s.answer = "none" /\ s.result = NoPack
    BY <2>3 DEF Unsent
  <2> HIDE DEF s
  <2>5. SubmissionFine(s, seen')
    BY <2>1, <2>3, <2>4 DEF SubmissionFine, Genuine, Answered
  <2> QED
    BY <1>3, <1>4, <2>5 DEF Click, s
<1>5. CASE DecisionRefused(d)
  <2> DEFINE answer == DecisionAnswer(FoundFor(d), sub[d].hash)
             s == [sub[d] EXCEPT !.pc = "answered", !.found = FoundFor(d), !.answer = answer]
  <2>1. answer \in Answered
    BY <1>5 DEF DecisionRefused, DecisionAnswer, Answered
  <2>2. /\ s.pc = "answered" /\ s.source = sub[d].source /\ s.shown = sub[d].shown
        /\ s.hash = sub[d].hash /\ s.found = FoundFor(d) /\ s.answer = answer
        /\ s.result = sub[d].result
    BY <1>1 DEF Submission
  <2>3. sub[d].result = NoPack /\ sub[d].pc = "sent"
    BY <1>5 DEF DecisionRefused, SubmissionInv
  <2>4. /\ Reviewable(sub[d].shown) /\ sub[d].hash = sub[d].shown.hash
    BY <2>3 DEF SubmissionInv
  <2>5. Refused(s)
    BY <2>2, <2>3, <2>4, FoundForIt DEF Refused
  <2>6. sub' = [sub EXCEPT ![d] = s]
    BY <1>1, <1>5 DEF DecisionRefused
  <2> HIDE DEF s, answer
  <2>7. SubmissionFine(s, seen')
    BY <1>2, <2>1, <2>2, <2>3, <2>5 DEF SubmissionFine, Answered
  <2> QED
    BY <1>3, <2>6, <2>7
<1>6. CASE Rejected(d)
  <2> DEFINE result == RejectedPack(stored, Operator)
             s == [sub[d] EXCEPT !.pc = "answered", !.found = stored, !.answer = "accepted",
                                 !.result = result]
  <2>1. /\ sub[d].pc = "sent" /\ FoundFor(d) = stored /\ stored \in seen
        /\ sub[d].source = "live" /\ DecisionAnswer(stored, sub[d].hash) = "accepted"
    BY <1>6, FoundForIt DEF Rejected, DecisionAnswer
  <2>2. result \in seen'
    BY <1>6 DEF Rejected, Store
  <2>3. /\ s.pc = "answered" /\ s.source = sub[d].source /\ s.shown = sub[d].shown
        /\ s.hash = sub[d].hash /\ s.found = stored /\ s.answer = "accepted" /\ s.result = result
    BY <1>1 DEF Submission
  <2>4. sub' = [sub EXCEPT ![d] = s]
    BY <1>1, <1>6 DEF Rejected
  <2> HIDE DEF s, result
  <2>5. SubmissionFine(s, seen')
    BY <1>2, <2>1, <2>2, <2>3 DEF SubmissionFine, Answered
  <2> QED
    BY <1>3, <2>4, <2>5
<1>7. CASE Applying(d)
  <2> DEFINE s == [sub[d] EXCEPT !.pc = "applying", !.found = stored]
  <2>1. /\ sub[d].pc = "sent" /\ FoundFor(d) = stored /\ stored \in seen
        /\ sub[d].source = "live" /\ DecisionAnswer(stored, sub[d].hash) = "accepted"
    BY <1>7, FoundForIt DEF Applying, DecisionAnswer
  <2>2. /\ s.pc = "applying" /\ s.source = sub[d].source /\ s.shown = sub[d].shown
        /\ s.hash = sub[d].hash /\ s.found = stored /\ s.answer = sub[d].answer
        /\ s.result = sub[d].result
    BY <1>1 DEF Submission
  <2>3. sub' = [sub EXCEPT ![d] = s]
    BY <1>1, <1>7 DEF Applying
  <2> HIDE DEF s
  <2>4. SubmissionFine(s, seen')
    BY <1>2, <2>1, <2>2 DEF SubmissionFine, Answered
  <2> QED
    BY <1>3, <2>3, <2>4
<1>8. ASSUME NEW verdict, Applied(d, verdict)
      PROVE  SubmissionInv'
  <2> DEFINE result == AppliedPack(sub[d].found, sub[d].hash, Operator, verdict)
             s == [sub[d] EXCEPT !.pc = "answered", !.answer = "accepted", !.result = result]
  <2>1. result \in seen' /\ sub[d].pc = "applying"
    BY <1>8 DEF Applied, Store
  <2>2. /\ s.pc = "answered" /\ s.source = sub[d].source /\ s.shown = sub[d].shown
        /\ s.hash = sub[d].hash /\ s.found = sub[d].found /\ s.answer = "accepted"
        /\ s.result = result
    BY <1>1 DEF Submission
  <2>3. sub' = [sub EXCEPT ![d] = s]
    BY <1>1, <1>8 DEF Applied
  <2> HIDE DEF s, result
  <2>4. SubmissionFine(s, seen')
    BY <1>2, <2>1, <2>2 DEF SubmissionFine, Answered
  <2> QED
    BY <1>3, <2>3, <2>4
<1>9. CASE DecisionFails(d) \/ AnswerLost(d)
  <2>1. PICK s \in {[sub[d] EXCEPT !.pc = "answered", !.answer = "error"],
                    [sub[d] EXCEPT !.answer = "error", !.result = NoPack]} :
          /\ sub' = [sub EXCEPT ![d] = s]
          /\ s.pc = "answered" /\ s.answer = "error" /\ s.result = NoPack
          /\ s.source = sub[d].source /\ s.shown = sub[d].shown /\ s.hash = sub[d].hash
    <3>1. CASE DecisionFails(d)
      <4>1. sub[d].result = NoPack
        BY <3>1 DEF DecisionFails, SubmissionInv
      <4> QED
        BY <1>1, <3>1, <4>1 DEF DecisionFails, Submission
    <3>2. CASE AnswerLost(d)
      BY <1>1, <3>2 DEF AnswerLost, Submission
    <3> QED
      BY <1>9, <3>1, <3>2
  <2>2. sub[d].pc \in {"sent", "applying", "answered"}
    BY <1>9 DEF DecisionFails, AnswerLost
  <2>3. SubmissionFine(s, seen')
    BY <1>2, <2>1, <2>2 DEF SubmissionFine, Answered
  <2> QED
    BY <1>3, <2>1, <2>3
<1>10. CASE Deliver(d) \/ Drop(d)
  BY <1>3, <1>10, ClosedIsFine DEF Deliver, Drop
<1>11. CASE GiveUp(d)
  BY <1>2, <1>11, SubmissionByOneNext DEF GiveUp
<1> QED
  BY <1>4, <1>5, <1>6, <1>7, <1>8, <1>9, <1>10, <1>11 DEF Decide

LEMMA SubmissionNext ==
  ASSUME TypeOK, PacksInv, PageInv, SubmissionInv, [Next]_vars
  PROVE  SubmissionInv'
<1>1. seen \subseteq seen'
  BY SeenGrows
<1>2. \A e \in Submissions : SubmissionFine(sub[e], seen')
  BY <1>1, SubmissionByOne, SubmissionKept
<1>3. CASE sub' = sub
  BY <1>2, <1>3, SubmissionByOneNext
<1>4. CASE Restart
  <2>1. ASSUME NEW d \in Submissions
        PROVE  SubmissionFine(sub'[d], seen')
    <3>1. sub[d] \in Submission /\ SubmissionFine(sub[d], seen')
      BY <1>2 DEF TypeOK
    <3>2. CASE sub[d].pc = "applying"
      <4> DEFINE s == [sub[d] EXCEPT !.pc = "answered", !.answer = "error"]
      <4>1. /\ s.pc = "answered" /\ s.answer = "error" /\ s.result = sub[d].result
            /\ s.source = sub[d].source /\ s.shown = sub[d].shown /\ s.hash = sub[d].hash
        BY <3>1 DEF Submission
      <4>2. sub'[d] = s
        BY <1>4, <3>2 DEF Restart
      <4> HIDE DEF s
      <4>3. SubmissionFine(s, seen')
        BY <3>1, <3>2, <4>1 DEF SubmissionFine, Answered
      <4> QED
        BY <4>2, <4>3
    <3>3. CASE sub[d].pc # "applying"
      BY <1>4, <3>1, <3>3 DEF Restart
    <3> QED
      BY <3>2, <3>3
  <2> QED
    BY <2>1, SubmissionByOneNext
<1>5. ASSUME NEW l \in Loads, Visit(l)
      PROVE  sub' = sub
  BY <1>5, VisitFrame
<1>6. ASSUME NEW d \in Submissions, Decide(d)
      PROVE  SubmissionInv'
  BY <1>1, <1>6, SubmissionDecide
<1> QED
  BY <1>3, <1>4, <1>5, <1>6 DEF Next, vars, Rediagnose, OtherDecides

-----------------------------------------------------------------------------
(* The page.                                                               *)

\* What the invariant says of a page but for the submission it waits for.
PageFine(p, had) ==
  /\ p.source = "live" => p.shown \in had
  /\ p.source = "fallback" => p.shown = ExamplePack
  /\ p.error \in {"not_found", "stale_evidence_hash"} =>
       p.told.answer \in Answered /\ p.error = ErrorOf(p.told.answer) /\ Refused(p.told)

Waits(p, subs) ==
  p.busy # None => p.source = subs[p.busy].source
                   /\ subs[p.busy].pc \in {"sent", "applying", "answered"}

LEMMA PageByParts ==
  ASSUME TypeOK
  PROVE  PageInv <=> PageFine(page, seen) /\ Waits(page, sub)
BY DEF PageInv, PageFine, Waits, Genuine, TypeOK, Page

LEMMA PageByPartsNext ==
  ASSUME TypeOK'
  PROVE  PageInv' <=> PageFine(page', seen') /\ Waits(page', sub')
BY DEF PageInv, PageFine, Waits, Genuine, TypeOK, Page

LEMMA PageKept ==
  ASSUME NEW p, NEW had, NEW more, had \subseteq more, PageFine(p, had)
  PROVE  PageFine(p, more)
BY DEF PageFine

LEMMA PageDecide ==
  ASSUME TypeOK, TypeOK', SubmissionInv, PageInv, seen \subseteq seen',
         NEW d \in Submissions, Decide(d)
  PROVE  PageInv'
<1>1. /\ sub \in [Submissions -> Submission] /\ sub[d] \in Submission
      /\ page \in Page /\ d # None
  BY DEF TypeOK
<1>2. PageFine(page, seen') /\ Waits(page, sub)
  BY PageByParts, PageKept
<1>3. CASE \E kind \in {"approve", "reject"} : Click(d, kind)
  <2>1. /\ page'.source = page.source /\ page'.shown = page.shown /\ page'.busy = d
        /\ page'.error = "none"
    BY <1>1, <1>3 DEF Click, Page
  <2>2. sub'[d].source = page.source /\ sub'[d].pc = "sent"
    BY <1>1, <1>3 DEF Click, Unsent
  <2>3. PageFine(page', seen') /\ Waits(page', sub')
    BY <1>2, <2>1, <2>2 DEF PageFine, Waits
  <2> QED
    BY <2>3, PageByPartsNext
<1>4. ASSUME NEW s, sub' = [sub EXCEPT ![d] = s], page' = page, s.source = sub[d].source,
             s.pc \in {"sent", "applying", "answered"} \/ page.busy # d
      PROVE  PageInv'
  <2>1. Waits(page', sub')
    BY <1>1, <1>2, <1>4 DEF Waits, Page
  <2> QED
    BY <1>2, <1>4, <2>1, PageByPartsNext
<1>5. CASE DecisionRefused(d)
  <2> DEFINE s == [sub[d] EXCEPT !.pc = "answered", !.found = FoundFor(d),
                                 !.answer = DecisionAnswer(FoundFor(d), sub[d].hash)]
  <2>1. s.source = sub[d].source /\ s.pc = "answered" /\ sub' = [sub EXCEPT ![d] = s] /\ page' = page
    BY <1>1, <1>5 DEF DecisionRefused, Submission
  <2> QED
    BY <1>4, <2>1
<1>6. CASE Rejected(d)
  <2> DEFINE s == [sub[d] EXCEPT !.pc = "answered", !.found = stored, !.answer = "accepted",
                                 !.result = RejectedPack(stored, Operator)]
  <2>1. s.source = sub[d].source /\ s.pc = "answered" /\ sub' = [sub EXCEPT ![d] = s] /\ page' = page
    BY <1>1, <1>6 DEF Rejected, Submission
  <2> QED
    BY <1>4, <2>1
<1>7. CASE Applying(d)
  <2> DEFINE s == [sub[d] EXCEPT !.pc = "applying", !.found = stored]
  <2>1. s.source = sub[d].source /\ s.pc = "applying" /\ sub' = [sub EXCEPT ![d] = s] /\ page' = page
    BY <1>1, <1>7 DEF Applying, Submission
  <2> QED
    BY <1>4, <2>1
<1>8. ASSUME NEW verdict, Applied(d, verdict)
      PROVE  PageInv'
  <2> DEFINE s == [sub[d] EXCEPT !.pc = "answered", !.answer = "accepted",
                     !.result = AppliedPack(sub[d].found, sub[d].hash, Operator, verdict)]
  <2>1. s.source = sub[d].source /\ s.pc = "answered" /\ sub' = [sub EXCEPT ![d] = s] /\ page' = page
    BY <1>1, <1>8 DEF Applied, Submission
  <2> QED
    BY <1>4, <2>1
<1>9. CASE DecisionFails(d)
  <2> DEFINE s == [sub[d] EXCEPT !.pc = "answered", !.answer = "error"]
  <2>1. s.source = sub[d].source /\ s.pc = "answered" /\ sub' = [sub EXCEPT ![d] = s] /\ page' = page
    BY <1>1, <1>9 DEF DecisionFails, Submission
  <2> QED
    BY <1>4, <2>1
<1>10. CASE AnswerLost(d)
  <2> DEFINE s == [sub[d] EXCEPT !.answer = "error", !.result = NoPack]
  <2>1. s.source = sub[d].source /\ s.pc = "answered" /\ sub' = [sub EXCEPT ![d] = s] /\ page' = page
    BY <1>1, <1>10 DEF AnswerLost, Submission
  <2> QED
    BY <1>4, <2>1
<1>11. CASE Deliver(d)
  <2>1. page'.busy = None /\ page'.source = page.source
    BY <1>1, <1>11 DEF Deliver, Page
  <2>2. Waits(page', sub')
    BY <2>1 DEF Waits
  <2>3. CASE sub[d].answer = "accepted"
    <3>1. page.source = "live" /\ sub[d].result \in seen
      BY <1>1, <1>2, <1>11, <2>3 DEF Deliver, Waits, SubmissionInv, Accepted
    <3>2. page'.shown = sub[d].result /\ page'.error = page.error /\ page'.told = page.told
      BY <1>1, <1>11, <2>3 DEF Deliver, Page
    <3>3. PageFine(page', seen')
      BY <1>2, <2>1, <3>1, <3>2 DEF PageFine
    <3> QED
      BY <2>2, <3>3, PageByPartsNext
  <2>4. CASE sub[d].answer # "accepted"
    <3>1. /\ page'.shown = page.shown /\ page'.error = ErrorOf(sub[d].answer)
          /\ page'.told = sub[d]
      BY <1>1, <1>11, <2>4 DEF Deliver, Page
    <3>2. sub[d].answer \in Answered \cup {"error"}
      BY <1>1, <1>11, <2>4 DEF Deliver, SubmissionInv, Submission, Answered
    <3>3. ErrorOf("error") = "unavailable"
      BY DEF ErrorOf
    <3>4. sub[d].answer \in Answered => Refused(sub[d])
      BY DEF SubmissionInv
    <3>5. PageFine(page', seen')
      BY <1>2, <2>1, <3>1, <3>2, <3>3, <3>4 DEF PageFine
    <3> QED
      BY <2>2, <3>5, PageByPartsNext
  <2> QED
    BY <2>3, <2>4
<1>12. CASE Drop(d)
  <2>1. Waits(page', sub')
    BY <1>1, <1>2, <1>12 DEF Drop, Waits, Page
  <2> QED
    BY <1>2, <1>12, <2>1, PageByPartsNext DEF Drop
<1>13. CASE GiveUp(d)
  <2>1. /\ page'.source = page.source /\ page'.shown = page.shown /\ page'.busy = None
        /\ page'.error = "unavailable"
    BY <1>1, <1>13 DEF GiveUp, Page
  <2>2. PageFine(page', seen') /\ Waits(page', sub')
    BY <1>2, <2>1 DEF PageFine, Waits
  <2> QED
    BY <2>2, PageByPartsNext
<1> QED
  BY <1>3, <1>5, <1>6, <1>7, <1>8, <1>9, <1>10, <1>11, <1>12, <1>13 DEF Decide

LEMMA PageVisit ==
  ASSUME TypeOK, TypeOK', PageInv, LoadInv, NEW l \in Loads, Visit(l)
  PROVE  PageInv'
<1>1. page \in Page /\ load[l] \in Load /\ seen' = seen /\ sub' = sub
  BY VisitFrame DEF TypeOK
<1>2. PageFine(page, seen) /\ Waits(page, sub)
  BY PageByParts
<1>3. CASE LoadPack(l)
  <2>1. /\ page'.source = page.source /\ page'.shown = page.shown /\ page'.busy = page.busy
        /\ page'.error = page.error /\ page'.told = page.told
    BY <1>1, <1>3 DEF LoadPack, Page
  <2>2. PageFine(page', seen') /\ Waits(page', sub')
    BY <1>1, <1>2, <2>1 DEF PageFine, Waits
  <2> QED
    BY <2>2, PageByPartsNext
<1>4. CASE LoadFallback(l)
  <2>1. /\ page'.source = "fallback" /\ page'.shown = ExamplePack /\ page'.busy = None
        /\ page'.error = "none"
    BY <1>4 DEF LoadFallback, Blank
  <2>2. PageFine(page', seen') /\ Waits(page', sub')
    BY <2>1 DEF PageFine, Waits
  <2> QED
    BY <2>2, PageByPartsNext
<1>5. CASE Render(l)
  <2>1. /\ page'.source = "live" /\ page'.shown = load[l].pack /\ page'.busy = None
        /\ page'.error = "none"
    BY <1>5 DEF Render, Blank
  <2>2. load[l].pack \in seen
    BY <1>5 DEF Render, LoadInv
  <2>3. PageFine(page', seen') /\ Waits(page', sub')
    BY <1>1, <2>1, <2>2 DEF PageFine, Waits
  <2> QED
    BY <2>3, PageByPartsNext
<1>6. CASE page' = page
  BY <1>1, <1>2, <1>6, PageByPartsNext
<1> QED
  BY <1>3, <1>4, <1>5, <1>6
     DEF Visit, LookupReads, LookupRefused, Lookup, LookupWithout, LookupVoyage

LEMMA PageNext ==
  ASSUME TypeOK, TypeOK', SubmissionInv, LoadInv, PageInv, [Next]_vars
  PROVE  PageInv'
<1>1. seen \subseteq seen' /\ PageFine(page, seen') /\ Waits(page, sub)
  BY SeenGrows, PageByParts, PageKept
<1>2. CASE Restart
  <2>1. ASSUME NEW d \in Submissions
        PROVE  /\ sub'[d].source = sub[d].source
               /\ sub[d].pc \in {"sent", "applying", "answered"} =>
                    sub'[d].pc \in {"sent", "applying", "answered"}
    <3>1. sub[d] \in Submission
      BY DEF TypeOK
    <3>2. sub'[d] \in {sub[d], [sub[d] EXCEPT !.pc = "answered", !.answer = "error"]}
      BY <1>2 DEF Restart
    <3>3. [sub[d] EXCEPT !.pc = "answered", !.answer = "error"].source = sub[d].source
      BY <3>1 DEF Submission
    <3>4. [sub[d] EXCEPT !.pc = "answered", !.answer = "error"].pc = "answered"
      BY <3>1 DEF Submission
    <3> QED
      BY <3>2, <3>3, <3>4
  <2>2. Waits(page', sub')
    BY <1>1, <1>2, <2>1 DEF Restart, Waits, TypeOK, Page
  <2> QED
    BY <1>1, <1>2, <2>2, PageByPartsNext DEF Restart
<1>3. CASE UNCHANGED <<page, sub>>
  BY <1>1, <1>3, PageByPartsNext
<1> QED
  BY <1>1, <1>2, <1>3, PageDecide, PageVisit DEF Next, vars, Rediagnose, OtherDecides

-----------------------------------------------------------------------------
(* The invariant and what follows from it.                                 *)

LEMMA InvInit == Init => ReviewInv
<1> SUFFICES ASSUME Init
             PROVE  ReviewInv
  OBVIOUS
<1>1. TypeOK
  BY TypeInit
<1>2. PacksInv
  <2>1. \A h : LegacyPack(h).hash = h
    BY DEF LegacyPack, DiagnosedPack
  <2> QED
    BY <2>1, LegacyIsFine DEF Init, PacksInv
<1>3. PageInv
  BY DEF Init, PageInv, Blank
<1>4. SubmissionInv
  BY SubmissionByOne, ClosedIsFine DEF Init
<1>5. LoadInv /\ FreshUnlessVoyageFails
  BY DEF Init, LoadInv, FreshUnlessVoyageFails, Idle
<1> QED
  BY <1>1, <1>2, <1>3, <1>4, <1>5 DEF ReviewInv

LEMMA InvNext == ReviewInv /\ [Next]_vars => ReviewInv'
<1> SUFFICES ASSUME ReviewInv, [Next]_vars
             PROVE  ReviewInv'
  OBVIOUS
<1>1. TypeOK /\ PacksInv /\ PageInv /\ SubmissionInv /\ LoadInv /\ FreshUnlessVoyageFails
  BY DEF ReviewInv
<1>2. TypeOK'
  BY <1>1, TypeNext
<1>3. PacksInv'
  BY <1>1, TypePacks
<1>4. SubmissionInv'
  BY <1>1, SubmissionNext
<1>5. LoadInv' /\ FreshUnlessVoyageFails'
  BY <1>1, LoadNext
<1>6. PageInv'
  BY <1>1, <1>2, PageNext
<1> QED
  BY <1>2, <1>3, <1>4, <1>5, <1>6 DEF ReviewInv

\* The inductive invariant holds of every reachable state.
THEOREM ReviewInvariantHolds == Spec => []ReviewInv
BY InvInit, InvNext, PTL DEF Spec

\* Every variable keeps its type.
THEOREM ReviewTypeCorrect == Spec => []TypeOK
<1>1. ReviewInv => TypeOK
  BY DEF ReviewInv
<1> QED
  BY <1>1, ReviewInvariantHolds, PTL

\* A live page shows a pack the run really had, whatever overtakes what
\* (AgentRunView, ApprovalGatePanel).
THEOREM PageNeverAsserts == Spec => []NeverAsserted
<1>1. ReviewInv => NeverAsserted
  BY DEF ReviewInv, PageInv, Genuine, NeverAsserted
<1> QED
  BY <1>1, ReviewInvariantHolds, PTL

\* A decision is accepted only for the evidence that was on the operator's
\* screen (ApprovalGatePanel, decide_pack).
THEOREM DecisionsAreForWhatWasShown == Spec => []SignedWhatWasShown
<1>1. ReviewInv => SignedWhatWasShown
  <2> SUFFICES ASSUME ReviewInv, NEW d \in Submissions,
                      sub[d].pc = "applying" \/ sub[d].answer = "accepted"
               PROVE  /\ sub[d].source = "live"
                      /\ sub[d].found.proposal = sub[d].shown.proposal
                      /\ ~AlreadyDecided(sub[d].found)
                      /\ sub[d].shown \in seen
    BY DEF SignedWhatWasShown
  <2>1. Accepted(sub[d]) /\ sub[d].pc \in {"applying", "answered"}
    BY DEF ReviewInv, SubmissionInv
  <2>2. sub[d].shown \in seen /\ sub[d].hash = sub[d].shown.hash
    BY <2>1 DEF ReviewInv, SubmissionInv, Genuine, Accepted
  <2>3. sub[d].found \in seen /\ sub[d].found.hash = sub[d].hash /\ ~AlreadyDecided(sub[d].found)
    BY <2>1 DEF Accepted, DecisionAnswer
  <2>4. \A p \in seen : p.hash = p.proposal
    BY DEF ReviewInv, PacksInv, Valid, HashBindsProposal
  <2> QED
    BY <2>1, <2>2, <2>3, <2>4 DEF Accepted
<1> QED
  BY <1>1, ReviewInvariantHolds, PTL

\* A refusal that is shown has a cause: the example is no run, or the run moved on
\* behind the page (submitDecision).
THEOREM RefusalsHaveACause == Spec => []RefusalHasCause
<1>1. ReviewInv => RefusalHasCause
  <2> SUFFICES ASSUME ReviewInv, page.error \in {"not_found", "stale_evidence_hash"}
               PROVE  /\ page.error = "not_found" => page.told.source = "fallback"
                      /\ page.error = "stale_evidence_hash" =>
                           /\ page.told.source = "live"
                           /\ GatePending(page.told.shown) => page.told.found # page.told.shown
    BY DEF RefusalHasCause
  <2>1. /\ page.told.answer \in Answered /\ page.error = ErrorOf(page.told.answer)
        /\ Refused(page.told) /\ page.told.source \in {"live", "fallback"}
    BY DEF ReviewInv, PageInv, TypeOK, Page, Submission
  <2>2. CASE page.error = "not_found"
    <3>1. page.told.answer = "not_found"
      BY <2>1, <2>2 DEF ErrorOf, Answered
    <3> QED
      BY <2>1, <2>2, <3>1 DEF Refused, DecisionAnswer
  <2>3. CASE page.error = "stale_evidence_hash"
    <3>1. page.told.answer \in {"already_decided", "stale_evidence_hash", "approval_gate"}
      BY <2>1, <2>3 DEF ErrorOf, Answered
    <3>2. page.told.found # NoPack
      BY <2>1, <3>1 DEF Refused, DecisionAnswer
    <3>3. GatePending(page.told.shown) => page.told.found # page.told.shown
      BY <2>1, <3>1 DEF Refused, DecisionAnswer, Reviewable, AlreadyDecided, GatePending
    <3> QED
      BY <2>1, <2>3, <3>2, <3>3 DEF Refused
  <2> QED
    BY <2>2, <2>3
<1> QED
  BY <1>1, ReviewInvariantHolds, PTL

\* A lookup answers about the pack it read unless Voyage failed it, and then
\* with Voyage's guidance about an earlier state of the run (lookup).
THEOREM GuidanceIsFresh == Spec => []FreshUnlessVoyageFails
<1>1. ReviewInv => FreshUnlessVoyageFails
  BY DEF ReviewInv
<1> QED
  BY <1>1, ReviewInvariantHolds, PTL

\* An instance that has guidance of the run never answers with less when Voyage
\* fails (lookup).
THEOREM GuidanceNeverLost == Spec => GuidanceIsKept
<1>1. ReviewInv /\ [Next]_vars =>
        [\A l \in Loads :
           load[l].pc = "reading" /\ load'[l].pc = "answered" /\ load'[l].voyage = "fails" /\ retrieved
             => load'[l].answer.status = "ok"]_vars
  BY GuidanceStep DEF ReviewInv
<1> QED
  BY <1>1, ReviewInvariantHolds, PTL DEF Spec, GuidanceIsKept
-----------------------------------------------------------------------------
(* The documents of the run.                                               *)

LEMMA SamePacks ==
  /\ Kept!NoPack = NoPack
  /\ \A h : Kept!DiagnosedPack(h) = DiagnosedPack(h) /\ Kept!LegacyPack(h) = LegacyPack(h)
  /\ \A h, a : Kept!Outcomes(h, a) = Outcomes(h, a)
<1>1. Kept!NoPack = NoPack /\ Kept!NoGate = NoGate
  BY DEF Kept!NoPack, NoPack, Kept!NoDecision, NoDecision, Kept!NoGate, NoGate
<1>2. \A h : Kept!DiagnosedPack(h) = DiagnosedPack(h)
  BY DEF Kept!DiagnosedPack, DiagnosedPack, Kept!NoDecision, NoDecision
<1>3. \A h : Kept!LegacyPack(h) = LegacyPack(h)
  BY <1>1, <1>2, Zenon DEF Kept!LegacyPack, LegacyPack
<1>4. \A p, a : Kept!RejectedPack(p, a) = RejectedPack(p, a)
  BY DEF Kept!RejectedPack, RejectedPack
<1>5. \A p, h, a, v : Kept!AppliedPack(p, h, a, v) = AppliedPack(p, h, a, v)
  BY DEF Kept!AppliedPack, AppliedPack
<1>6. \A h, a : Kept!Outcomes(h, a) = Outcomes(h, a)
  BY <1>2, <1>4, <1>5, Zenon DEF Kept!Outcomes, Outcomes
<1> QED
  BY <1>1, <1>2, <1>3, <1>6

\* The run's pending packs.
Pending(packs) == {<<"run", p.hash>> : p \in {q \in packs : q.status = "diagnosed" /\ GatePending(q)}}

\* A pack that is decided was offered, as its diagnosis made it.
LEMMA AcceptedWasOffered ==
  ASSUME TypeOK, PacksInv, NEW p \in seen, NEW h, DecisionAnswer(p, h) = "accepted"
  PROVE  /\ h \in Proposals
         /\ p = DiagnosedPack(h)
         /\ <<"run", h>> \in Pending(seen)
<1>1. p.status = "diagnosed" /\ p.hash = h /\ GatePending(p) /\ p \in Pack
  BY DEF DecisionAnswer, AlreadyDecided, TypeOK
<1>2. p.gate # NoGate /\ h \in Proposals
  BY <1>1 DEF GatePending, Pack
<1>3. LegacyPack(h).gate = NoGate
  BY DEF LegacyPack, DiagnosedPack
<1>4. p = DiagnosedPack(h)
  BY <1>1, <1>2, <1>3 DEF PacksInv
<1> QED
  BY <1>1, <1>2, <1>4 DEF Pending

\* To store a diagnosis, or the outcome of a decision on an offered one, is a
\* step of the record.
LEMMA StoreDiagnosis ==
  ASSUME NEW h \in Proposals, Store(DiagnosedPack(h))
  PROVE  Kept!Next
<1>1. /\ DiagnosedPack(h).status = "diagnosed" /\ DiagnosedPack(h).hash = h
      /\ GatePending(DiagnosedPack(h))
  BY DEF DiagnosedPack, GatePending, NoGate
<1>2. Pending(seen') = Pending(seen) \cup {<<"run", h>>}
  BY <1>1 DEF Store, Pending
<1>3. [u \in {"run"} |-> stored'] = [[u \in {"run"} |-> stored] EXCEPT !["run"] = DiagnosedPack(h)]
  BY DEF Store
<1>4. Kept!Diagnose("run", h)
  BY <1>2, <1>3, SamePacks DEF Kept!Diagnose, Pending
<1> QED
  BY <1>4 DEF Kept!Next

LEMMA StoreDecision ==
  ASSUME TypeOK, PacksInv, NEW p \in seen, NEW h, DecisionAnswer(p, h) = "accepted",
         NEW a \in Approvers, NEW verdict \in {"passed", "failed"},
         Store(RejectedPack(p, a)) \/ Store(AppliedPack(p, h, a, verdict))
  PROVE  Kept!Next
<1>1. h \in Proposals /\ p = DiagnosedPack(h) /\ <<"run", h>> \in Pending(seen)
  BY AcceptedWasOffered
<1>2. PICK d \in Outcomes(h, a) : Store(d)
  BY <1>1 DEF Outcomes
<1>3. d.status # "diagnosed"
  BY <1>1, <1>2, OutcomesAreValid
<1>4. Pending(seen') = Pending(seen)
  BY <1>2, <1>3 DEF Store, Pending
<1>5. [u \in {"run"} |-> stored'] = [[u \in {"run"} |-> stored] EXCEPT !["run"] = d]
  BY <1>2 DEF Store
<1>6. Kept!Decide("run", h, a)
  BY <1>1, <1>2, <1>4, <1>5, SamePacks DEF Kept!Decide, Pending
<1> QED
  BY <1>1, <1>6 DEF Kept!Next

LEMMA StepRecord ==
  ASSUME ReviewInv, [Next]_vars
  PROVE  [Kept!Next]_(Kept!vars)
<1>1. TypeOK /\ PacksInv /\ SubmissionInv
  BY DEF ReviewInv
<1>2. ASSUME UNCHANGED <<stored, seen>>
      PROVE  UNCHANGED Kept!vars
  BY <1>2 DEF Kept!vars
<1>3. ASSUME NEW h \in Proposals, Rediagnose(h)
      PROVE  Kept!Next
  BY <1>3, StoreDiagnosis DEF Rediagnose
<1>4. ASSUME NEW read \in seen, NEW a \in Approvers \ {Operator},
             NEW verdict \in {"passed", "failed"}, OtherDecides(read, a, verdict)
      PROVE  Kept!Next
  BY <1>1, <1>4, StoreDecision DEF OtherDecides
<1>5. ASSUME NEW d \in Submissions, Decide(d)
      PROVE  Kept!Next \/ UNCHANGED Kept!vars
  <2>1. CASE Rejected(d)
    <3>1. DecisionAnswer(FoundFor(d), sub[d].hash) = "accepted" /\ FoundFor(d) = stored
      BY <2>1 DEF Rejected, FoundFor, DecisionAnswer
    <3>2. stored \in seen
      BY <1>1, <3>1 DEF DecisionAnswer, PacksInv
    <3>3. Store(RejectedPack(stored, Operator))
      BY <2>1 DEF Rejected
    <3> QED
      BY <1>1, <3>1, <3>2, <3>3, StoreDecision, "passed" \in {"passed", "failed"}
  <2>2. ASSUME NEW verdict \in {"passed", "failed"}, Applied(d, verdict)
        PROVE  Kept!Next
    <3>1. Accepted(sub[d])
      BY <1>1, <2>2 DEF Applied, SubmissionInv
    <3>2. Store(AppliedPack(sub[d].found, sub[d].hash, Operator, verdict))
      BY <2>2 DEF Applied
    <3> QED
      BY <1>1, <3>1, <3>2, StoreDecision DEF Accepted
  <2> QED
    BY <1>2, <1>5, <2>1, <2>2
       DEF Decide, Click, DecisionRefused, Applying, DecisionFails, AnswerLost, Deliver, Drop,
           GiveUp
<1>6. ASSUME NEW l \in Loads, Visit(l)
      PROVE  UNCHANGED Kept!vars
  BY <1>2, <1>6, VisitFrame
<1>7. CASE Restart \/ UNCHANGED vars
  BY <1>2, <1>7 DEF Restart, vars
<1> QED
  BY <1>3, <1>4, <1>5, <1>6, <1>7 DEF Next

\* What the page reads is what RunRecord promises of the run, whoever decides
\* it and however late (decide_pack, trigger_run).
THEOREM ReviewImplementsRecord == Spec => ImplementsRecord
<1>1. Init => Kept!Init
  <2> SUFFICES ASSUME Init
               PROVE  Kept!Init
    OBVIOUS
  <2>1. [u \in {"run"} |-> stored] \in
          [{"run"} -> {Kept!NoPack} \cup {Kept!LegacyPack(h) : h \in Proposals}]
    BY SamePacks DEF Init
  <2>2. \A p \in seen : p.gate = NoGate
    BY DEF Init, LegacyPack, DiagnosedPack
  <2>3. Pending(seen) = {}
    BY <2>2 DEF Pending, GatePending
  <2> QED
    BY <2>1, <2>3 DEF Kept!Init, Pending
<1>2. ReviewInv /\ [Next]_vars => [Kept!Next]_(Kept!vars)
  BY StepRecord
<1>3. QED
  BY <1>1, <1>2, ReviewInvariantHolds, PTL DEF Spec, ImplementsRecord, Kept!Spec
=============================================================================
