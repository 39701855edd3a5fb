--------------------------- MODULE ReviewInvariant ---------------------------
(***************************************************************************)
(* The inductive invariant behind the safety properties of RunReview.      *)
(***************************************************************************)
EXTENDS RunReview

\* Every pack the run had passes the schema and, when undecided, is as its
\* diagnosis made it; a run that has a pack keeps one.
PacksInv ==
  /\ \A p \in seen : Valid(p)
  /\ \A p \in seen : p.status = "diagnosed" => p \in {DiagnosedPack(p.hash), LegacyPack(p.hash)}
  /\ stored # NoPack => stored \in seen
  /\ seen # {} => stored # NoPack

\* A page shows a pack the run had, or the bundled example.
Genuine(source, shown) == IF source = "live" THEN shown \in seen ELSE shown = ExamplePack

\* What the buttons were enabled for.
Reviewable(p) ==
  /\ p.status = "diagnosed"
  /\ p.decision = NoDecision
  /\ p.gate = NoGate \/ p.gate.state = "pending_approval"

Answered == {"not_found", "already_decided", "stale_evidence_hash", "approval_gate"}

\* The endpoint refused the submission, and for the pack that it found.
Refused(s) ==
  /\ s.answer = DecisionAnswer(s.found, s.hash)
  /\ s.hash = s.shown.hash
  /\ Reviewable(s.shown)
  /\ s.found = NoPack <=> s.source = "fallback"
  /\ s.result = NoPack

\* The endpoint accepted it for a pack that the run had.
Accepted(s) ==
  /\ s.source = "live"
  /\ s.found \in seen
  /\ DecisionAnswer(s.found, s.hash) = "accepted"

PageInv ==
  /\ page.source # "none" => Genuine(page.source, page.shown)
  /\ page.busy # None => /\ page.source = sub[page.busy].source
                         /\ sub[page.busy].pc \in {"sent", "applying", "answered"}
  /\ page.error \in {"not_found", "stale_evidence_hash"} =>
       /\ page.told.answer \in Answered
       /\ page.error = ErrorOf(page.told.answer)
       /\ Refused(page.told)

SubmissionInv ==
  \A d \in Submissions :
    LET s == sub[d] IN
    /\ s.pc \in {"sent", "applying", "answered"} =>
         /\ Genuine(s.source, s.shown)
         /\ Reviewable(s.shown)
         /\ s.hash = s.shown.hash
    /\ s.answer = "none" <=> s.pc # "answered"
    /\ s.answer # "accepted" => s.result = NoPack
    /\ s.pc = "applying" \/ s.answer = "accepted" => Accepted(s)
    /\ s.answer = "accepted" => s.result \in seen
    /\ s.answer \in Answered => Refused(s)

LoadInv ==
  /\ \A l \in Loads :
       /\ load[l].pc \in {"loaded", "reading", "answered"} => load[l].pack \in seen
       /\ load[l].pc \in {"loaded", "reading"} =>
            load[l].voyage = "none" /\ load[l].answer = NoResponse
       /\ load[l].pc = "reading" => load[l].read \in seen
  /\ cache # NoResponse => cache.status = "ok" /\ cache.about \in seen
  /\ retrieved => cache # NoResponse

ReviewInv ==
  /\ TypeOK
  /\ PacksInv
  /\ PageInv
  /\ SubmissionInv
  /\ LoadInv
  /\ FreshUnlessVoyageFails
=============================================================================
