------------------------------ MODULE RunReview ------------------------------
(***************************************************************************)
(* One run as its operator reviews it: the dashboard's run page, the       *)
(* decision client and its same-origin proxy, the decision endpoint, and   *)
(* Sift Memory, whose read-only guidance the page shows beside the pack.   *)
(*                                                                         *)
(* The page is rendered from a pack that was read once and is never        *)
(* refreshed; meanwhile the run is diagnosed again and other operators     *)
(* decide it.  Without an answer of the API the page shows a bundled       *)
(* example, whose buttons are as live as those of a real pack.  Requests   *)
(* and their answers are lost on the way, and the API instance restarts.   *)
(***************************************************************************)
EXTENDS Naturals, FiniteSets, EvidencePack

CONSTANTS
  ExampleHash,   \* the proposal of the bundled example
  Operator,      \* the approver behind this page
  Submissions,   \* decisions sent from the page
  Loads,         \* loads of the page
  MaxPacks       \* bound: packs the run had when others still change it

ASSUME ReviewAssumption ==
  /\ ExampleHash \in Proposals
  /\ Operator \in Approvers
  /\ None \notin Submissions \cup Loads
  /\ MaxPacks \in Nat

ExamplePack == DiagnosedPack(ExampleHash)

-----------------------------------------------------------------------------
VARIABLES
  stored,    \* the pack of the run in the store
  seen,      \* history: every pack the run ever had
  page,      \* what the page shows
  sub,       \* each submission, from its click to its answer
  load,      \* each load of the page, with the lookup in Sift Memory it asks for
  config,    \* how Sift Memory is configured
  cache,     \* _VOYAGE_CACHE of the API instance, at this run
  retrieved  \* history: a lookup of this instance got guidance from Voyage

vars == <<stored, seen, page, sub, load, config, cache, retrieved>>

\* What a lookup answers: whom the guidance is about is the pack that the query
\* was built from; "ok" is guidance retrieved by Voyage, "fallback" local guidance.
Response == [status : {"unconfigured", "ok", "empty", "fallback"}, about : Pack]
NoResponse == [status |-> "null", about |-> NoPack]

Submission == [pc     : {"unsent", "sent", "applying", "answered", "closed"},
               kind   : {"approve", "reject"},
               source : {"live", "fallback"},       \* of the page it was clicked on
               shown  : Pack \cup {NoPack},
               hash   : Proposals \cup {None},
               found  : Pack \cup {NoPack},         \* the pack the endpoint read
               answer : {"none", "accepted", "not_found", "already_decided",
                         "stale_evidence_hash", "approval_gate", "error"},
               result : Pack \cup {NoPack}]
Unsent == [pc |-> "unsent", kind |-> "approve", source |-> "live", shown |-> NoPack,
           hash |-> None, found |-> NoPack, answer |-> "none", result |-> NoPack]

\* The errors of submitDecision; "unavailable" stands for no_api, network and server.
Errors == {"none", "stale_evidence_hash", "not_found", "unavailable"}

Page == [source  : {"none", "live", "fallback"},
         shown   : Pack \cup {NoPack},
         busy    : Submissions \cup {None},   \* the submission it waits for
         error   : Errors,
         told    : Submission,                \* history: the one the error is about
         loading : Loads \cup {None}]         \* the load it waits for
Blank == [source |-> "none", shown |-> NoPack, busy |-> None, error |-> "none", told |-> Unsent,
          loading |-> None]

Load == [pc     : {"idle", "loaded", "reading", "answered", "closed"},
         pack   : Pack \cup {NoPack},                \* what loadPack returned
         read   : Pack \cup {NoPack},                \* what the memory handler read
         voyage : {"none", "guidance", "nothing", "fails", "malformed"},
         answer : Response \cup {NoResponse}]
Idle == [pc |-> "idle", pack |-> NoPack, read |-> NoPack, voyage |-> "none",
         answer |-> NoResponse]
Closed == [Idle EXCEPT !.pc = "closed"]

-----------------------------------------------------------------------------
Init ==
  /\ stored \in {NoPack} \cup {LegacyPack(h) : h \in Proposals \ {ExampleHash}}
  /\ seen = {stored} \ {NoPack}
  /\ page = Blank
  /\ sub = [d \in Submissions |-> Unsent]
  /\ load = [l \in Loads |-> Idle]
  /\ config \in {"unconfigured", "no_documents", "voyage"}
  /\ cache = NoResponse
  /\ retrieved = FALSE

Store(p) ==
  /\ stored' = p
  /\ seen' = seen \cup {p}

MayChange == Cardinality(seen) < MaxPacks

\* POST /run with the same run id.
Rediagnose(h) ==
  /\ MayChange
  /\ h # ExampleHash
  /\ Store(DiagnosedPack(h))
  /\ UNCHANGED <<page, sub, load, config, cache, retrieved>>

\* The request of another operator stores its decision, on a pack it read when
\* that was pending: the run may have changed since.
OtherDecides(read, approver, verdict) ==
  /\ MayChange
  /\ DecisionAnswer(read, read.hash) = "accepted"
  /\ \/ Store(RejectedPack(read, approver))
     \/ Store(AppliedPack(read, read.hash, approver, verdict))
  /\ UNCHANGED <<page, sub, load, config, cache, retrieved>>

-----------------------------------------------------------------------------
(* Loading the page: loadPack, then loadSiftMemory, then the page.         *)

\* loadPack gets the pack of the run.
LoadPack(l) ==
  /\ load[l].pc = "idle"
  /\ stored # NoPack
  /\ load' = [load EXCEPT ![l] = [Idle EXCEPT !.pc = "loaded", !.pack = stored]]
  /\ page' = [page EXCEPT !.loading = l]
  /\ UNCHANGED <<stored, seen, sub, config, cache, retrieved>>

\* No such run, or no answer: the bundled example, without memory.
LoadFallback(l) ==
  /\ load[l].pc = "idle"
  /\ load' = [load EXCEPT ![l] = Closed]
  /\ page' = [Blank EXCEPT !.source = "fallback", !.shown = ExamplePack]
  /\ UNCHANGED <<stored, seen, sub, config, cache, retrieved>>

\* GET /packs/{run_id}/memory reads the pack again and starts its lookup.
LookupReads(l) ==
  /\ load[l].pc = "loaded"
  /\ load' = [load EXCEPT ![l].pc = "reading", ![l].read = stored]
  /\ UNCHANGED <<stored, seen, page, sub, config, cache, retrieved>>

\* No session, a refusal or a lost connection before the lookup.
LookupRefused(l) ==
  /\ load[l].pc = "loaded"
  /\ load' = [load EXCEPT ![l].pc = "answered"]
  /\ UNCHANGED <<stored, seen, page, sub, config, cache, retrieved>>

\* Mutation: what was cached once is served from then on.
VoyageAnswer_CacheFirst(read, voyage) ==
  IF cache # NoResponse THEN cache
  ELSE CASE voyage = "guidance" -> [status |-> "ok", about |-> read]
         [] voyage = "nothing" -> [status |-> "empty", about |-> read]
         [] voyage = "malformed" -> NoResponse
         [] voyage = "fails" -> [status |-> "fallback", about |-> read]

\* Mutation: the cache holds for the pack it was filled with, not for the run.
VoyageAnswer_PerPack(read, voyage) ==
  CASE voyage = "guidance" -> [status |-> "ok", about |-> read]
    [] voyage = "nothing" -> [status |-> "empty", about |-> read]
    [] voyage = "malformed" -> NoResponse
    [] voyage = "fails" -> IF cache.about = read THEN cache
                                                 ELSE [status |-> "fallback", about |-> read]

\* Voyage's guidance about the pack; when Voyage fails, what it said last time,
\* else local guidance.  An answer it should not give (a row that is not a
\* number, an embedding too many) is an error nobody catches.
VoyageAnswer(read, voyage) ==
  CASE voyage = "guidance" -> [status |-> "ok", about |-> read]
    [] voyage = "nothing" -> [status |-> "empty", about |-> read]
    [] voyage = "malformed" -> NoResponse
    [] voyage = "fails" -> IF cache # NoResponse THEN cache
                                                 ELSE [status |-> "fallback", about |-> read]

LookupWithout(l, status) ==
  /\ load[l].pc = "reading"
  /\ load' = [load EXCEPT ![l].pc = "answered",
                          ![l].answer = [status |-> status, about |-> load[l].read]]
  /\ UNCHANGED <<stored, seen, page, sub, config, cache, retrieved>>

\* VoyageMemoryService.lookup: only guidance is cached.
LookupVoyage(l, voyage) ==
  LET answer == VoyageAnswer(load[l].read, voyage) IN
  /\ load[l].pc = "reading"
  /\ load' = [load EXCEPT ![l].pc = "answered", ![l].voyage = voyage, ![l].answer = answer]
  /\ cache' = IF voyage = "guidance" THEN answer ELSE cache
  /\ retrieved' = (retrieved \/ voyage = "guidance")
  /\ UNCHANGED <<stored, seen, page, sub, config>>

Lookup(l) ==
  \/ config = "unconfigured" /\ LookupWithout(l, "unconfigured")
  \/ config = "no_documents" /\ LookupWithout(l, "empty")
  \/ config = "voyage" /\ \E voyage \in {"guidance", "nothing", "fails", "malformed"} :
                            LookupVoyage(l, voyage)

\* The new page is mounted; a load that a later one overtook is never shown.
Render(l) ==
  /\ load[l].pc = "answered"
  /\ page.loading = l
  /\ load' = [load EXCEPT ![l] = Closed]
  /\ page' = [Blank EXCEPT !.source = "live", !.shown = load[l].pack]
  /\ UNCHANGED <<stored, seen, sub, config, cache, retrieved>>

-----------------------------------------------------------------------------
(* Deciding.                                                               *)

\* ApprovalGatePanel's buttons are enabled; a pack without a gate counts as
\* pending.
CanDecide ==
  /\ page.source # "none"
  /\ page.busy = None
  /\ page.shown.status = "diagnosed"
  /\ page.shown.gate = NoGate \/ page.shown.gate.state = "pending_approval"

\* The hash the panel displays and submits.
HashOf(p) ==
  IF p.gate # NoGate /\ p.gate.required # None THEN p.gate.required ELSE p.hash

Click(d, kind) ==
  /\ sub[d] = Unsent
  /\ CanDecide
  /\ sub' = [sub EXCEPT ![d] = [Unsent EXCEPT !.pc = "sent", !.kind = kind,
                                              !.source = page.source, !.shown = page.shown,
                                              !.hash = HashOf(page.shown)]]
  /\ page' = [page EXCEPT !.busy = d, !.error = "none", !.told = Unsent]
  /\ UNCHANGED <<stored, seen, load, config, cache, retrieved>>

\* The endpoint looks for the run the page shows; the example is no run.
FoundFor(d) == IF sub[d].source = "live" THEN stored ELSE NoPack

\* POST /packs/{run_id}/decision, refused by the checks of the endpoint.
DecisionRefused(d) ==
  LET answer == DecisionAnswer(FoundFor(d), sub[d].hash) IN
  /\ sub[d].pc = "sent"
  /\ answer # "accepted"
  /\ sub' = [sub EXCEPT ![d].pc = "answered", ![d].found = FoundFor(d), ![d].answer = answer]
  /\ UNCHANGED <<stored, seen, page, load, config, cache, retrieved>>

Rejected(d) ==
  LET result == RejectedPack(stored, Operator) IN
  /\ sub[d].pc = "sent"
  /\ sub[d].kind = "reject"
  /\ DecisionAnswer(FoundFor(d), sub[d].hash) = "accepted"
  /\ Store(result)
  /\ sub' = [sub EXCEPT ![d].pc = "answered", ![d].found = stored, ![d].answer = "accepted",
                        ![d].result = result]
  /\ UNCHANGED <<page, load, config, cache, retrieved>>

\* An accepted approval awaits the index and the after-explain.
Applying(d) ==
  /\ sub[d].pc = "sent"
  /\ sub[d].kind = "approve"
  /\ DecisionAnswer(FoundFor(d), sub[d].hash) = "accepted"
  /\ sub' = [sub EXCEPT ![d].pc = "applying", ![d].found = stored]
  /\ UNCHANGED <<stored, seen, page, load, config, cache, retrieved>>

Applied(d, verdict) ==
  LET result == AppliedPack(sub[d].found, sub[d].hash, Operator, verdict) IN
  /\ sub[d].pc = "applying"
  /\ Store(result)
  /\ sub' = [sub EXCEPT ![d].pc = "answered", ![d].answer = "accepted", ![d].result = result]
  /\ UNCHANGED <<page, load, config, cache, retrieved>>

\* The proxy has no API to ask, the token or the session is refused, or the
\* endpoint raises.
DecisionFails(d) ==
  /\ sub[d].pc \in {"sent", "applying"}
  /\ sub' = [sub EXCEPT ![d].pc = "answered", ![d].answer = "error"]
  /\ UNCHANGED <<stored, seen, page, load, config, cache, retrieved>>

\* The answer is lost between the API and the proxy, or the route's second save
\* raises: the operator gets an error although the run may be decided.
AnswerLost(d) ==
  /\ sub[d].pc = "answered"
  /\ sub' = [sub EXCEPT ![d].answer = "error", ![d].result = NoPack]
  /\ UNCHANGED <<stored, seen, page, load, config, cache, retrieved>>

\* Mutation: two of the 409 answers are taken for 404.
ErrorOf_Swapped(answer) ==
  CASE answer \in {"already_decided", "approval_gate"} -> "not_found"
    [] answer = "stale_evidence_hash" -> "stale_evidence_hash"
    [] answer = "not_found" -> "not_found"
    [] answer = "error" -> "unavailable"

\* submitDecision maps the status code: three answers share 409.
ErrorOf(answer) ==
  CASE answer \in {"already_decided", "stale_evidence_hash", "approval_gate"} ->
         "stale_evidence_hash"
    [] answer = "not_found" -> "not_found"
    [] answer = "error" -> "unavailable"

\* Mutation: the page asserts the outcome itself.
Deliver_Optimistic(d) ==
  /\ sub[d].pc = "answered"
  /\ page.busy = d
  /\ sub' = [sub EXCEPT ![d] = [Unsent EXCEPT !.pc = "closed"]]
  /\ page' = IF sub[d].answer = "accepted"
             THEN [page EXCEPT !.busy = None,
                               !.shown = IF sub[d].kind = "reject" THEN sub[d].result
                                         ELSE AppliedPack(sub[d].shown, sub[d].hash, Operator, "passed")]
             ELSE [page EXCEPT !.busy = None, !.error = ErrorOf(sub[d].answer), !.told = sub[d]]
  /\ UNCHANGED <<stored, seen, load, config, cache, retrieved>>

\* The answer reaches the page that waits for it: it shows the pack that came
\* back, or the error.
Deliver(d) ==
  /\ sub[d].pc = "answered"
  /\ page.busy = d
  /\ sub' = [sub EXCEPT ![d] = [Unsent EXCEPT !.pc = "closed"]]
  /\ page' = IF sub[d].answer = "accepted"
             THEN [page EXCEPT !.busy = None, !.shown = sub[d].result]
             ELSE [page EXCEPT !.busy = None, !.error = ErrorOf(sub[d].answer), !.told = sub[d]]
  /\ UNCHANGED <<stored, seen, load, config, cache, retrieved>>

\* Nobody waits for the answer any more.
Drop(d) ==
  /\ sub[d].pc = "answered"
  /\ page.busy # d
  /\ sub' = [sub EXCEPT ![d] = [Unsent EXCEPT !.pc = "closed"]]
  /\ UNCHANGED <<stored, seen, page, load, config, cache, retrieved>>

\* The connection is lost; whatever the API does for the submission goes on.
GiveUp(d) ==
  /\ page.busy = d
  /\ page' = [page EXCEPT !.busy = None, !.error = "unavailable"]
  /\ UNCHANGED <<stored, seen, sub, load, config, cache, retrieved>>

\* The API instance restarts: handlers and cache are gone.
Restart ==
  /\ cache' = NoResponse
  /\ retrieved' = FALSE
  /\ sub' = [d \in Submissions |->
               IF sub[d].pc = "applying" THEN [sub[d] EXCEPT !.pc = "answered", !.answer = "error"]
                                         ELSE sub[d]]
  /\ load' = [l \in Loads |->
                IF load[l].pc = "reading" THEN [load[l] EXCEPT !.pc = "answered"] ELSE load[l]]
  /\ UNCHANGED <<stored, seen, page, config>>

Visit(l) ==
  \/ LoadPack(l)
  \/ LoadFallback(l)
  \/ LookupReads(l)
  \/ LookupRefused(l)
  \/ Lookup(l)
  \/ Render(l)

Decide(d) ==
  \/ \E kind \in {"approve", "reject"} : Click(d, kind)
  \/ DecisionRefused(d)
  \/ Rejected(d)
  \/ Applying(d)
  \/ \E verdict \in {"passed", "failed"} : Applied(d, verdict)
  \/ DecisionFails(d)
  \/ AnswerLost(d)
  \/ Deliver(d)
  \/ Drop(d)
  \/ GiveUp(d)

Next ==
  \/ \E h \in Proposals : Rediagnose(h)
  \/ \E read \in seen, approver \in Approvers \ {Operator}, verdict \in {"passed", "failed"} :
       OtherDecides(read, approver, verdict)
  \/ \E l \in Loads : Visit(l)
  \/ \E d \in Submissions : Decide(d)
  \/ Restart

Spec == Init /\ [][Next]_vars

-----------------------------------------------------------------------------
(* Properties.                                                             *)

\* The type invariant of the review.
TypeOK ==
  /\ stored \in Pack \cup {NoPack}
  /\ seen \subseteq Pack
  /\ page \in Page
  /\ sub \in [Submissions -> Submission]
  /\ load \in [Loads -> Load]
  /\ config \in {"unconfigured", "no_documents", "voyage"}
  /\ cache \in Response \cup {NoResponse}
  /\ retrieved \in BOOLEAN

\* "The dashboard never asserts a verified result on the client": a live page,
\* however late or overtaken the answers it gets, shows a pack that the run
\* really had (AgentRunView, ApprovalGatePanel.decide).
NeverAsserted == page.source = "live" => page.shown \in seen

\* A decision is accepted for exactly the evidence the operator was looking at,
\* whatever the run became since the page was loaded: the pack that is decided
\* binds the proposal that was on the page, was undecided, and was no example
\* (ApprovalGatePanel, decide_pack).
SignedWhatWasShown ==
  \A d \in Submissions :
    sub[d].pc = "applying" \/ sub[d].answer = "accepted" =>
      /\ sub[d].source = "live"
      /\ sub[d].found.proposal = sub[d].shown.proposal
      /\ ~AlreadyDecided(sub[d].found)
      /\ sub[d].shown \in seen

\* A refusal that is shown has a cause: the run is unknown exactly for the bundled
\* example, and the operator of a pack that offers a decision is asked to review
\* again only if the run moved on behind the page, to other evidence or to a
\* decision (submitDecision, decide_pack).
RefusalHasCause ==
  /\ page.error = "not_found" => page.told.source = "fallback"
  /\ page.error = "stale_evidence_hash" =>
       /\ page.told.source = "live"
       /\ GatePending(page.told.shown) => page.told.found # page.told.shown

\* A lookup answers about another pack than the one it read only when Voyage
\* failed it, and then with guidance Voyage gave about an earlier state of this
\* run: never about an example, never another run's (VoyageMemoryService.lookup).
FreshUnlessVoyageFails ==
  \A l \in Loads :
    LET a == load[l].answer IN
    a # NoResponse =>
      /\ a.about \in seen
      /\ a.about # load[l].read => load[l].voyage = "fails" /\ a.status = "ok"

\* "A transient 429 returns this real cached result instead of degraded local
\* guidance": once an instance has got guidance for the run, no lookup that
\* Voyage fails is answered with less (memory.py).
GuidanceIsKept ==
  [][\A l \in Loads :
       load[l].pc = "reading" /\ load'[l].pc = "answered" /\ load'[l].voyage = "fails" /\ retrieved
         => load'[l].answer.status = "ok"]_vars

\* What the page sees of its run is what RunRecord promises: the operator's own
\* decisions, however late, and everybody else's are decisions on a diagnosis
\* that was offered (decide_pack, trigger_run).
Kept == INSTANCE RunRecord WITH
  RunIds <- {"run"},
  pack <- [u \in {"run"} |-> stored],
  offered <- {<<"run", p.hash>> : p \in {q \in seen : q.status = "diagnosed" /\ GatePending(q)}}

ImplementsRecord == Kept!Spec
=============================================================================
