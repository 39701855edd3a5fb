------------------------------ MODULE Workload ------------------------------
(***************************************************************************)
(* The workload loop: users run guided queries whose explain evidence is   *)
(* captured in query_log, the DBRE diagnoses captured queries and approves *)
(* the recommended index, and the seed script puts the indexes of the      *)
(* collection back to the baseline (api/workload.py, api/routes.py,        *)
(* api/server.py, controller/orchestrator.py, seed/seed_workload.py).      *)
(*                                                                         *)
(* The endpoints run in threads and the script in a process of its own:    *)
(* they interleave at every call on the database.  The gate, the ledger    *)
(* and the packs of a run are those of ApprovalFlow and not repeated here. *)
(***************************************************************************)
EXTENDS EsrDiagnosis, FiniteSets

CONSTANTS
  Requests,     \* requests to POST /workload/query
  Runs,         \* diagnosis runs of the DBRE
  Specs,        \* the specifications users send
  Fixture,      \* the source of a run of the demo fixture's query
  Scans,        \* what an execution can examine, return and cost
  SLOW_RATIO,
  SLOW_QUEUE_LIMIT

ASSUME WorkloadAssumption ==
  /\ \A m \in Scans :
       m.docs_examined \in Nat /\ m.docs_returned \in Nat /\ m.total_keys_examined \in Nat
  /\ None # "verified"
  /\ SLOW_QUEUE_LIMIT \in Nat \ {0}

VARIABLES
  catalog,      \* indexes of the target collection, without _id_
  query_log,    \* dbre_state.query_log
  req,
  run,
  script        \* seed_workload reset: where it is, what it still drops, and
                \* (history) the indexes approvals created since it began

vars == <<catalog, query_log, req, run, script>>

-----------------------------------------------------------------------------
(* The signal of a query: evidence only, and a score to rank by.           *)

AtLeastOne(n) == IF n > 1 THEN n ELSE 1
AtMost(n, m) == IF n < m THEN n ELSE m
Ratio(m) == m.docs_examined \div AtLeastOne(m.docs_returned)

\* In hundredths; the ratio is taken in whole numbers.
\* Mutation: the ratio is not capped.
Score_Uncapped(plan, m) ==
  (IF plan.blocking_sort THEN 100000000 ELSE 0) + (IF plan.collscan THEN 50000000 ELSE 0)
    + Ratio(m) * 5000 + AtMost(m.total_keys_examined, 1000000)

Score(plan, m) ==
  (IF plan.blocking_sort THEN 100000000 ELSE 0) + (IF plan.collscan THEN 50000000 ELSE 0)
    + AtMost(Ratio(m), 10000) * 5000 + AtMost(m.total_keys_examined, 1000000)

SlowSignal(plan, m) ==
  LET worst == plan.blocking_sort \/ plan.collscan IN
  [is_slow       |-> worst \/ m.docs_examined >= SLOW_RATIO * AtLeastOne(m.docs_returned),
   severity      |-> IF worst THEN "high"
                     ELSE IF m.docs_examined >= 10 * AtLeastOne(m.docs_returned) THEN "medium"
                     ELSE "low",
   score         |-> Score(plan, m),
   blocking_sort |-> plan.blocking_sort,
   collscan      |-> plan.collscan]

\* What an execution of a plan can measure: a collection scan reads no keys, an
\* index scan fetches no document without one.
Measured(plan) ==
  {m \in Scans : IF plan.collscan THEN m.total_keys_examined = 0
                                  ELSE m.docs_examined <= m.total_keys_examined}

CaptureRecord(r, spec, plan, m) ==
  [id |-> r, query |-> BuildQuery(spec), metrics |-> m, signal |-> SlowSignal(plan, m)]

NoRecord == [id |-> None]

\* The queues list_slow_queries can answer with: of equal scores any may be cut.
SlowQueries ==
  LET slow == {x \in query_log : x.signal.is_slow} IN
  {queue \in SUBSET slow :
     /\ Cardinality(queue) = AtMost(Cardinality(slow), SLOW_QUEUE_LIMIT)
     /\ \A x \in queue, y \in slow \ queue : x.signal.score >= y.signal.score}

-----------------------------------------------------------------------------
(* The presets a user can choose, and the indexes they are made for.       *)

\* A specification by its parameters, as QuerySpec takes them.
Sp(store, method, lo, hi, field, dir) ==
  [store_location |-> store, purchase_method |-> method, age_min |-> lo, age_max |-> hi,
   sort_field |-> field, sort_dir |-> dir, limit |-> 20]

TrapPresets ==
  {Sp("Denver", None, 30, 50, "saleDate", -1), Sp("Seattle", None, 25, 45, "saleDate", -1),
   Sp(None, "Online", 18, 35, "saleDate", -1), Sp("Austin", None, 40, 60, "saleDate", 1),
   Sp(None, "Phone", 55, 75, "saleDate", -1), Sp("New York", None, 30, 45, "saleDate", -1)}

HealthyPresets ==
  {Sp("Denver", None, None, None, None, -1), Sp(None, "Online", None, None, None, -1),
   Sp("London", None, None, None, None, -1)}

\* The presets name stores and methods there are.
ASSUME PresetsAreOffered ==
  /\ {"Austin", "Denver", "London", "New York", "Seattle"} \subseteq STORE_LOCATIONS
  /\ {"Online", "Phone"} \subseteq PURCHASE_METHODS

LegacyNames == {OtherName("esr_wrong_B"), OtherName("esr_right_C")}

FixtureIndexes ==
  {Index(OtherName("esr_wrong_B"),
         <<<<"storeLocation", 1>>, <<"customer.age", 1>>, <<"saleDate", -1>>>>),
   Index(OtherName("esr_right_C"),
         <<<<"storeLocation", 1>>, <<"saleDate", -1>>, <<"customer.age", 1>>>>)}

StoreEq == Index(OtherName("store_eq"), <<<<"storeLocation", 1>>>>)
MethodEq == Index(OtherName("method_eq"), <<<<"purchaseMethod", 1>>>>)
BaselineIndexes == {StoreEq, MethodEq}

NoRun == [pc |-> "idle", source |-> None, query |-> None, before |-> None, cost |-> None,
          after |-> None, after_cost |-> None, status |-> None]

Init ==
  /\ catalog \in {{}, FixtureIndexes, BaselineIndexes}
  /\ query_log = {}
  /\ req = [r \in Requests |-> [pc |-> "unsent", spec |-> None, record |-> NoRecord]]
  /\ run = [d \in Runs |-> NoRun]
  /\ script = [pc |-> "idle", todo |-> {}, raced |-> {}]

-----------------------------------------------------------------------------
(* POST /workload/query.                                                   *)

\* Mutation: the parameters are not validated.
SubmitQuery_Unvalidated(r, spec) ==
  /\ req[r].pc = "unsent"
  /\ req' = [req EXCEPT ![r].pc = "explain", ![r].spec = spec]
  /\ UNCHANGED <<catalog, query_log, run, script>>

SubmitQuery(r, spec) ==
  /\ req[r].pc = "unsent"
  /\ req' = [req EXCEPT ![r].pc = IF ValidSpec(spec) THEN "explain" ELSE "refused",
                        ![r].spec = spec]
  /\ UNCHANGED <<catalog, query_log, run, script>>

ExplainQuery(r) ==
  /\ req[r].pc = "explain"
  /\ \E plan \in NaturalPlans(BuildQuery(req[r].spec), catalog) : \E m \in Measured(plan) :
       req' = [req EXCEPT ![r].pc = "insert",
                          ![r].record = CaptureRecord(r, req[r].spec, plan, m)]
  /\ UNCHANGED <<catalog, query_log, run, script>>

InsertRecord(r) ==
  /\ req[r].pc = "insert"
  /\ query_log' = query_log \cup {req[r].record}
  /\ req' = [req EXCEPT ![r].pc = "preview"]
  /\ UNCHANGED <<catalog, run, script>>

\* The rows shown to the user, and the answer.
Preview(r) ==
  /\ req[r].pc = "preview"
  /\ req' = [req EXCEPT ![r].pc = "answered"]
  /\ UNCHANGED <<catalog, query_log, run, script>>

\* A database call raises, by maxTimeMS for example: the answer is 500.
QueryRaises(r) ==
  /\ req[r].pc \in {"explain", "insert", "preview"}
  /\ req' = [req EXCEPT ![r].pc = "failed"]
  /\ UNCHANGED <<catalog, query_log, run, script>>

-----------------------------------------------------------------------------
(* POST /run and an approval of its pack.                                  *)

Diagnosed(source, q, plan, m) ==
  [NoRun EXCEPT !.pc = "pending", !.source = source, !.query = q, !.before = plan, !.cost = m]

Recommended(d) == EsrIndex(run[d].query)

\* A captured query, explained without a hint.
DiagnoseCaptured(d, x) ==
  /\ run[d] = NoRun
  /\ x \in query_log
  /\ IF Diagnosable(x.query)
     THEN \E plan \in NaturalPlans(x.query, catalog) : \E m \in Measured(plan) :
            run' = [run EXCEPT ![d] = Diagnosed(x.id, x.query, plan, m)]
     ELSE run' = [run EXCEPT ![d].pc = "refused", ![d].source = x.id]
  /\ UNCHANGED <<catalog, query_log, req, script>>

FixtureQuery ==
  [filter |-> [f \in {"storeLocation", "customer.age"} |->
                 IF f = "storeLocation" THEN Equals("Denver")
                 ELSE Within([op \in {"$gte", "$lte"} |-> IF op = "$gte" THEN 30 ELSE 50])],
   sort   |-> <<<<"saleDate", -1>>>>,
   limit  |-> 20]

\* Without a captured query: the fixture, explained with the hint esr_wrong_B.
DiagnoseFixture(d) ==
  LET plans == PlansByName(FixtureQuery, catalog, OtherName("esr_wrong_B")) IN
  /\ run[d] = NoRun
  /\ IF plans = {}
     THEN run' = [run EXCEPT ![d].pc = "failed", ![d].source = Fixture]
     ELSE \E plan \in plans : \E m \in Measured(plan) :
            run' = [run EXCEPT ![d] = Diagnosed(Fixture, FixtureQuery, plan, m)]
  /\ UNCHANGED <<catalog, query_log, req, script>>

\* apply_index: a conflict is absorbed.
Apply(d) ==
  LET index == Index(RecommendedName(Recommended(d)), Recommended(d)) IN
  /\ run[d].pc = "pending"
  /\ catalog' = IF Conflicts(catalog, index) THEN catalog ELSE catalog \cup {index}
  /\ run' = [run EXCEPT ![d].pc = "verify"]
  /\ script' = [script EXCEPT !.raced = IF script.pc = "idle" THEN @ ELSE @ \cup (catalog' \ catalog)]
  /\ UNCHANGED <<query_log, req>>

Outcome(d, plan, m) ==
  [run[d] EXCEPT !.pc = "done", !.after = plan, !.after_cost = m,
     !.status = IF Verified(run[d].cost, m, plan, Recommended(d)) THEN "verified"
                                                                 ELSE "approved"]

\* Mutation: the after-explain is not hinted.
Verify_NoHint(d) ==
  /\ run[d].pc = "verify"
  /\ \E plan \in NaturalPlans(run[d].query, catalog) : \E m \in Measured(plan) :
       run' = [run EXCEPT ![d] = Outcome(d, plan, m)]
  /\ UNCHANGED <<catalog, query_log, req, script>>

\* The after-explain hints the key pattern, and raises when no index has it.
Verify(d) ==
  LET plans == PlansByKey(run[d].query, catalog, KeyPattern(Recommended(d))) IN
  /\ run[d].pc = "verify"
  /\ IF plans = {}
     THEN run' = [run EXCEPT ![d].pc = "failed"]
     ELSE \E plan \in plans : \E m \in Measured(plan) :
            run' = [run EXCEPT ![d] = Outcome(d, plan, m)]
  /\ UNCHANGED <<catalog, query_log, req, script>>

-----------------------------------------------------------------------------
(* seed_workload reset, once, at any time.                                 *)

\* Mutation: only recommended indexes are dropped.
ToDrop_Recommended == {x \in catalog : x.name.prefix = "gcrah_rec_"}

ToDrop == {x \in catalog : x.name \in LegacyNames \/ x.name.prefix = "gcrah_rec_"}

ListIndexes ==
  /\ script.pc = "idle"
  /\ script' = [pc |-> "drop", todo |-> ToDrop, raced |-> {}]
  /\ UNCHANGED <<catalog, query_log, req, run>>

DropIndex ==
  /\ script.pc = "drop"
  /\ IF script.todo = {}
     THEN script' = [script EXCEPT !.pc = "store_eq"] /\ UNCHANGED catalog
     ELSE \E x \in script.todo :
            /\ catalog' = catalog \ {x}
            /\ script' = [script EXCEPT !.todo = @ \ {x}]
  /\ UNCHANGED <<query_log, req, run>>

\* create_index of the baseline; here a conflict ends the script.
EnsureBaseline ==
  LET index == IF script.pc = "store_eq" THEN StoreEq ELSE MethodEq
      next  == IF script.pc = "store_eq" THEN "method_eq" ELSE "done"
  IN /\ script.pc \in {"store_eq", "method_eq"}
     /\ IF Conflicts(catalog, index)
        THEN script' = [script EXCEPT !.pc = "aborted"] /\ UNCHANGED catalog
        ELSE script' = [script EXCEPT !.pc = next] /\ catalog' = catalog \cup {index}
     /\ UNCHANGED <<query_log, req, run>>

-----------------------------------------------------------------------------
Next ==
  \/ \E r \in Requests :
       \/ \E spec \in Specs : SubmitQuery(r, spec)
       \/ ExplainQuery(r) \/ InsertRecord(r) \/ Preview(r) \/ QueryRaises(r)
  \/ \E d \in Runs :
       \/ \E x \in query_log : DiagnoseCaptured(d, x)
       \/ DiagnoseFixture(d) \/ Apply(d) \/ Verify(d)
  \/ ListIndexes \/ DropIndex \/ EnsureBaseline

Spec == Init /\ [][Next]_vars

-----------------------------------------------------------------------------
(* Properties.                                                             *)

Queries == {BuildQuery(s) : s \in {t \in Specs : ValidSpec(t)}} \cup {FixtureQuery}

KnownIndexes ==
  FixtureIndexes \cup BaselineIndexes
    \cup {Index(RecommendedName(EsrIndex(q)), EsrIndex(q)) : q \in Queries}

Plans == {PlanOf(x, q) : x \in KnownIndexes \cup {NoIndex}, q \in Queries}

Records ==
  {[id |-> r, query |-> q, metrics |-> m, signal |-> SlowSignal(plan, m)] :
     r \in Requests, q \in Queries, m \in Scans, plan \in Plans}

RequestStates ==
  [pc : {"unsent", "refused", "explain", "insert", "preview", "answered", "failed"},
   spec : Specs \cup {None}, record : Records \cup {NoRecord}]

RunStates ==
  [pc : {"idle", "refused", "pending", "verify", "done", "failed"},
   source : Requests \cup {Fixture, None}, query : Queries \cup {None},
   before : Plans \cup {None}, cost : Scans \cup {None},
   after : Plans \cup {None}, after_cost : Scans \cup {None},
   status : {"verified", "approved", None}]

\* The type invariant.  Every index of the collection is the fixture's, the
\* baseline's, or the one recommended for a query a user could have built.
TypeOK ==
  /\ catalog \subseteq KnownIndexes
  /\ query_log \subseteq Records
  /\ req \in [Requests -> RequestStates]
  /\ run \in [Runs -> RunStates]
  /\ script \in [pc : {"idle", "drop", "store_eq", "method_eq", "done", "aborted"},
                 todo : SUBSET KnownIndexes, raced : SUBSET KnownIndexes]

\* What the guided builder wrote to query_log, the check in front of the
\* diagnosis accepts: the two are written apart (build_query, assert_safe_query).
LoggedIsSafe == \A x \in query_log : SafeQuery(x.query)

\* A query that was measured on its recommended index never sorts in memory,
\* whatever was created, absorbed or dropped since it was diagnosed
\* (_esr_index, apply_and_verify).
NoSortAfterFix == \A d \in Runs : run[d].after # None => ~run[d].after.blocking_sort

\* A VERIFIED run was measured on an index of the recommended pattern, under
\* whichever name, and something got better (_verification_checks).
VerifiedOnItsIndex ==
  \A d \in Runs : run[d].status = "verified" =>
    /\ run[d].after.index.key = KeyPattern(Recommended(d))
    /\ MetricImproved(run[d].cost, run[d].after_cost)

SameClass(q1, q2) ==
  /\ EqualityFields(q1) = EqualityFields(q2)
  /\ q1.sort # <<>> /\ q2.sort # <<>> /\ q1.sort[1][1] = q2.sort[1][1]

\* "An approved fix removes it for a whole store/method class": while the index
\* of a measured run is there, every query of its class, whatever its range,
\* values and direction, has a plan that does not sort (seed_workload.py).
FixServesItsClass ==
  \A d \in Runs :
    run[d].pc = "done" /\ (\E x \in catalog : x.key = KeyPattern(Recommended(d))) =>
      \A q \in Queries : SameClass(q, run[d].query) =>
        \E plan \in NaturalPlans(q, catalog) : ~plan.blocking_sort

\* An execution that came upon anything to sort.
Examined(x) == x.signal.collscan \/ x.metrics.total_keys_examined > 0

\* A captured query that sorted in memory never loses its place in the queue, or
\* its rank, to one that did not: the queue is cut off at its limit, and neither
\* the scan ratio nor the keys read may outweigh a sort (slow_signal,
\* list_slow_queries).
SortsRankFirst ==
  \A queue \in SlowQueries : \A x \in query_log, y \in queue :
    x.signal.blocking_sort /\ Examined(x) /\ ~y.signal.blocking_sort =>
      x \in queue /\ x.signal.score > y.signal.score

\* When the reset ends, the trap presets are traps again and the healthy ones do
\* not sort, whatever indexes there were before, but for the indexes approvals
\* created while it was listing, dropping and creating (reset_baseline,
\* verify_presets).
ResetRestoresTraps ==
  [][script.pc # "done" /\ script'.pc = "done" =>
       \A p \in TrapPresets \cup HealthyPresets :
         \A plan \in NaturalPlans(BuildQuery(p), catalog' \ script'.raced) :
           p \in TrapPresets <=> (plan.blocking_sort \/ plan.collscan)]_vars

-----------------------------------------------------------------------------
(* What is documented and not so.                                          *)

\* "verify uses the recommended index even if it already existed under another
\* name" (orchestrator.py): a measurement that shows the fix verifies the run.
EquivalentIndexIsEvidenced ==
  \A d \in Runs :
    /\ run[d].pc = "done"
    /\ ~run[d].after.blocking_sort
    /\ MetricImproved(run[d].cost, run[d].after_cost)
    => run[d].status = "verified"
=============================================================================
