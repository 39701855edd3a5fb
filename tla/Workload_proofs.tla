-------------------------- MODULE Workload_proofs ---------------------------
(***************************************************************************)
(* The safety of the workload loop for any number of requests and runs,    *)
(* any specifications and any measurements: WorkloadInv is inductive, and  *)
(* what follows from it.                                                   *)
(***************************************************************************)
EXTENDS WorkloadInvariant, EsrDiagnosis_proofs

-----------------------------------------------------------------------------
(* What the operators return.                                              *)

LEMMA QueriesSortOnce ==
  ASSUME NEW q \in Queries
  PROVE  OneSort(q)
<1>1. CASE q = FixtureQuery
  <2>1. q.sort = <<<<"saleDate", -1>>>>
    BY <1>1 DEF FixtureQuery
  <2> QED
    BY <2>1 DEF OneSort, SORT_FIELDS
<1>2. CASE q # FixtureQuery
  <2>1. PICK spec \in Specs : ValidSpec(spec) /\ q = BuildQuery(spec)
    BY <1>2 DEF Queries
  <2> QED
    BY <2>1, BuiltQueryIsSafe
<1> QED
  BY <1>1, <1>2

LEMMA NaturalPlansKnown ==
  ASSUME NEW q \in Queries, catalog \subseteq KnownIndexes
  PROVE  NaturalPlans(q, catalog) \subseteq Plans
BY DEF NaturalPlans, Plans

\* An index that supplies the order does away with the sort.
LEMMA NoSortWhenSupplied ==
  ASSUME NEW q, NEW x, SuppliesOrder(x.key, q)
  PROVE  ~PlanOf(x, q).blocking_sort
<1>1. CASE x # NoIndex
  BY <1>1 DEF PlanOf
<1>2. CASE x = NoIndex
  <2>1. DOMAIN x.key.dir = {}
    <3> DEFINE none == <<>>
    <3>1. DOMAIN none = {}
      OBVIOUS
    <3>2. x.key = KeyPattern(none)
      BY <1>2 DEF NoIndex
    <3> HIDE DEF none
    <3>3. DOMAIN KeyPattern(none).dir = {none[i][1] : i \in DOMAIN none}
      BY DEF KeyPattern
    <3> QED
      BY <3>1, <3>2, <3>3
  <2>2. q.sort = <<>>
    BY <2>1 DEF SuppliesOrder
  <2> QED
    BY <1>2, <2>2 DEF PlanOf
<1> QED
  BY <1>1, <1>2

\* What an execution measures and captures.
LEMMA CaptureIsCaptured ==
  ASSUME NEW r \in Requests, NEW spec \in Specs, ValidSpec(spec),
         NEW plan \in Plans, NEW m \in Measured(plan)
  PROVE  Captured(CaptureRecord(r, spec, plan, m))
<1> DEFINE x == CaptureRecord(r, spec, plan, m)
<1>1. m \in Scans /\ (plan.collscan => m.total_keys_examined = 0)
  BY DEF Measured
<1>2. BuildQuery(spec) \in BuiltQueries /\ BuildQuery(spec) \in Queries
  BY DEF BuiltQueries, Queries
<1>3. x \in Records
  BY <1>1, <1>2 DEF CaptureRecord, Records
<1>4. x.query = BuildQuery(spec) /\ x.metrics = m /\ x.signal = SlowSignal(plan, m)
  BY DEF CaptureRecord
<1> HIDE DEF x
<1>5. Observed(x)
  BY <1>1, <1>4 DEF Observed
<1> QED
  BY <1>2, <1>3, <1>4, <1>5 DEF Captured, x

\* The index an approval creates is known when the run has a query.
LEMMA RecommendedKnown ==
  ASSUME NEW d \in Runs, run[d].query \in Queries
  PROVE  Index(RecommendedName(Recommended(d)), Recommended(d)) \in KnownIndexes
BY DEF Recommended, KnownIndexes

-----------------------------------------------------------------------------
(* The invariant is inductive.                                             *)

\* A run that a step leaves alone keeps its part of the invariant.
LEMMA RunsStand ==
  ASSUME RunsInv, run' = run
  PROVE  RunsInv'
BY DEF RunsInv, MeasuredOnItsIndex, Recommended

LEMMA RequestsStand ==
  ASSUME RequestsInv, req' = req
  PROVE  RequestsInv'
BY DEF RequestsInv

\* A step that changes no index leaves what the reset has left.
LEMMA ResetStands ==
  ASSUME ResetInv, catalog' = catalog, script' = script
  PROVE  ResetInv'
BY DEF ResetInv

LEMMA InitEstablishes == Init => WorkloadInv
<1> SUFFICES ASSUME Init PROVE WorkloadInv
  OBVIOUS
<1>1. catalog \subseteq KnownIndexes
  BY DEF Init, KnownIndexes
<1>2. TypeOK
  BY <1>1 DEF Init, TypeOK, RequestStates, RunStates, NoRun, NoRecord
<1>3. LogInv /\ RequestsInv
  BY DEF Init, LogInv, RequestsInv
<1>4. RunsInv /\ ResetInv
  BY WorkloadAssumption DEF Init, RunsInv, NoRun, ResetInv
<1> QED
  BY <1>2, <1>3, <1>4 DEF WorkloadInv

\* The steps of a request.
LEMMA RequestSteps ==
  ASSUME WorkloadInv, NEW r \in Requests,
         \/ \E spec \in Specs : SubmitQuery(r, spec)
         \/ ExplainQuery(r) \/ InsertRecord(r) \/ Preview(r) \/ QueryRaises(r)
  PROVE  WorkloadInv'
<1> USE DEF WorkloadInv
<1>1. run' = run /\ catalog' = catalog /\ script' = script
  BY DEF SubmitQuery, ExplainQuery, InsertRecord, Preview, QueryRaises
<1>2. RunsInv' /\ ResetInv'
  BY <1>1, RunsStand, ResetStands
<1>3. ASSUME NEW spec \in Specs, SubmitQuery(r, spec)
      PROVE  TypeOK' /\ LogInv' /\ RequestsInv'
  <2>1. TypeOK'
    <3>1. req' \in [Requests -> RequestStates]
      <4>1. PICK pc \in {"explain", "refused"} :
              req' = [req EXCEPT ![r].pc = pc, ![r].spec = spec]
        BY <1>3 DEF SubmitQuery
      <4>2. [req[r] EXCEPT !.pc = pc, !.spec = spec] \in RequestStates
        BY DEF TypeOK, RequestStates
      <4>3. req' = [req EXCEPT ![r] = [req[r] EXCEPT !.pc = pc, !.spec = spec]]
        BY <4>1 DEF TypeOK
      <4> QED
        BY <4>2, <4>3 DEF TypeOK
    <3> QED
      BY <1>1, <1>3, <3>1 DEF SubmitQuery, TypeOK
  <2>2. LogInv'
    BY <1>3 DEF SubmitQuery, LogInv
  <2>3. RequestsInv'
    BY <1>3 DEF SubmitQuery, RequestsInv, TypeOK, RequestStates
  <2> QED
    BY <2>1, <2>2, <2>3
<1>4. CASE ExplainQuery(r)
  <2> DEFINE spec == req[r].spec
  <2>1. spec \in Specs /\ ValidSpec(spec)
    BY <1>4 DEF ExplainQuery, RequestsInv
  <2>2. BuildQuery(spec) \in Queries
    BY <2>1 DEF Queries
  <2>3. PICK plan \in NaturalPlans(BuildQuery(spec), catalog) : \E m \in Measured(plan) :
          req' = [req EXCEPT ![r].pc = "insert",
                             ![r].record = CaptureRecord(r, spec, plan, m)]
    BY <1>4 DEF ExplainQuery
  <2>4. PICK m \in Measured(plan) :
          req' = [req EXCEPT ![r].pc = "insert",
                             ![r].record = CaptureRecord(r, spec, plan, m)]
    BY <2>3
  <2>5. plan \in Plans
    BY <2>2, NaturalPlansKnown DEF TypeOK
  <2> DEFINE x == CaptureRecord(r, spec, plan, m)
  <2>6. Captured(x) /\ x \in Records
    BY <2>1, <2>5, CaptureIsCaptured DEF Captured
  <2> HIDE DEF x
  <2>7. req' = [req EXCEPT ![r].pc = "insert", ![r].record = x]
    BY <2>4 DEF x
  <2>8. TypeOK'
    <3>1. [req[r] EXCEPT !.pc = "insert", !.record = x] \in RequestStates
      BY <2>6 DEF TypeOK, RequestStates
    <3>2. req' = [req EXCEPT ![r] = [req[r] EXCEPT !.pc = "insert", !.record = x]]
      BY <2>7 DEF TypeOK
    <3>3. req' \in [Requests -> RequestStates]
      BY <3>1, <3>2 DEF TypeOK
    <3> QED
      BY <1>1, <1>4, <3>3 DEF ExplainQuery, TypeOK
  <2>9. LogInv'
    BY <1>4 DEF ExplainQuery, LogInv
  <2>10. RequestsInv'
    BY <2>6, <2>7 DEF RequestsInv, TypeOK, RequestStates
  <2> QED
    BY <1>2, <2>8, <2>9, <2>10
<1>5. CASE InsertRecord(r)
  <2>1. Captured(req[r].record)
    BY <1>5 DEF InsertRecord, RequestsInv
  <2>2. TypeOK'
    <3>1. req' \in [Requests -> RequestStates]
      BY <1>5 DEF InsertRecord, TypeOK, RequestStates
    <3> QED
      BY <1>1, <1>5, <2>1, <3>1 DEF InsertRecord, TypeOK, Captured
  <2>3. LogInv'
    BY <1>5, <2>1 DEF InsertRecord, LogInv
  <2>4. RequestsInv'
    BY <1>5 DEF InsertRecord, RequestsInv, TypeOK, RequestStates
  <2> QED
    BY <1>2, <2>2, <2>3, <2>4
<1>6. CASE Preview(r) \/ QueryRaises(r)
  <2>1. TypeOK'
    <3>1. req' \in [Requests -> RequestStates]
      BY <1>6 DEF Preview, QueryRaises, TypeOK, RequestStates
    <3> QED
      BY <1>1, <1>6, <3>1 DEF Preview, QueryRaises, TypeOK
  <2>2. LogInv'
    BY <1>6 DEF Preview, QueryRaises, LogInv
  <2>3. RequestsInv'
    BY <1>6 DEF Preview, QueryRaises, RequestsInv, TypeOK, RequestStates
  <2> QED
    BY <1>2, <2>1, <2>2, <2>3
<1> QED
  BY <1>2, <1>3, <1>4, <1>5, <1>6

\* A run whose step ends or moves it, without a measurement.
LEMMA UnmeasuredStep ==
  ASSUME WorkloadInv, NEW d \in Runs, NEW new \in RunStates,
         run' = [run EXCEPT ![d] = new],
         new.after = None /\ new.status = None,
         new.pc \in {"pending", "verify", "done"} => new.query \in Queries
  PROVE  run' \in [Runs -> RunStates] /\ RunsInv'
<1>1. run' \in [Runs -> RunStates] /\ run'[d] = new
  BY DEF WorkloadInv, TypeOK
<1>2. ASSUME NEW e \in Runs, e # d
      PROVE  run'[e] = run[e] /\ (MeasuredOnItsIndex(e)' <=> MeasuredOnItsIndex(e))
  BY <1>2 DEF WorkloadInv, TypeOK, MeasuredOnItsIndex, Recommended
<1>3. RunsInv'
  BY <1>1, <1>2, WorkloadAssumption DEF WorkloadInv, RunsInv
<1> QED
  BY <1>1, <1>3

\* A diagnosis that reached the operators.
LEMMA DiagnosedIsPending ==
  ASSUME WorkloadInv, NEW d \in Runs, NEW source \in Requests \cup {Fixture},
         NEW q \in Queries, NEW plan \in Plans, NEW m \in Scans,
         run' = [run EXCEPT ![d] = Diagnosed(source, q, plan, m)]
  PROVE  run' \in [Runs -> RunStates] /\ RunsInv'
<1> DEFINE new == Diagnosed(source, q, plan, m)
<1>1. new \in RunStates
  BY DEF Diagnosed, NoRun, RunStates
<1>2. new.pc = "pending" /\ new.query = q /\ new.after = None /\ new.status = None
  BY DEF Diagnosed, NoRun
<1> HIDE DEF new
<1> QED
  BY <1>1, <1>2, UnmeasuredStep DEF new

\* A step of a run that leaves the indexes, the requests and the script alone.
LEMMA RestStands ==
  ASSUME WorkloadInv, catalog' = catalog,
         query_log' = query_log, req' = req, script' = script,
         run' \in [Runs -> RunStates], RunsInv'
  PROVE  WorkloadInv'
BY RequestsStand, ResetStands DEF WorkloadInv, TypeOK, LogInv

LEMMA CapturedDiagnosisStep ==
  ASSUME WorkloadInv, NEW d \in Runs, NEW x \in query_log, DiagnoseCaptured(d, x)
  PROVE  WorkloadInv'
<1>1. /\ x.query \in Queries /\ x.id \in Requests
      /\ catalog \subseteq KnownIndexes
  BY DEF WorkloadInv, TypeOK, LogInv, Captured, BuiltQueries, Queries, Records
<1>2. run[d] = NoRun
  BY DEF DiagnoseCaptured
<1>3. CASE Diagnosable(x.query)
  <2>1. PICK plan \in NaturalPlans(x.query, catalog) : \E m \in Measured(plan) :
          run' = [run EXCEPT ![d] = Diagnosed(x.id, x.query, plan, m)]
    BY <1>3 DEF DiagnoseCaptured
  <2>2. PICK m \in Measured(plan) :
          run' = [run EXCEPT ![d] = Diagnosed(x.id, x.query, plan, m)]
    BY <2>1
  <2>3. plan \in Plans /\ m \in Scans
    BY <1>1, NaturalPlansKnown DEF Measured
  <2>4. run' \in [Runs -> RunStates] /\ RunsInv'
    BY <1>1, <2>2, <2>3, DiagnosedIsPending
  <2> QED
    BY <1>1, <2>4, RestStands DEF DiagnoseCaptured
<1>4. CASE ~Diagnosable(x.query)
  <2> DEFINE new == [NoRun EXCEPT !.pc = "refused", !.source = x.id]
  <2>1. run' = [run EXCEPT ![d] = new]
    BY <1>2, <1>4 DEF DiagnoseCaptured, NoRun
  <2>2. new \in RunStates /\ new.after = None /\ new.status = None /\ new.pc = "refused"
    BY <1>1 DEF NoRun, RunStates
  <2> HIDE DEF new
  <2>3. run' \in [Runs -> RunStates] /\ RunsInv'
    BY <2>1, <2>2, UnmeasuredStep
  <2> QED
    BY <1>1, <2>3, RestStands DEF DiagnoseCaptured
<1> QED
  BY <1>3, <1>4

LEMMA FixtureDiagnosisStep ==
  ASSUME WorkloadInv, NEW d \in Runs, DiagnoseFixture(d)
  PROVE  WorkloadInv'
<1> DEFINE plans == PlansByName(FixtureQuery, catalog, OtherName("esr_wrong_B"))
<1>1. FixtureQuery \in Queries /\ catalog \subseteq KnownIndexes
  BY DEF WorkloadInv, TypeOK, Queries
<1>2. plans \subseteq Plans
  BY <1>1 DEF PlansByName, Plans
<1>3. run[d] = NoRun
  BY DEF DiagnoseFixture
<1>4. CASE plans # {}
  <2>1. PICK plan \in plans : \E m \in Measured(plan) :
          run' = [run EXCEPT ![d] = Diagnosed(Fixture, FixtureQuery, plan, m)]
    BY <1>4 DEF DiagnoseFixture
  <2>2. PICK m \in Measured(plan) :
          run' = [run EXCEPT ![d] = Diagnosed(Fixture, FixtureQuery, plan, m)]
    BY <2>1
  <2>3. plan \in Plans /\ m \in Scans
    BY <1>2 DEF Measured
  <2>4. run' \in [Runs -> RunStates] /\ RunsInv'
    BY <1>1, <2>2, <2>3, DiagnosedIsPending
  <2> QED
    BY <1>1, <2>4, RestStands DEF DiagnoseFixture
<1>5. CASE plans = {}
  <2> DEFINE new == [NoRun EXCEPT !.pc = "failed", !.source = Fixture]
  <2>1. run' = [run EXCEPT ![d] = new]
    BY <1>3, <1>5 DEF DiagnoseFixture, NoRun
  <2>2. new \in RunStates /\ new.after = None /\ new.status = None /\ new.pc = "failed"
    BY DEF NoRun, RunStates
  <2> HIDE DEF new
  <2>3. run' \in [Runs -> RunStates] /\ RunsInv'
    BY <2>1, <2>2, UnmeasuredStep
  <2> QED
    BY <1>1, <2>3, RestStands DEF DiagnoseFixture
<1> QED
  BY <1>4, <1>5

LEMMA ApplyStep ==
  ASSUME WorkloadInv, NEW d \in Runs, Apply(d)
  PROVE  WorkloadInv'
<1> DEFINE index == Index(RecommendedName(Recommended(d)), Recommended(d))
           new == [run[d] EXCEPT !.pc = "verify"]
<1>1. run[d].pc = "pending" /\ run[d] \in RunStates /\ run[d].query \in Queries
      /\ run[d].after = None /\ run[d].status = None
  BY DEF Apply, WorkloadInv, TypeOK, RunsInv
<1>2. index \in KnownIndexes
  BY <1>1, RecommendedKnown
<1>3. catalog' \subseteq KnownIndexes
  BY <1>2 DEF Apply, WorkloadInv, TypeOK
<1>4. script' \in [pc : {"idle", "drop", "store_eq", "method_eq", "done", "aborted"},
                  todo : SUBSET KnownIndexes, raced : SUBSET KnownIndexes]
  <2> DEFINE created == IF script.pc = "idle" THEN script.raced
                                              ELSE script.raced \cup (catalog' \ catalog)
  <2>1. script' = [script EXCEPT !.raced = created]
    BY DEF Apply
  <2>2. created \in SUBSET KnownIndexes
    BY <1>3 DEF WorkloadInv, TypeOK
  <2> HIDE DEF created
  <2> QED
    BY <2>1, <2>2 DEF WorkloadInv, TypeOK
<1>5. run' = [run EXCEPT ![d] = new]
  BY <1>1 DEF Apply, WorkloadInv, TypeOK, RunStates
<1>6. new \in RunStates /\ new.after = None /\ new.status = None /\ new.query \in Queries
  BY <1>1 DEF RunStates
<1> HIDE DEF new
<1>7. run' \in [Runs -> RunStates] /\ RunsInv'
  BY <1>5, <1>6, UnmeasuredStep
<1>8. query_log' = query_log /\ req' = req
  BY DEF Apply
<1>9. ResetInv'
  <2>1. /\ script'.pc = script.pc /\ script'.todo = script.todo
        /\ script'.raced = IF script.pc = "idle" THEN script.raced
                                                 ELSE script.raced \cup (catalog' \ catalog)
    BY DEF Apply, WorkloadInv, TypeOK
  <2>2. catalog \subseteq catalog' /\ catalog' \subseteq catalog \cup {index}
    BY DEF Apply
  <2>3. index.name.prefix = "gcrah_rec_"
    BY DEF Index, RecommendedName
  <2> HIDE DEF index
  <2>4. \A x \in script'.raced : x.name.prefix = "gcrah_rec_"
    BY <2>1, <2>2, <2>3 DEF WorkloadInv, ResetInv
  <2> QED
    BY <2>1, <2>2, <2>4 DEF WorkloadInv, ResetInv
<1> QED
  BY <1>3, <1>4, <1>7, <1>8, <1>9, RequestsStand DEF WorkloadInv, TypeOK, LogInv

LEMMA VerifyStep ==
  ASSUME WorkloadInv, NEW d \in Runs, Verify(d)
  PROVE  WorkloadInv'
<1> DEFINE plans == PlansByKey(run[d].query, catalog, KeyPattern(Recommended(d)))
<1>1. run[d].pc = "verify" /\ run[d] \in RunStates /\ run[d].query \in Queries
      /\ run[d].after = None /\ run[d].status = None /\ catalog \subseteq KnownIndexes
  BY DEF Verify, WorkloadInv, TypeOK, RunsInv
<1>2. CASE plans = {}
  <2> DEFINE new == [run[d] EXCEPT !.pc = "failed"]
  <2>1. run' = [run EXCEPT ![d] = new]
    BY <1>1, <1>2 DEF Verify, WorkloadInv, TypeOK, RunStates
  <2>2. new \in RunStates /\ new.after = None /\ new.status = None /\ new.pc = "failed"
    BY <1>1 DEF RunStates
  <2> HIDE DEF new
  <2>3. run' \in [Runs -> RunStates] /\ RunsInv'
    BY <2>1, <2>2, UnmeasuredStep
  <2> QED
    BY <1>1, <2>3, RestStands DEF Verify
<1>3. CASE plans # {}
  <2>1. PICK plan \in plans : \E m \in Measured(plan) :
          run' = [run EXCEPT ![d] = Outcome(d, plan, m)]
    BY <1>3 DEF Verify
  <2>2. PICK m \in Measured(plan) : run' = [run EXCEPT ![d] = Outcome(d, plan, m)]
    BY <2>1
  <2>3. PICK x \in KnownIndexes :
          x.key = KeyPattern(Recommended(d)) /\ plan = PlanOf(x, run[d].query)
    BY <1>1 DEF PlansByKey
  <2>4. plan \in Plans /\ m \in Scans
    BY <1>1, <2>3 DEF Plans, Measured
  <2> DEFINE new == Outcome(d, plan, m)
  <2>5. /\ new.pc = "done" /\ new.query = run[d].query /\ new.after = plan
        /\ new.status = "verified" => MetricImproved(new.cost, new.after_cost)
    BY <1>1 DEF Outcome, RunStates, Verified
  <2>6. new \in RunStates
    BY <1>1, <2>4 DEF Outcome, RunStates
  <2> HIDE DEF new
  <2>7. run' \in [Runs -> RunStates] /\ run'[d] = new
    BY <2>2, <2>6 DEF WorkloadInv, TypeOK, new
  <2>8. ASSUME NEW e \in Runs, e # d
        PROVE  run'[e] = run[e] /\ (MeasuredOnItsIndex(e)' <=> MeasuredOnItsIndex(e))
    BY <2>2, <2>8 DEF WorkloadInv, TypeOK, MeasuredOnItsIndex, Recommended
  <2>9. MeasuredOnItsIndex(d)'
    BY <2>3, <2>5, <2>7 DEF MeasuredOnItsIndex, Recommended
  <2>10. RunsInv'
    BY <1>1, <2>5, <2>7, <2>8, <2>9, WorkloadAssumption DEF WorkloadInv, RunsInv
  <2> QED
    BY <1>1, <2>7, <2>10, RestStands DEF Verify
<1> QED
  BY <1>2, <1>3

\* What the reset lists for dropping is all but the baseline.
LEMMA DropsAllButBaseline ==
  ASSUME catalog \subseteq KnownIndexes
  PROVE  catalog \subseteq BaselineIndexes \cup ToDrop
<1>1. ASSUME NEW x \in FixtureIndexes
      PROVE  x.name \in LegacyNames
  BY DEF FixtureIndexes, LegacyNames, Index
<1>2. ASSUME NEW q \in Queries
      PROVE  Index(RecommendedName(EsrIndex(q)), EsrIndex(q)).name.prefix = "gcrah_rec_"
  BY DEF Index, RecommendedName
<1> QED
  BY <1>1, <1>2 DEF KnownIndexes, ToDrop

\* The steps of the seed script touch the catalog only.
LEMMA ScriptSteps ==
  ASSUME WorkloadInv, ListIndexes \/ DropIndex \/ EnsureBaseline
  PROVE  WorkloadInv'
<1>1. run' = run /\ req' = req /\ query_log' = query_log
  BY DEF ListIndexes, DropIndex, EnsureBaseline
<1>2. BaselineIndexes \subseteq KnownIndexes
  BY DEF KnownIndexes
<1> DEFINE States == [pc : {"idle", "drop", "store_eq", "method_eq", "done", "aborted"},
                      todo : SUBSET KnownIndexes, raced : SUBSET KnownIndexes]
<1>3. catalog' \subseteq KnownIndexes /\ script' \in States
  <2> USE DEF WorkloadInv, TypeOK
  <2>1. CASE ListIndexes
    BY <2>1 DEF ListIndexes, ToDrop
  <2>2. CASE DropIndex
    BY <2>2 DEF DropIndex
  <2>3. CASE EnsureBaseline
    <3>1. StoreEq \in KnownIndexes /\ MethodEq \in KnownIndexes
      BY <1>2 DEF BaselineIndexes
    <3> QED
      BY <2>3, <3>1 DEF EnsureBaseline
  <2> QED
    BY <2>1, <2>2, <2>3
<1>4. ResetInv'
  <2>1. CASE ListIndexes
    BY <2>1, DropsAllButBaseline DEF ListIndexes, ResetInv, WorkloadInv, TypeOK
  <2>2. CASE DropIndex
    <3>1. catalog' \subseteq catalog
      BY <2>2 DEF DropIndex
    <3>2. script.pc = "drop" /\ script'.raced = script.raced
      BY <2>2 DEF DropIndex, WorkloadInv, TypeOK
    <3>3. CASE script.todo = {}
      BY <2>2, <3>1, <3>2, <3>3 DEF DropIndex, ResetInv, WorkloadInv, TypeOK
    <3>4. CASE script.todo # {}
      <4>1. PICK x \in script.todo :
              /\ catalog' = catalog \ {x}
              /\ script' = [script EXCEPT !.todo = @ \ {x}]
        BY <2>2, <3>4 DEF DropIndex
      <4>2. script'.pc = "drop" /\ script'.todo = script.todo \ {x}
        BY <3>2, <4>1 DEF WorkloadInv, TypeOK
      <4> QED
        BY <3>2, <4>1, <4>2 DEF ResetInv, WorkloadInv
    <3> QED
      BY <3>3, <3>4
  <2>3. CASE EnsureBaseline
    <3>1. StoreEq \in BaselineIndexes /\ MethodEq \in BaselineIndexes
      BY DEF BaselineIndexes
    <3> QED
      BY <2>3, <3>1 DEF EnsureBaseline, ResetInv, WorkloadInv, TypeOK
  <2> QED
    BY <2>1, <2>2, <2>3
<1> QED
  BY <1>1, <1>3, <1>4, RunsStand, RequestsStand DEF WorkloadInv, TypeOK, LogInv

\* WorkloadInv holds in every reachable state, for any constants.
THEOREM LoopInvariant == Spec => []WorkloadInv
<1>1. WorkloadInv /\ UNCHANGED vars => WorkloadInv'
  BY RunsStand, RequestsStand, ResetStands DEF vars, WorkloadInv, TypeOK, LogInv
<1>2. WorkloadInv /\ Next => WorkloadInv'
  BY RequestSteps, CapturedDiagnosisStep, FixtureDiagnosisStep, ApplyStep, VerifyStep,
     ScriptSteps DEF Next
<1> QED
  BY InitEstablishes, <1>1, <1>2, PTL DEF Spec

-----------------------------------------------------------------------------
(* What follows from it.                                                   *)

\* The values of the stores, requests and runs are those of TypeOK; in
\* particular no approval creates an index that is not recommended for a query
\* the guided builder can make.
THEOREM WorkloadTypeCorrect == Spec => []TypeOK
<1>1. WorkloadInv => TypeOK
  BY DEF WorkloadInv
<1> QED
  BY <1>1, LoopInvariant, PTL

\* Everything in query_log passes the check in front of the diagnosis.
THEOREM LoggedQueriesAreSafe == Spec => []LoggedIsSafe
<1>1. WorkloadInv => LoggedIsSafe
  BY BuiltQueryIsSafe DEF WorkloadInv, LogInv, Captured, BuiltQueries, LoggedIsSafe
<1> QED
  BY <1>1, LoopInvariant, PTL

LEMMA AtMostBounds ==
  ASSUME NEW n \in Nat, NEW k \in Nat
  PROVE  AtMost(n, k) \in Nat /\ AtMost(n, k) <= k /\ AtMost(n, k) <= n
BY DEF AtMost

\* The scan ratio and the keys together never outweigh a sort in memory.
LEMMA ScoreBounds ==
  ASSUME NEW plan, NEW m \in Scans, plan.collscan => m.total_keys_examined = 0
  PROVE  /\ Score(plan, m) \in Int
         /\ plan.blocking_sort /\ (plan.collscan \/ m.total_keys_examined > 0) =>
              Score(plan, m) > 100000000
         /\ ~plan.blocking_sort => Score(plan, m) <= 100000000
<1> DEFINE ratio == AtMost(Ratio(m), 10000)
           keys == AtMost(m.total_keys_examined, 1000000)
           sort == IF plan.blocking_sort THEN 100000000 ELSE 0
           scan == IF plan.collscan THEN 50000000 ELSE 0
<1>1. Ratio(m) \in Nat
  <2>1. m.docs_examined \in Nat /\ AtLeastOne(m.docs_returned) \in Nat \ {0}
    BY WorkloadAssumption DEF AtLeastOne
  <2> QED
    BY <2>1 DEF Ratio
<1>2. ratio \in Nat /\ ratio <= 10000
  BY <1>1, AtMostBounds, SMT
<1>3. /\ keys \in Nat /\ keys <= 1000000 /\ (plan.collscan => keys = 0)
      /\ m.total_keys_examined > 0 => keys > 0
  <2>1. m.total_keys_examined \in Nat
    BY WorkloadAssumption
  <2>2. keys = IF m.total_keys_examined < 1000000 THEN m.total_keys_examined ELSE 1000000
    BY DEF AtMost
  <2> QED
    BY <2>1, <2>2, SMT
<1>4. Score(plan, m) = sort + scan + ratio * 5000 + keys
  BY SMT DEF Score
<1>5. /\ plan.blocking_sort => sort = 100000000
      /\ ~plan.blocking_sort => sort = 0
  BY SMT
<1>6. /\ sort \in Int
      /\ plan.collscan => scan = 50000000
      /\ ~plan.collscan => scan = 0
  BY SMT
<1> HIDE DEF ratio, keys, sort, scan
<1>7. scan \in Int /\ scan >= 0 /\ scan <= 50000000 /\ scan + keys <= 50000000
  <2>1. CASE plan.collscan
    BY <1>3, <1>6, <2>1, SMT
  <2>2. CASE ~plan.collscan
    BY <1>3, <1>6, <2>2, SMT
  <2> QED
    BY <2>1, <2>2, SMT
<1>8. ratio * 5000 \in Nat /\ ratio * 5000 <= 50000000
  BY <1>2, SMT
<1> QED
  BY <1>2, <1>3, <1>4, <1>5, <1>6, <1>7, <1>8, SMT

\* A captured query that sorted in memory never loses its place in the queue, or
\* its rank, to one that did not, whatever the limit (slow_signal,
\* list_slow_queries).
THEOREM SortsAreRankedFirst == Spec => []SortsRankFirst
<1>1. ASSUME WorkloadInv, NEW queue \in SlowQueries, NEW x \in query_log, NEW y \in queue,
             x.signal.blocking_sort, Examined(x), ~y.signal.blocking_sort
      PROVE  x \in queue /\ x.signal.score > y.signal.score
  <2> DEFINE slow == {z \in query_log : z.signal.is_slow}
  <2>1. /\ y \in query_log
        /\ \A z \in slow : z \notin queue => y.signal.score >= z.signal.score
    BY <1>1 DEF SlowQueries
  <2>2. PICK p \in Plans :
          /\ x.signal = SlowSignal(p, x.metrics) /\ x.metrics \in Scans
          /\ p.collscan => x.metrics.total_keys_examined = 0
    BY <1>1 DEF WorkloadInv, LogInv, Captured, Observed, Records
  <2>3. PICK q \in Plans :
          /\ y.signal = SlowSignal(q, y.metrics) /\ y.metrics \in Scans
          /\ q.collscan => y.metrics.total_keys_examined = 0
    BY <1>1, <2>1 DEF WorkloadInv, LogInv, Captured, Observed, Records
  <2>4. /\ x.signal.score = Score(p, x.metrics) /\ x.signal.blocking_sort = p.blocking_sort
        /\ x.signal.collscan = p.collscan
    BY <2>2 DEF SlowSignal
  <2>5. y.signal.score = Score(q, y.metrics) /\ y.signal.blocking_sort = q.blocking_sort
    BY <2>3 DEF SlowSignal
  <2>6. /\ Score(p, x.metrics) \in Int /\ Score(q, y.metrics) \in Int
        /\ Score(p, x.metrics) > 100000000 /\ Score(q, y.metrics) <= 100000000
    BY <1>1, <2>2, <2>3, <2>4, <2>5, ScoreBounds DEF Examined
  <2>7. x.signal.score > y.signal.score /\ ~(y.signal.score >= x.signal.score)
    BY <2>4, <2>5, <2>6
  <2>8. SlowSignal(p, x.metrics).is_slow
    <3>1. p.blocking_sort
      BY <1>1, <2>4
    <3> QED
      BY <3>1, Zenon DEF SlowSignal
  <2>9. x.signal.is_slow
    BY <2>2, <2>8
  <2> QED
    BY <1>1, <2>1, <2>7, <2>9
<1>2. WorkloadInv => SortsRankFirst
  BY <1>1 DEF SortsRankFirst
<1> QED
  BY <1>2, LoopInvariant, PTL

\* A query measured on its recommended index never sorts in memory.
THEOREM FixedQueriesDoNotSort == Spec => []NoSortAfterFix
<1>1. ASSUME WorkloadInv, NEW d \in Runs, run[d].after # None
      PROVE  ~run[d].after.blocking_sort
  <2>1. run[d].query \in Queries /\ MeasuredOnItsIndex(d)
    BY <1>1 DEF WorkloadInv, RunsInv
  <2>2. PICK x \in KnownIndexes :
          x.key = KeyPattern(Recommended(d)) /\ run[d].after = PlanOf(x, run[d].query)
    BY <2>1 DEF MeasuredOnItsIndex
  <2>3. SuppliesOrder(x.key, run[d].query)
    BY <2>1, <2>2, QueriesSortOnce, EsrIndexSuppliesOrder DEF Recommended
  <2> QED
    BY <2>2, <2>3, NoSortWhenSupplied
<1>2. WorkloadInv => NoSortAfterFix
  BY <1>1 DEF NoSortAfterFix
<1> QED
  BY <1>2, LoopInvariant, PTL

\* A VERIFIED run was measured on an index of the recommended pattern, and
\* something got better (_verification_checks).
THEOREM VerifiedIsEvidenced == Spec => []VerifiedOnItsIndex
<1>1. ASSUME WorkloadInv, NEW d \in Runs, run[d].status = "verified"
      PROVE  /\ run[d].after.index.key = KeyPattern(Recommended(d))
             /\ MetricImproved(run[d].cost, run[d].after_cost)
  <2>1. MeasuredOnItsIndex(d) /\ MetricImproved(run[d].cost, run[d].after_cost)
    BY <1>1 DEF WorkloadInv, RunsInv
  <2> QED
    BY <2>1 DEF MeasuredOnItsIndex, PlanOf
<1>2. WorkloadInv => VerifiedOnItsIndex
  BY <1>1 DEF VerifiedOnItsIndex
<1> QED
  BY <1>2, LoopInvariant, PTL

\* The fix of one query serves its whole class: each query with the same
\* equality and sort fields has a plan without a sort while the index is there.
THEOREM FixesServeTheirClass == Spec => []FixServesItsClass
<1>1. ASSUME WorkloadInv, NEW d \in Runs, run[d].pc = "done",
             NEW x \in catalog, x.key = KeyPattern(Recommended(d)),
             NEW q \in Queries, SameClass(q, run[d].query)
      PROVE  \E plan \in NaturalPlans(q, catalog) : ~plan.blocking_sort
  <2>1. run[d].query \in Queries
    BY <1>1 DEF WorkloadInv, RunsInv
  <2>2. SuppliesOrder(x.key, run[d].query)
    BY <1>1, <2>1, QueriesSortOnce, EsrIndexSuppliesOrder DEF Recommended
  <2>3. SuppliesOrder(x.key, q)
    BY <1>1, <2>2 DEF SuppliesOrder, SameClass
  <2>4. Candidate(x.key, q)
    BY <1>1, <2>3 DEF Candidate, SameClass
  <2>5. PlanOf(x, q) \in NaturalPlans(q, catalog)
    BY <1>1, <2>4 DEF NaturalPlans
  <2> QED
    BY <2>3, <2>5, NoSortWhenSupplied
<1>2. WorkloadInv => FixServesItsClass
  BY <1>1 DEF FixServesItsClass
<1> QED
  BY <1>2, LoopInvariant, PTL

-----------------------------------------------------------------------------
(* The reset, and the plans the baseline leaves.                           *)

\* The pattern of a specification of one ascending field.
LEMMA OneFieldPattern ==
  ASSUME NEW f
  PROVE  LET key == KeyPattern(<<<<f, 1>>>>) IN DOMAIN key.dir = {f} /\ key.before = {}
<1> DEFINE spec == <<<<f, 1>>>>
<1>1. DOMAIN spec = {1} /\ spec[1][1] = f
  OBVIOUS
<1> HIDE DEF spec
<1>2. DOMAIN KeyPattern(spec).dir = {f}
  BY <1>1 DEF KeyPattern
<1>3. ASSUME NEW pair \in KeyPattern(spec).before
      PROVE  FALSE
  <2>1. pair \in {f} \X {f}
    BY <1>1 DEF KeyPattern
  <2>2. PICK i \in DOMAIN spec : \A j \in 1 .. i : spec[j][1] # pair[2]
    BY DEF KeyPattern
  <2> QED
    BY <1>1, <2>1, <2>2
<1> QED
  BY <1>2, <1>3 DEF spec

\* A query on a store or a method, over the baseline: an index of the baseline
\* serves it, and serves no sort.
LEMMA BaselinePlans ==
  ASSUME NEW p, p.store_location # None \/ p.purchase_method # None,
         p.sort_field \in SORT_FIELDS \cup {None},
         NEW plan \in NaturalPlans(BuildQuery(p), BaselineIndexes)
  PROVE  ~plan.collscan /\ (plan.blocking_sort <=> p.sort_field # None)
<1> DEFINE q == BuildQuery(p)
<1>1. /\ DOMAIN StoreEq.key.dir = {"storeLocation"} /\ StoreEq.key.before = {}
      /\ DOMAIN MethodEq.key.dir = {"purchaseMethod"} /\ MethodEq.key.before = {}
  BY OneFieldPattern DEF StoreEq, MethodEq, Index
<1>2. ASSUME NEW x \in BaselineIndexes
      PROVE  x # NoIndex
  <2>1. DOMAIN x.key.dir # {}
    BY <1>1 DEF BaselineIndexes
  <2>2. DOMAIN NoIndex.key.dir = {}
    <3> DEFINE none == <<>>
    <3>1. DOMAIN none = {}
      OBVIOUS
    <3> HIDE DEF none
    <3>2. DOMAIN KeyPattern(none).dir = {}
      BY <3>1 DEF KeyPattern
    <3> QED
      BY <3>2 DEF NoIndex, none
  <2> QED
    BY <2>1, <2>2
<1>3. \E x \in BaselineIndexes : Candidate(x.key, q)
  <2>1. /\ p.store_location # None => "storeLocation" \in DOMAIN q.filter
        /\ p.purchase_method # None => "purchaseMethod" \in DOMAIN q.filter
    BY DEF BuildQuery, FilterFields
  <2> HIDE DEF q
  <2>2. CASE p.store_location # None
    BY <1>1, <2>1, <2>2 DEF Candidate, BaselineIndexes
  <2>3. CASE p.purchase_method # None
    BY <1>1, <2>1, <2>3 DEF Candidate, BaselineIndexes
  <2> QED
    BY <2>2, <2>3
<1>4. PICK x \in BaselineIndexes : plan = PlanOf(x, q)
  BY <1>3 DEF NaturalPlans
<1>5. ~plan.collscan /\ (plan.blocking_sort <=> ~SuppliesOrder(x.key, q))
  BY <1>2, <1>4 DEF PlanOf
<1>6. SuppliesOrder(x.key, q) <=> p.sort_field = None
  <2>1. CASE p.sort_field = None
    BY <2>1 DEF SuppliesOrder, BuildQuery
  <2>2. CASE p.sort_field # None
    <3>1. q.sort = <<<<p.sort_field, p.sort_dir>>>> /\ p.sort_field \in SORT_FIELDS
      BY <2>2 DEF BuildQuery
    <3> HIDE DEF q
    <3>2. q.sort # <<>> /\ q.sort[1][1] = p.sort_field
      BY <3>1
    <3>3. p.sort_field \notin DOMAIN x.key.dir
      BY <1>1, <3>1 DEF BaselineIndexes, SORT_FIELDS
    <3> QED
      BY <2>2, <3>2, <3>3 DEF SuppliesOrder
  <2> QED
    BY <2>1, <2>2
<1> QED
  BY <1>5, <1>6

\* A reset makes every trap preset a trap again, and no healthy one, from any
\* indexes and whatever users do meanwhile, but for the indexes approvals created
\* behind it (reset_baseline, verify_presets).
THEOREM ResetMakesTraps == Spec => ResetRestoresTraps
<1>1. ASSUME WorkloadInv, WorkloadInv', [Next]_vars,
             script.pc # "done", script'.pc = "done",
             NEW p \in TrapPresets \cup HealthyPresets,
             NEW plan \in NaturalPlans(BuildQuery(p), catalog' \ script'.raced)
      PROVE  p \in TrapPresets <=> (plan.blocking_sort \/ plan.collscan)
  <2>1. catalog' \ script'.raced = BaselineIndexes
    <3>1. /\ catalog' \subseteq BaselineIndexes \cup script'.raced
          /\ BaselineIndexes \subseteq catalog'
          /\ \A x \in script'.raced : x.name.prefix = "gcrah_rec_"
      BY <1>1 DEF WorkloadInv, ResetInv, BaselineIndexes
    <3>2. StoreEq.name.prefix = "store_eq" /\ MethodEq.name.prefix = "method_eq"
      BY DEF StoreEq, MethodEq, Index, OtherName
    <3>3. \A x \in BaselineIndexes : x.name.prefix # "gcrah_rec_"
      BY <3>2 DEF BaselineIndexes
    <3> QED
      BY <3>1, <3>3
  <2>2. /\ p.store_location # None \/ p.purchase_method # None
        /\ p.sort_field \in SORT_FIELDS \cup {None}
        /\ p \in TrapPresets <=> p.sort_field # None
    <3>1. /\ \A s \in {"Austin", "Denver", "London", "New York", "Seattle"} : s # None
          /\ \A m \in {"Online", "Phone"} : m # None
          /\ "saleDate" # None /\ "saleDate" \in SORT_FIELDS
      BY GuidedAssumption, PresetsAreOffered DEF SORT_FIELDS
    <3>2. ASSUME NEW t \in TrapPresets
          PROVE  /\ t.store_location # None \/ t.purchase_method # None
                 /\ t.sort_field = "saleDate"
      <4>1. \E store, method, lo, hi, dir :
              /\ t = Sp(store, method, lo, hi, "saleDate", dir)
              /\ store # None \/ method # None
        BY <3>1, Zenon DEF TrapPresets
      <4> QED
        BY <4>1 DEF Sp
    <3>3. ASSUME NEW h \in HealthyPresets
          PROVE  /\ h.store_location # None \/ h.purchase_method # None
                 /\ h.sort_field = None
      <4>1. \E store, method, lo, hi, dir :
              /\ h = Sp(store, method, lo, hi, None, dir)
              /\ store # None \/ method # None
        BY <3>1, Zenon DEF HealthyPresets
      <4> QED
        BY <4>1 DEF Sp
    <3> QED
      BY <3>1, <3>2, <3>3
  <2> QED
    BY <1>1, <2>1, <2>2, BaselinePlans
<1>2. WorkloadInv /\ WorkloadInv' /\ [Next]_vars =>
        (script.pc # "done" /\ script'.pc = "done" =>
           \A p \in TrapPresets \cup HealthyPresets :
             \A plan \in NaturalPlans(BuildQuery(p), catalog' \ script'.raced) :
               p \in TrapPresets <=> (plan.blocking_sort \/ plan.collscan))
  BY <1>1
<1> QED
  BY <1>2, LoopInvariant, PTL DEF Spec, ResetRestoresTraps
=============================================================================
