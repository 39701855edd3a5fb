------------------------- MODULE WorkloadInvariant --------------------------
(***************************************************************************)
(* The inductive invariant of Workload.                                    *)
(***************************************************************************)
EXTENDS Workload

BuiltQueries == {BuildQuery(s) : s \in {t \in Specs : ValidSpec(t)}}

\* The signal of a capture is that of the execution it measured, and one that
\* scans the collection reads no keys.
Observed(x) ==
  \E plan \in Plans :
    /\ x.signal = SlowSignal(plan, x.metrics)
    /\ plan.collscan => x.metrics.total_keys_examined = 0

Captured(x) == x \in Records /\ x.query \in BuiltQueries /\ Observed(x)

LogInv == \A x \in query_log : Captured(x)

\* A request is explained when its parameters are valid, and what it is about
\* to insert is a capture.
RequestsInv ==
  \A r \in Requests :
    /\ req[r].pc = "explain" => req[r].spec \in Specs /\ ValidSpec(req[r].spec)
    /\ req[r].pc = "insert" => Captured(req[r].record)

\* The plan a run was measured on is that of an index of the recommended
\* pattern, for the query of the run.
MeasuredOnItsIndex(d) ==
  \E x \in KnownIndexes :
    x.key = KeyPattern(Recommended(d)) /\ run[d].after = PlanOf(x, run[d].query)

RunsInv ==
  \A d \in Runs :
    /\ run[d].pc \in {"pending", "verify", "done"} => run[d].query \in Queries
    /\ run[d].pc \in {"pending", "verify"} => run[d].after = None /\ run[d].status = None
    /\ run[d].after # None => run[d].query \in Queries /\ MeasuredOnItsIndex(d)
    /\ run[d].status = "verified" =>
         /\ run[d].query \in Queries /\ MeasuredOnItsIndex(d)
         /\ MetricImproved(run[d].cost, run[d].after_cost)

\* What the reset has left at each of its steps, but for the indexes approvals
\* created meanwhile, none of which is of the baseline.
ResetInv ==
  /\ \A x \in script.raced : x.name.prefix = "gcrah_rec_"
  /\ script.pc = "drop" => catalog \subseteq BaselineIndexes \cup script.todo \cup script.raced
  /\ script.pc \in {"store_eq", "method_eq", "done"} =>
       catalog \subseteq BaselineIndexes \cup script.raced
  /\ script.pc \in {"method_eq", "done"} => StoreEq \in catalog
  /\ script.pc = "done" => MethodEq \in catalog

\* The inductive invariant of the loop: what query_log, a request and a run hold
\* at each step, whatever the others and the reset did to the indexes since, and
\* what the reset has left (run_query, diagnose, apply_and_verify, reset_baseline).
WorkloadInv == TypeOK /\ LogInv /\ RequestsInv /\ RunsInv /\ ResetInv
=============================================================================
