---------------------------- MODULE EsrDiagnosis ----------------------------
(***************************************************************************)
(* The deterministic diagnosis (controller/diagnosis.py), the rail that    *)
(* verifies its recommendation (controller/orchestrator.py), and the parts *)
(* of MongoDB they rely on: what create_index does with a key pattern and  *)
(* which plans the planner can choose.                                     *)
(*                                                                         *)
(* An index specification is a sequence of <<field, direction>> pairs.     *)
(***************************************************************************)
EXTENDS GuidedQuery

Elements(s) == {s[i] : i \in DOMAIN s}

\* The fields with one kind of condition, in the order build_query inserts them
\* in the filter.
Selected(q, kind) ==
  LET Pick(f) == IF f \in DOMAIN q.filter /\ q.filter[f].kind = kind THEN <<f>> ELSE <<>>
  IN Pick("storeLocation") \o Pick("purchaseMethod") \o Pick("customer.age")

EqualityFields(q) == Selected(q, "equals")
RangeFields(q) == Selected(q, "range")

Ascending(fields) == [i \in DOMAIN fields |-> <<fields[i], 1>>]

\* Mutation: the range is put before the sort.
EsrIndex_RangeFirst(q) ==
  Ascending(EqualityFields(q)) \o Ascending(RangeFields(q)) \o q.sort

\* Equality, then Sort, then Range.
EsrIndex(q) ==
  Ascending(EqualityFields(q)) \o q.sort \o Ascending(RangeFields(q))

-----------------------------------------------------------------------------
(* Key patterns.  The driver sends a specification as a document: a field  *)
(* that comes twice keeps its first place and its last direction.          *)

KeyPattern(spec) ==
  LET fields == {spec[i][1] : i \in DOMAIN spec} IN
  [dir    |-> [f \in fields |->
                 spec[CHOOSE i \in DOMAIN spec :
                        /\ spec[i][1] = f
                        /\ \A j \in DOMAIN spec : j > i => spec[j][1] # f][2]],
   before |-> {pair \in fields \X fields :
                 \E i \in DOMAIN spec :
                   spec[i][1] = pair[1] /\ \A j \in 1 .. i : spec[j][1] # pair[2]}]

\* An index of the collection: its name and its key pattern.  The name of a
\* recommended index spells its specification, so that specification stands for
\* the name; other indexes have names of their own.
Index(name, spec) == [name |-> name, key |-> KeyPattern(spec)]
RecommendedName(spec) == [prefix |-> "gcrah_rec_", spec |-> spec]
OtherName(text) == [prefix |-> text, spec |-> <<>>]

\* create_index of one that exists is a no-op, and a conflict with an index of
\* the same name or the same key (errors 86 and 85) is the caller's to absorb.
Conflicts(catalog, index) ==
  \E x \in catalog : x # index /\ (x.name = index.name \/ x.key = index.key)

-----------------------------------------------------------------------------
(* The planner.                                                            *)

\* The index supplies the order of the sort when every field before the
\* sorted one is held by an equality.
SuppliesOrder(key, q) ==
  q.sort = <<>> \/
    LET field == q.sort[1][1] IN
    /\ field \in DOMAIN key.dir
    /\ \A f \in DOMAIN key.dir :
         <<f, field>> \in key.before => f \in Elements(EqualityFields(q))

\* Without a hint an index is a candidate when its first field is filtered on,
\* or when it supplies the order of the sort.
Candidate(key, q) ==
  \/ \E f \in DOMAIN q.filter \cap DOMAIN key.dir :
       \A g \in DOMAIN key.dir : <<g, f>> \notin key.before
  \/ q.sort # <<>> /\ SuppliesOrder(key, q)

NoIndex == [name |-> OtherName("none"), key |-> KeyPattern(<<>>)]

PlanOf(index, q) ==
  [index         |-> index,
   collscan      |-> index = NoIndex,
   blocking_sort |-> IF index = NoIndex THEN q.sort # <<>> ELSE ~SuppliesOrder(index.key, q)]

NaturalPlans(q, catalog) ==
  LET candidates == {x \in catalog : Candidate(x.key, q)} IN
  {PlanOf(x, q) : x \in IF candidates = {} THEN {NoIndex} ELSE candidates}

\* With a hint there is the plan of that index, or none: the explain raises.
PlansByKey(q, catalog, key) == {PlanOf(x, q) : x \in {y \in catalog : y.key = key}}
PlansByName(q, catalog, name) == {PlanOf(x, q) : x \in {y \in catalog : y.name = name}}

-----------------------------------------------------------------------------
(* The verification rail.                                                  *)

\* A pattern has the fields of the specification, in its order, and no more.
KeyPatternMatches(key, spec) ==
  /\ key = KeyPattern(spec)
  /\ \A i, j \in DOMAIN spec : spec[i][1] = spec[j][1] => i = j

PlanEvidencesIndex(plan, spec) ==
  plan.index.name = RecommendedName(spec) \/ KeyPatternMatches(plan.index.key, spec)

MetricImproved(before, after) ==
  \/ after.total_keys_examined < before.total_keys_examined
  \/ after.docs_examined < before.docs_examined
  \/ after.millis < before.millis

\* Mutation: any of the checks is enough.
Verified_AnyCheck(before, after, plan, spec) ==
  \/ ~plan.blocking_sort
  \/ PlanEvidencesIndex(plan, spec)
  \/ MetricImproved(before, after)

Verified(before, after, plan, spec) ==
  /\ ~plan.blocking_sort
  /\ PlanEvidencesIndex(plan, spec)
  /\ MetricImproved(before, after)
=============================================================================
