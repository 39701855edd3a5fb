----------------------------- MODULE GuidedQuery -----------------------------
(***************************************************************************)
(* The guided query (controller/workload.py): the parameters a user sends, *)
(* the query that is built from them, and the check that is made again     *)
(* when the query comes back from query_log.                               *)
(***************************************************************************)
EXTENDS Integers, Sequences

CONSTANTS
  None,
  STORE_LOCATIONS,
  PURCHASE_METHODS,
  AGE_MIN,
  AGE_MAX,
  MAX_LIMIT

SORT_FIELDS == {"saleDate", "customer.age"}

ASSUME GuidedAssumption ==
  /\ None \notin STORE_LOCATIONS \cup PURCHASE_METHODS \cup SORT_FIELDS \cup Int
  /\ AGE_MIN \in Int /\ AGE_MAX \in Int /\ MAX_LIMIT \in Int

\* Mutation: the ages are not bounded.
ValidSpec_NoAgeBound(spec) ==
  /\ spec.store_location \in STORE_LOCATIONS \cup {None}
  /\ spec.purchase_method \in PURCHASE_METHODS \cup {None}
  /\ spec.age_min # None /\ spec.age_max # None => spec.age_min <= spec.age_max
  /\ spec.sort_field \in SORT_FIELDS \cup {None}
  /\ spec.sort_dir \in {1, -1}
  /\ spec.limit \in 1 .. MAX_LIMIT

\* A QuerySpec: any of its parameters may be missing.
ValidSpec(spec) ==
  /\ spec.store_location \in STORE_LOCATIONS \cup {None}
  /\ spec.purchase_method \in PURCHASE_METHODS \cup {None}
  /\ \A bound \in {spec.age_min, spec.age_max} \ {None} : bound \in AGE_MIN .. AGE_MAX
  /\ spec.age_min # None /\ spec.age_max # None => spec.age_min <= spec.age_max
  /\ spec.sort_field \in SORT_FIELDS \cup {None}
  /\ spec.sort_dir \in {1, -1}
  /\ spec.limit \in 1 .. MAX_LIMIT

-----------------------------------------------------------------------------
(* The filter of a query maps fields to conditions: equality with a string,*)
(* or a range, which maps operators to bounds.                             *)

Equals(v) == [kind |-> "equals", value |-> v, range |-> <<>>]
Within(range) == [kind |-> "range", value |-> None, range |-> range]

AgeRange(spec) ==
  LET Bound(op) == IF op = "$gte" THEN spec.age_min ELSE spec.age_max
  IN [op \in {o \in {"$gte", "$lte"} : Bound(o) # None} |-> Bound(op)]

FilterFields(spec) ==
  {f \in {"storeLocation", "purchaseMethod", "customer.age"} :
     \/ f = "storeLocation" /\ spec.store_location # None
     \/ f = "purchaseMethod" /\ spec.purchase_method # None
     \/ f = "customer.age" /\ DOMAIN AgeRange(spec) # {}}

BuildQuery(spec) ==
  [filter |-> [f \in FilterFields(spec) |->
                 CASE f = "storeLocation"  -> Equals(spec.store_location)
                   [] f = "purchaseMethod" -> Equals(spec.purchase_method)
                   [] f = "customer.age"   -> Within(AgeRange(spec))],
   sort   |-> IF spec.sort_field = None THEN <<>>
              ELSE <<<<spec.sort_field, spec.sort_dir>>>>,
   limit  |-> spec.limit]

\* assert_safe_query, made before a logged query is diagnosed.
SafeQuery(q) ==
  /\ DOMAIN q.filter \subseteq {"storeLocation", "purchaseMethod", "customer.age"}
  /\ \A f \in DOMAIN q.filter :
       IF f = "customer.age"
       THEN /\ q.filter[f].kind = "range"
            /\ DOMAIN q.filter[f].range \subseteq {"$gte", "$lte"}
            /\ \A op \in DOMAIN q.filter[f].range :
                 q.filter[f].range[op] \in AGE_MIN .. AGE_MAX
       ELSE q.filter[f].kind = "equals"
  /\ \A i \in DOMAIN q.sort : q.sort[i][1] \in SORT_FIELDS /\ q.sort[i][2] \in {1, -1}

\* POST /run refuses a logged query that fails the check, or has nothing an
\* index could serve.
Diagnosable(q) == SafeQuery(q) /\ (DOMAIN q.filter # {} \/ q.sort # <<>>)
=============================================================================
