------------------------ MODULE EsrDiagnosis_proofs -------------------------
(***************************************************************************)
(* The query builder against the re-check, and the Equality-Sort-Range     *)
(* rule against the planner, for every specification and every query.      *)
(***************************************************************************)
EXTENDS EsrDiagnosis, SequenceTheorems, TLAPS

\* A query as the builder makes them: one sort at most, on a known field.
OneSort(q) ==
  q.sort = <<>> \/ \E f \in SORT_FIELDS : \E dir \in {1, -1} : q.sort = <<<<f, dir>>>>

\* The ages of a built query are ages of its specification, and in bounds.
LEMMA AgesInBounds ==
  ASSUME NEW spec, ValidSpec(spec)
  PROVE  /\ DOMAIN AgeRange(spec) \subseteq {"$gte", "$lte"}
         /\ \A op \in DOMAIN AgeRange(spec) : AgeRange(spec)[op] \in AGE_MIN .. AGE_MAX
<1> DEFINE Bound(op) == IF op = "$gte" THEN spec.age_min ELSE spec.age_max
           Ops == {o \in {"$gte", "$lte"} : Bound(o) # None}
<1>1. AgeRange(spec) = [op \in Ops |-> Bound(op)]
  BY DEF AgeRange
<1>2. \A op \in Ops : Bound(op) \in AGE_MIN .. AGE_MAX
  BY DEF ValidSpec
<1> QED
  BY <1>1, <1>2

\* Every query built from a valid specification passes the check that is made
\* when it comes back from query_log (build_query, assert_safe_query).
THEOREM BuiltQueryIsSafe ==
  ASSUME NEW spec, ValidSpec(spec)
  PROVE  SafeQuery(BuildQuery(spec)) /\ OneSort(BuildQuery(spec))
<1> DEFINE q == BuildQuery(spec)
<1>1. DOMAIN q.filter \subseteq {"storeLocation", "purchaseMethod", "customer.age"}
  BY DEF BuildQuery, FilterFields
<1>2. ASSUME NEW f \in DOMAIN q.filter, f = "customer.age"
      PROVE  /\ q.filter[f].kind = "range"
             /\ q.filter[f].range = AgeRange(spec)
  BY <1>2 DEF BuildQuery, FilterFields, Within
<1>3. ASSUME NEW f \in DOMAIN q.filter, f # "customer.age"
      PROVE  q.filter[f].kind = "equals"
  <2>1. CASE f = "storeLocation"
    BY <1>3, <2>1 DEF BuildQuery, FilterFields, Equals
  <2>2. CASE f = "purchaseMethod"
    BY <1>3, <2>2 DEF BuildQuery, FilterFields, Equals
  <2> QED
    BY <1>1, <1>3, <2>1, <2>2
<1>4. OneSort(q)
  <2>1. CASE spec.sort_field = None
    BY <2>1 DEF OneSort, BuildQuery
  <2>2. CASE spec.sort_field # None
    <3>1. spec.sort_field \in SORT_FIELDS /\ spec.sort_dir \in {1, -1}
      BY <2>2 DEF ValidSpec
    <3>2. q.sort = <<<<spec.sort_field, spec.sort_dir>>>>
      BY <2>2 DEF BuildQuery
    <3> QED
      BY <3>1, <3>2 DEF OneSort
  <2> QED
    BY <2>1, <2>2
<1>5. \A i \in DOMAIN q.sort : q.sort[i][1] \in SORT_FIELDS /\ q.sort[i][2] \in {1, -1}
  BY <1>4 DEF OneSort
<1> HIDE DEF q
<1>6. \A f \in DOMAIN q.filter :
        IF f = "customer.age"
        THEN /\ q.filter[f].kind = "range"
             /\ DOMAIN q.filter[f].range \subseteq {"$gte", "$lte"}
             /\ \A op \in DOMAIN q.filter[f].range :
                  q.filter[f].range[op] \in AGE_MIN .. AGE_MAX
        ELSE q.filter[f].kind = "equals"
  BY <1>2, <1>3, AgesInBounds
<1> QED
  BY <1>1, <1>4, <1>5, <1>6 DEF SafeQuery, q

-----------------------------------------------------------------------------
Fields == {"storeLocation", "purchaseMethod", "customer.age", "saleDate"}

\* The fields selected from a filter, as sequences.
LEMMA SelectedFields ==
  ASSUME NEW q
  PROVE  EqualityFields(q) \in Seq(Fields) /\ RangeFields(q) \in Seq(Fields)
<1>1. ASSUME NEW kind
      PROVE  Selected(q, kind) \in Seq(Fields)
  <2> DEFINE Pick(f) == IF f \in DOMAIN q.filter /\ q.filter[f].kind = kind THEN <<f>> ELSE <<>>
  <2>1. ASSUME NEW f \in Fields PROVE Pick(f) \in Seq(Fields)
    <3>1. <<>> \in Seq(Fields) /\ <<f>> \in Seq(Fields)
      OBVIOUS
    <3> QED
      BY <3>1
  <2> DEFINE stores == Pick("storeLocation")
             methods == Pick("purchaseMethod")
             ages == Pick("customer.age")
  <2>2. stores \in Seq(Fields) /\ methods \in Seq(Fields) /\ ages \in Seq(Fields)
    BY <2>1 DEF Fields
  <2>3. Selected(q, kind) = stores \o methods \o ages
    BY DEF Selected
  <2> HIDE DEF stores, methods, ages
  <2>4. stores \o methods \in Seq(Fields)
    BY <2>2, ConcatProperties
  <2> QED
    BY <2>2, <2>3, <2>4, ConcatProperties
<1> QED
  BY <1>1 DEF EqualityFields, RangeFields

\* Where the elements of a sequence come from, of which the middle part is one.
LEMMA OneBetween ==
  ASSUME NEW S, NEW up \in Seq(S), NEW one \in Seq(S), NEW down \in Seq(S),
         Len(one) = 1
  PROVE  /\ DOMAIN (up \o one \o down) = 1 .. Len(up \o one \o down)
         /\ Len(up) + 1 \in DOMAIN (up \o one \o down)
         /\ \A i \in 1 .. Len(up) : (up \o one \o down)[i] = up[i]
         /\ (up \o one \o down)[Len(up) + 1] = one[1]
<1> DEFINE head == up \o one
           s == head \o down
<1>1. Len(up) \in Nat /\ Len(down) \in Nat
  BY LenProperties
<1>2. head \in Seq(S)
  BY ConcatProperties
<1>3. Len(head) = Len(up) + 1
  <2>1. Len(head) = Len(up) + Len(one)
    BY ConcatProperties
  <2> QED
    BY <2>1
<1>4. \A i \in 1 .. Len(up) + 1 : head[i] = IF i <= Len(up) THEN up[i] ELSE one[i - Len(up)]
  <2>1. \A i \in 1 .. Len(up) + Len(one) :
          head[i] = IF i <= Len(up) THEN up[i] ELSE one[i - Len(up)]
    BY ConcatProperties
  <2> QED
    BY <2>1
<1> HIDE DEF head
<1>5. s \in Seq(S)
  BY <1>2, ConcatProperties
<1>6. Len(s) = Len(head) + Len(down)
  BY <1>2, ConcatProperties
<1>7. \A i \in 1 .. Len(head) + Len(down) :
        s[i] = IF i <= Len(head) THEN head[i] ELSE down[i - Len(head)]
  BY <1>2, ConcatProperties
<1>8. DOMAIN s = 1 .. Len(s)
  BY <1>5, LenProperties
<1> HIDE DEF s
<1>9. \A i \in 1 .. Len(up) + 1 : s[i] = head[i]
  BY <1>1, <1>3, <1>7
<1>10. Len(up) + 1 \in DOMAIN s
  BY <1>1, <1>3, <1>6, <1>8
<1>11. \A i \in 1 .. Len(up) : s[i] = up[i]
  BY <1>1, <1>4, <1>9
<1>12. s[Len(up) + 1] = one[1]
  <2>1. Len(up) + 1 \in 1 .. Len(up) + 1 /\ Len(up) + 1 - Len(up) = 1
    BY <1>1
  <2> QED
    BY <1>1, <1>4, <1>9, <2>1
<1> QED
  BY <1>8, <1>10, <1>11, <1>12 DEF s, head

\* The Equality-Sort-Range rule serves the sort: whatever the filter holds, the
\* index recommended for a query supplies the order it asks for (_esr_index), also
\* when the range is on the sorted field and the driver folds the two keys.
THEOREM EsrIndexSuppliesOrder ==
  ASSUME NEW q, OneSort(q)
  PROVE  SuppliesOrder(KeyPattern(EsrIndex(q)), q)
<1> DEFINE eq == EqualityFields(q)
           rg == RangeFields(q)
           spec == EsrIndex(q)
           key == KeyPattern(spec)
<1>1. CASE q.sort = <<>>
  BY <1>1 DEF SuppliesOrder
<1>2. CASE q.sort # <<>>
  <2>1. PICK field \in SORT_FIELDS, dir \in {1, -1} : q.sort = <<<<field, dir>>>>
    BY <1>2 DEF OneSort
  <2>2. eq \in Seq(Fields) /\ rg \in Seq(Fields)
    BY SelectedFields
  <2> DEFINE n == Len(eq)
  <2> HIDE DEF eq, rg
  <2>3. n \in Nat
    BY <2>2
  <2>4. /\ Ascending(eq) \in Seq(Fields \X Int) /\ Len(Ascending(eq)) = n
        /\ \A i \in 1 .. n : Ascending(eq)[i] = <<eq[i], 1>>
    BY <2>2 DEF Ascending
  <2>5. Ascending(rg) \in Seq(Fields \X Int)
    BY <2>2 DEF Ascending
  <2>6. q.sort \in Seq(Fields \X Int) /\ Len(q.sort) = 1 /\ q.sort[1] = <<field, dir>>
    <3>1. <<field, dir>> \in Fields \X Int
      BY DEF SORT_FIELDS, Fields
    <3> QED
      BY <2>1, <3>1
  <2>7. spec = Ascending(eq) \o q.sort \o Ascending(rg)
    BY DEF EsrIndex, eq, rg
  <2>8. /\ \A i \in 1 .. n : spec[i] = <<eq[i], 1>>
        /\ spec[n + 1] = <<field, dir>>
        /\ DOMAIN spec = 1 .. Len(spec) /\ n + 1 \in DOMAIN spec
    <3> DEFINE up == Ascending(eq)
               one == q.sort
               down == Ascending(rg)
               Pairs == Fields \X Int
    <3>1. up \in Seq(Pairs) /\ one \in Seq(Pairs) /\ down \in Seq(Pairs) /\ Len(one) = 1
      BY <2>4, <2>5, <2>6
    <3>2. spec = up \o one \o down
      BY <2>7
    <3>3. /\ Len(up) = n /\ \A i \in 1 .. n : up[i] = <<eq[i], 1>>
          /\ one[1] = <<field, dir>>
      BY <2>4, <2>6
    <3> HIDE DEF up, one, down, Pairs, spec
    <3>4. /\ DOMAIN spec = 1 .. Len(spec)
          /\ Len(up) + 1 \in DOMAIN spec
          /\ \A i \in 1 .. Len(up) : spec[i] = up[i]
          /\ spec[Len(up) + 1] = one[1]
      BY <3>1, <3>2, OneBetween
    <3> QED
      BY <3>3, <3>4
  <2> HIDE DEF spec, n
  <2>9. DOMAIN key.dir = {spec[i][1] : i \in DOMAIN spec}
    BY DEF KeyPattern
  <2>10. field \in DOMAIN key.dir
    BY <2>8, <2>9
  <2>11. ASSUME NEW f \in DOMAIN key.dir, <<f, field>> \in key.before
         PROVE  f \in Elements(eq)
    <3>1. PICK i \in DOMAIN spec : spec[i][1] = f /\ \A j \in 1 .. i : spec[j][1] # field
      BY <2>11 DEF KeyPattern
    <3>2. i \in 1 .. n
      BY <2>3, <2>8, <3>1
    <3> QED
      BY <2>2, <2>8, <3>1, <3>2 DEF Elements, n
  <2> QED
    BY <2>6, <2>10, <2>11 DEF SuppliesOrder, eq, spec
<1> QED
  BY <1>1, <1>2
=============================================================================
