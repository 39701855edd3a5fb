----------------------------- MODULE MCWorkload -----------------------------
(* Instances of Workload for TLC.                                          *)
EXTENDS WorkloadInvariant, TLC

Stores == {"Austin", "Denver", "London", "New York", "San Diego", "Seattle"}
Methods == {"In store", "Online", "Phone"}

Trapped == Sp("Denver", None, 30, 50, "saleDate", -1)
Oldest == Sp("Austin", None, 40, 60, "saleDate", 1)
Lookup == Sp("Denver", None, None, None, None, -1)
Online == Sp(None, "Online", 18, None, "saleDate", -1)
Youngest == Sp("Denver", None, 30, 50, "customer.age", 1)
Eldest == Sp("Denver", None, None, 50, "customer.age", -1)
Anyone == Sp(None, None, 30, 50, None, -1)
TooOld == Sp("Denver", None, 30, 80, None, -1)
Backwards == Sp("Denver", None, 50, 30, None, -1)

QueueSpecs == {Trapped, Youngest, Anyone, Lookup, TooOld, Backwards}
FixSpecs == {Trapped, Oldest, Online, Youngest}
AgeSpecs == {Youngest, Eldest}

Scan(docs, returned, keys, millis) ==
  [docs_examined |-> docs, docs_returned |-> returned, total_keys_examined |-> keys,
   millis |-> millis]

\* A full scan that returns nothing, a sort of every match, a read in the order
\* of an index, and a read of nothing.
FullScan == Scan(300000, 0, 0, 90)
SortedMatches == Scan(20, 20, 50000, 60)
InOrder == Scan(20, 20, 20, 1)
Nothing == Scan(0, 0, 0, 1)
QueueScans == {FullScan, SortedMatches, Nothing}
FixScans == {FullScan, SortedMatches, InOrder}

Symmetry == Permutations(Requests) \cup Permutations(Runs)
=============================================================================
