---------------------------- MODULE MCRunReview ----------------------------
(* Instances of RunReview for TLC.                                         *)
EXTENDS ReviewInvariant, TLC

CONSTANTS d1, d2, l1, l2, h1, h2

Symmetry == Permutations({d1, d2}) \cup Permutations({l1, l2}) \cup Permutations({h1, h2})
=============================================================================
