--------------------------- MODULE MCApprovalFlow ---------------------------
(* Instances of ApprovalFlow for TLC.                                      *)
EXTENDS SingleInstance, TLC

CONSTANTS x1

\* Every proposal recommends the one index: the query is the same, the
\* evidence differs from one diagnosis to the next.
SameIndex == [h \in Proposals |-> x1]

\* The members of each of these sets are alike.
Symmetry ==
  Permutations(RunRequests) \cup Permutations(DecisionRequests)
    \cup Permutations(Instances) \cup Permutations(Approvers) \cup Permutations(Proposals)
=============================================================================
