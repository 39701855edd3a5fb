SPECIFICATION FairSpec
CONSTANTS
  None = None
  x1 = x1
  Proposals = {h1, h2}
  Approvers = {ann, bob}
  Instances = {i1}
  RunRequests = {q1, q2}
  DecisionRequests = {d1, d2}
  RunIds = {u1}
  Indexes = {x1}
  IndexOf <- SameIndex
  UseAgent = TRUE
  MaxDisturbances = 0
INVARIANTS SoloInv AuditAgrees
PROPERTIES RejectionNeverHidesApplication EveryRequestEnds ApplicationIsAudited
CHECK_DEADLOCK FALSE
