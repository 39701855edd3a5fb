SPECIFICATION Spec
CONSTANTS
  None = None
  x1 = x1
  Proposals = {h1, h2}
  Approvers = {ann}
  Instances = {i1}
  RunRequests = {q1, q2}
  DecisionRequests = {d1}
  RunIds = {u1}
  Indexes = {x1}
  IndexOf <- SameIndex
  UseAgent = FALSE
  MaxDisturbances = 0
SYMMETRY Symmetry
PROPERTIES DecisionMatchesCurrentPack
CHECK_DEADLOCK FALSE
