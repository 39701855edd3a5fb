SPECIFICATION Spec
CONSTANTS
  None = None
  x1 = x1
  Proposals = {h1}
  Approvers = {ann}
  Instances = {i1}
  RunRequests = {q1}
  DecisionRequests = {d1, d2}
  RunIds = {u1}
  Indexes = {x1}
  IndexOf <- SameIndex
  UseAgent = FALSE
  MaxDisturbances = 0
SYMMETRY Symmetry
INVARIANTS OneTimeTicket
CHECK_DEADLOCK FALSE
