SPECIFICATION Spec
CONSTANTS
  None = None
  x1 = x1
  Proposals = {h1, h2}
  Approvers = {ann}
  Instances = {i1, i2}
  RunRequests = {q1, q2}
  DecisionRequests = {d1, d2}
  RunIds = {u1}
  Indexes = {x1}
  IndexOf <- SameIndex
  UseAgent = FALSE
  MaxDisturbances = 1
SYMMETRY Symmetry
INVARIANTS FlowInv WriteAheadAudit GatedMutation ApplicationsAreReal
           DecidedByOperator PacksAreValid AcceptedIsDecidable
PROPERTIES ReportedIsAudited ImplementsPromise ImplementsRecord
CHECK_DEADLOCK FALSE
