SPECIFICATION Spec
CONSTANTS
  None = None
  Malformed = Malformed
  qa = qa
  qb = qb
  xa = xa
  xb = xb
  Resources = {a1, a2, a3}
  Requests = {r1, r2}
  RunIds = {u1}
  Queries = {qa, qb}
  Indexes = {xa, xb}
  IndexOf <- OwnIndexes
  Streams <- SomeStreams
SYMMETRY Symmetry
INVARIANTS ControllerDecides AgentEvidenceIsAccounted DiagnosisIsOfOnePiece FailsClosed
           PipelineInv
CHECK_DEADLOCK FALSE
