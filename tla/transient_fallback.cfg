SPECIFICATION Spec
CONSTANTS
  None = None
  Malformed = Malformed
  qa = qa
  qb = qb
  xa = xa
  xb = xb
  Resources = {a1, a2, a3}
  Requests = {r1}
  RunIds = {u1}
  Queries = {qa, qb}
  Indexes = {xa, xb}
  IndexOf <- OwnIndexes
  Streams <- SomeStreams
INVARIANTS TransientErrorSurvived
CHECK_DEADLOCK FALSE
