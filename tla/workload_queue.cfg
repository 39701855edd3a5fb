SPECIFICATION Spec
CONSTANTS
  None = None
  Fixture = Fixture
  STORE_LOCATIONS <- Stores
  PURCHASE_METHODS <- Methods
  AGE_MIN = 16
  AGE_MAX = 75
  MAX_LIMIT = 200
  SLOW_RATIO = 25
  SLOW_QUEUE_LIMIT = 1
  Requests = {r1, r2}
  Runs = {d1}
  Specs <- QueueSpecs
  Scans <- QueueScans
SYMMETRY Symmetry
INVARIANTS WorkloadInv LoggedIsSafe SortsRankFirst
CHECK_DEADLOCK FALSE
