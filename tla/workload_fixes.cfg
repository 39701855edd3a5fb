SPECIFICATION Spec
CONSTANTS
  None = None
  Fixture = Fixture
  STORE_LOCATIONS <- Stores
  PURCHASE_METHODS <- Methods
  AGE_MIN = 16
  AGE_MAX = 75
  MAX_LIMIT = 200
  SLOW_RATIO = 25
  SLOW_QUEUE_LIMIT = 100
  Requests = {r1}
  Runs = {d1, d2}
  Specs <- FixSpecs
  Scans <- FixScans
SYMMETRY Symmetry
INVARIANTS NoSortAfterFix VerifiedOnItsIndex FixServesItsClass
PROPERTIES ResetRestoresTraps
CHECK_DEADLOCK FALSE
