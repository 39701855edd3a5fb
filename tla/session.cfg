SPECIFICATION FairSpec
CONSTANTS
  None = None
  Users = {guest}
  Guest = guest
  Secrets = {k1, k2}
  FirstSecret = k1
  TTL = 1
  Sub = 2
  MaxSecond = 2
  MaxRotations = 1
INVARIANTS DashboardIsStricter PagesFitRoles BoundedRevocation RedirectsEnd SessionInv
PROPERTY EveryVisitEnds
CHECK_DEADLOCK FALSE
