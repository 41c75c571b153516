SPECIFICATION FairSpec
CONSTANTS
  Requests = {r1, r2, r3}
  ErrorMounts = {"none", "authorizationError"}
  Reliable = FALSE
  Ordered = FALSE
  MaxUpdates = 1
  MaxInFlight = 2
  None = None
INVARIANTS TypeOK RemovalArranged StoredUnmarked
CHECK_DEADLOCK FALSE
PROPERTY DecidedIsGone
