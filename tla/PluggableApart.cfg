SPECIFICATION ApartSpec
CONSTANTS
  Requests = {r1, r2, r3, r4}
  ErrorMounts = {"none", "authorizationError"}
  Reliable = TRUE
  Ordered = TRUE
  MaxUpdates = 1
  MaxInFlight = 2
  None = None
SYMMETRY Symmetry
\* Requests are used up.
CHECK_DEADLOCK FALSE
PROPERTY ImplementsLifecycle
