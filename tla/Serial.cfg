\* One request handled at a time, so that no copy of the session is stale.
SPECIFICATION Spec
CONSTANTS
  Requests = {r1, r2, r3}
  Clients = {c1}
  URIs = {u1}
  WebOrigins = {}
  AuthzRequests <- TwoRequests
  ErrorMounts = {"none", "authorizationError"}
  MaxInFlight = 1
  CodeModes = {"query"}
  TokenModes = {"fragment"}
  IndirectModes = {"query", "fragment"}
  FragmentTypes = {"token"}
  None = None
SYMMETRY Symmetry
CHECK_DEADLOCK FALSE
INVARIANTS
  DecidedOnce
PROPERTIES
  ImplementsLifecycle
