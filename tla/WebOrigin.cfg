\* A transaction opened with a web origin and resumed.
SPECIFICATION Spec
CONSTANTS
  Requests = {r1, r2}
  Clients = {c1}
  URIs = {u1}
  WebOrigins = {w1}
  AuthzRequests <- OneRequest
  ErrorMounts = {"authorizationError"}
  MaxInFlight = 1
  CodeModes = {"query"}
  TokenModes = {"fragment"}
  IndirectModes = {"query", "fragment"}
  FragmentTypes = {"token"}
  None = None
SYMMETRY Symmetry
CHECK_DEADLOCK FALSE
INVARIANTS
  WebOriginRestored
