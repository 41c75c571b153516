\* Two decisions on one transaction, handled at the same time.
SPECIFICATION Spec
CONSTANTS
  Requests = {r1, r2, r3}
  Clients = {c1}
  URIs = {u1}
  WebOrigins = {}
  AuthzRequests <- OneRequest
  ErrorMounts = {"authorizationError"}
  MaxInFlight = 2
  CodeModes = {"query"}
  TokenModes = {"fragment"}
  IndirectModes = {"query", "fragment"}
  FragmentTypes = {"token"}
  None = None
SYMMETRY Symmetry
CHECK_DEADLOCK FALSE
INVARIANTS
  DecidedOnce
