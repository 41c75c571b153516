\* A decision that fails before the verdict, no error middleware mounted.
SPECIFICATION Spec
CONSTANTS
  Requests = {r1, r2}
  Clients = {c1}
  URIs = {u1}
  WebOrigins = {}
  AuthzRequests <- OneRequest
  ErrorMounts = {"none"}
  MaxInFlight = 1
  CodeModes = {"query"}
  TokenModes = {"fragment"}
  IndirectModes = {"query", "fragment"}
  FragmentTypes = {"token"}
  None = None
SYMMETRY Symmetry
CHECK_DEADLOCK FALSE
INVARIANTS
  ClientsAreSerialized
