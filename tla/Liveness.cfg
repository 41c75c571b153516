\* Two concurrent requests under fairness of the middleware steps.
SPECIFICATION FairSpec
CONSTANTS
  Requests = {r1, r2}
  Clients = {c1}
  URIs = {u1}
  WebOrigins = {}
  AuthzRequests <- OneRequest
  ErrorMounts = {"none", "authorizationError", "indirect"}
  MaxInFlight = 2
  CodeModes = {"query"}
  TokenModes = {"fragment"}
  IndirectModes = {"query", "fragment"}
  FragmentTypes = {"token"}
  None = None
CHECK_DEADLOCK FALSE
PROPERTIES
  EveryRequestAnswered
  ProxiedIsRemoved
