\* Two requests handled at a time, three in all, under each error middleware.
SPECIFICATION Spec
CONSTANTS
  Requests = {r1, r2, r3}
  Clients = {c1}
  URIs = {u1, u2}
  WebOrigins = {}
  AuthzRequests <- OneRequest
  ErrorMounts = {"none", "authorizationError", "indirect"}
  MaxInFlight = 2
  CodeModes = {"query"}
  TokenModes = {"fragment"}
  IndirectModes = {"query", "fragment"}
  FragmentTypes = {"token"}
  None = None
SYMMETRY Symmetry
CHECK_DEADLOCK FALSE
INVARIANTS
  TypeOK
  RedirectsAsValidated
  StoredUndecided
  StoredSerialized
PROPERTIES
  NoRedirectForDeauthorized
  AnsweredIsRemoved
