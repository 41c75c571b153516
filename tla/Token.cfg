SPECIFICATION Spec
CONSTANTS
  c1 = c1  c2 = c2  u1 = u1  u2 = u2  k1 = k1  r1 = r1  r2 = r2
  None = None
  Requests = {r1}
  Clients = {c1, c2}
  URIs = {u1, u2}
  Codes = {k1}
  TokenRequests <- MCTokenRequests
  Registrations <- MCRegistrations
  AppErrors <- MCAppErrors
  StatusCodes = {200, 401}
INVARIANTS TypeOK IssuedForCompleteRequests CodeVerified FailuresAnsweredAsFailures
PROPERTY TokenRequestsAnswered
CHECK_DEADLOCK FALSE
