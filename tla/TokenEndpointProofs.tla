------------------------- MODULE TokenEndpointProofs -------------------------
(***************************************************************************)
(* Theorems about the token endpoint, for every set of requests, clients,  *)
(* codes and exchanges: its issue functions are called for complete        *)
(* requests only, and the redirect URI works as a verifier.                *)
(***************************************************************************)
EXTENDS TokenEndpoint, TLAPS

\* The application's codes are what was granted.
CodesAsGranted ==
  \A k \in Codes :
    granted[k] # None =>
      codes[k] = [client |-> granted[k].client,
                  redirectURI |-> granted[k].requested]

\* A request that was received carries a request whose code, if any, was
\* granted, and only such a request is ever past "idle".
Carried ==
  \A r \in Requests :
    /\ pc[r] # "idle" => incoming[r] # None
    /\ pc[r] = "idle" => gave[r] = "uncalled" /\ incoming[r] = None
    /\ incoming[r] # None /\ incoming[r].code # None =>
         granted[incoming[r].code] # None

\* Where a request is tells what has been established about it.
Progress ==
  \A r \in Requests :
    /\ pc[r] = "exchange" => incoming[r].body /\ incoming[r].type \in registered
    /\ pc[r] = "issue" => gave[r] = "called"
    /\ pc[r] \in {"token", "exchange"} => gave[r] = "uncalled"
    /\ pc[r] = "error" => gave[r] \notin {"token", "tokens"}

Inv == /\ TypeOK /\ CodesAsGranted /\ Carried /\ Progress
       /\ IssuedForCompleteRequests /\ CodeVerified
       /\ FailuresAnsweredAsFailures
-----------------------------------------------------------------------------
LEMMA PlainErrorIsError == PlainError \in Errors
  BY DEF PlainError, Errors, Error

\* An error of the library has a code and a status that say it failed.
LEMMA TokenErrorIsError ==
  ASSUME NEW code \in ErrorCodes
  PROVE  TokenError(code) \in Errors
  BY TokenAssumption
     DEF TokenError, OAuth2Error, StatusOf, Errors, Error, ErrorCodes, Status

\* Whatever the error and the status set before, the answer is a failure.
LEMMA DirectAnswerFails ==
  ASSUME NEW e \in Errors, NEW s \in Status
  PROVE  /\ DirectAnswer(e, s).error \in ErrorCodes
         /\ DirectAnswer(e, s).status \in 400..599
  BY TokenAssumption DEF DirectAnswer, Errors, Error, ErrorCodes, Status

LEMMA InitInv == Init => Inv
  BY TokenAssumption
     DEF Init, Inv, TypeOK, CodesAsGranted, Carried, Progress, Gave, Status,
         IssuedForCompleteRequests, CodeVerified, FailuresAnsweredAsFailures

LEMMA GrantCodeInv ==
  ASSUME Inv, NEW k \in Codes, NEW g \in Grant, GrantCode(k, g)
  PROVE  Inv'
<1> USE TokenAssumption DEF GrantCode, Inv, TypeOK
<1>1. TypeOK'
  BY DEF Grant
<1>2. CodesAsGranted'
  BY DEF CodesAsGranted
<1>3. Carried'
  BY DEF Carried
<1>4. Progress'
  BY DEF Progress
<1>5. IssuedForCompleteRequests'
  BY DEF IssuedForCompleteRequests
<1>6. CodeVerified'
  BY DEF CodeVerified, Carried, Complete, IssuedForCompleteRequests, TokenRequest
<1>7. FailuresAnsweredAsFailures'
  BY DEF FailuresAnsweredAsFailures
<1> QED
  BY <1>1, <1>2, <1>3, <1>4, <1>5, <1>6, <1>7

LEMMA ReceiveInv ==
  ASSUME Inv, NEW r \in Requests, NEW in \in TokenRequests,
         NEW s \in StatusCodes, Receive(r, in, s)
  PROVE  Inv'
<1> USE TokenAssumption DEF Receive, saved, Inv, TypeOK
<1>1. TypeOK'
  OBVIOUS
<1>2. CodesAsGranted'
  BY DEF CodesAsGranted
<1>3. Carried'
  BY DEF Carried
<1>4. Progress'
  BY DEF Progress, Carried
<1>5. IssuedForCompleteRequests'
  BY DEF IssuedForCompleteRequests, Carried
<1>6. CodeVerified'
  BY DEF CodeVerified, Carried
<1>7. FailuresAnsweredAsFailures'
  BY DEF FailuresAnsweredAsFailures
<1> QED
  BY <1>1, <1>2, <1>3, <1>4, <1>5, <1>6, <1>7
-----------------------------------------------------------------------------
\* What has to hold of request r, when it has moved on, for the invariant.
Sound(r) ==
  /\ pc[r] \in {"exchange", "issue", "error", "done", "lost"}
  /\ gave[r] \in Gave
  /\ answer[r] \in Answer \cup {None}
  /\ pc[r] = "error" => err[r] # None /\ gave[r] \notin {"token", "tokens"}
  /\ pc[r] = "exchange" =>
       /\ incoming[r].body /\ incoming[r].type \in registered
       /\ gave[r] = "uncalled"
  /\ pc[r] = "issue" => gave[r] = "called"
  /\ gave[r] # "uncalled" =>
       Complete(incoming[r]) /\ incoming[r].type \in registered
  /\ (/\ gave[r] \in {"token", "tokens", "false"}
      /\ incoming[r].type = "authorization_code") =>
       (gave[r] # "false" <=>
          /\ granted[incoming[r].code].client = incoming[r].client
          /\ granted[incoming[r].code].requested = incoming[r].redirectURI)
  /\ pc[r] = "done" =>
       IF gave[r] \in {"token", "tokens"}
       THEN answer[r].kind = "token" /\ answer[r].refresh_token = (gave[r] = "tokens")
       ELSE answer[r].kind = "error" /\ answer[r].status \in 400..599

\* A step of one request leaves the others and what is saved alone, so that it
\* keeps the invariant when it is sound for that request.
LEMMA Moved ==
  ASSUME Inv, NEW r \in Requests, pc[r] # "idle",
         UNCHANGED <<saved, incoming>>,
         NEW p, pc' = [pc EXCEPT ![r] = p],
         NEW g, gave' = [gave EXCEPT ![r] = g],
         NEW e \in Errors \cup {None}, err' = [err EXCEPT ![r] = e],
         NEW a, answer' = [answer EXCEPT ![r] = a],
         NEW t \in BOOLEAN, returned' = [returned EXCEPT ![r] = t],
         NEW s \in Status, statusCode' = [statusCode EXCEPT ![r] = s],
         Sound(r)'
  PROVE  Inv'
<1> USE DEF Inv, TypeOK, saved, Sound
<1>1. TypeOK'
  OBVIOUS
<1>2. CodesAsGranted'
  BY DEF CodesAsGranted
<1>3. Carried'
  BY DEF Carried
<1>4. Progress'
  BY DEF Progress
<1>5. IssuedForCompleteRequests'
  BY DEF IssuedForCompleteRequests, Complete
<1>6. CodeVerified'
  BY DEF CodeVerified
<1>7. FailuresAnsweredAsFailures'
  BY DEF FailuresAnsweredAsFailures
<1> QED
  BY <1>1, <1>2, <1>3, <1>4, <1>5, <1>6, <1>7

LEMMA FailMoves ==
  ASSUME Inv, NEW r \in Requests, pc[r] # "idle",
         NEW e \in Errors, Fail(r, e),
         NEW g \in Gave \ {"token", "tokens"}, gave' = [gave EXCEPT ![r] = g],
         g # "uncalled" =>
           Complete(incoming[r]) /\ incoming[r].type \in registered,
         g = "false" /\ incoming[r].type = "authorization_code" =>
           ~(/\ granted[incoming[r].code].client = incoming[r].client
             /\ granted[incoming[r].code].requested = incoming[r].redirectURI)
  PROVE  Inv'
<1>1. /\ err' = [err EXCEPT ![r] = e] /\ pc' = [pc EXCEPT ![r] = "error"]
      /\ answer' = [answer EXCEPT ![r] = answer[r]]
      /\ returned' = [returned EXCEPT ![r] = returned[r]]
      /\ statusCode' = [statusCode EXCEPT ![r] = statusCode[r]]
      /\ returned[r] \in BOOLEAN /\ statusCode[r] \in Status
      /\ UNCHANGED <<saved, incoming>>
  BY DEF Fail, saved, Inv, TypeOK
<1>2. e # None
  BY TokenAssumption
<1>3. Sound(r)'
  BY <1>1, <1>2 DEF Sound, saved, Inv, TypeOK, Complete, Gave
<1> QED
  BY <1>1, <1>3, Moved

LEMMA UncalledBefore ==
  ASSUME Inv, NEW r \in Requests, pc[r] \in {"token", "exchange"}
  PROVE  gave' = gave => gave' = [gave EXCEPT ![r] = "uncalled"]
  BY DEF Inv, TypeOK, Progress

\* The fields each exchange requires, and the scope it checks, make its
\* requests complete.
LEMMA ExchangeInv ==
  ASSUME Inv, NEW r \in Requests,
         AuthorizationCode(r) \/ Password(r) \/ RefreshToken(r)
           \/ ClientCredentials(r)
  PROVE  Inv'
<1> DEFINE Refuses == /\ Fail(r, TokenError("invalid_request"))
                      /\ UNCHANGED gave
           Calls == Called(r) /\ Complete(incoming[r])
<1>1. pc[r] = "exchange" /\ incoming[r].body /\ incoming[r].type \in registered
  BY DEF AuthorizationCode, Password, RefreshToken, ClientCredentials, Exchange,
         ScopedExchange, Serves, Inv, Progress
<1>2. Refuses \/ Calls
  <2>1. CASE AuthorizationCode(r)
    BY <1>1, <2>1, TokenAssumption
       DEF AuthorizationCode, Exchange, Serves, Fields, Complete, Inv, TypeOK,
           TokenRequest, Carried
  <2>2. CASE Password(r)
    BY <1>1, <2>2, TokenAssumption
       DEF Password, ScopedExchange, Exchange, Serves, Fields, Complete
  <2>3. CASE RefreshToken(r)
    BY <1>1, <2>3, TokenAssumption
       DEF RefreshToken, ScopedExchange, Exchange, Serves, Fields, Complete
  <2>4. CASE ClientCredentials(r)
    BY <1>1, <2>4, TokenAssumption
       DEF ClientCredentials, ScopedExchange, Exchange, Serves, Fields, Complete
  <2> QED
    BY <2>1, <2>2, <2>3, <2>4
<1>3. CASE Refuses
  BY <1>1, <1>3, UncalledBefore, FailMoves, TokenErrorIsError
     DEF ErrorCodes, Gave
<1>4. CASE Calls
  <2>1. /\ pc' = [pc EXCEPT ![r] = "issue"] /\ gave' = [gave EXCEPT ![r] = "called"]
        /\ err' = [err EXCEPT ![r] = err[r]]
        /\ answer' = [answer EXCEPT ![r] = answer[r]]
        /\ returned' = [returned EXCEPT ![r] = returned[r]]
        /\ statusCode' = [statusCode EXCEPT ![r] = statusCode[r]]
        /\ err[r] \in Errors \cup {None} /\ returned[r] \in BOOLEAN
        /\ statusCode[r] \in Status /\ UNCHANGED <<saved, incoming>>
    BY <1>4 DEF Called, Gives, saved, Inv, TypeOK
  <2>2. Sound(r)'
    BY <2>1, <1>1, <1>4 DEF Sound, saved, Inv, TypeOK, Complete, Gave
  <2> QED
    BY <1>1, <2>1, <2>2, Moved
<1> QED
  BY <1>2, <1>3, <1>4

LEMMA TokenInv ==
  ASSUME Inv, NEW r \in Requests, Token(r)
  PROVE  Inv'
<1>1. pc[r] = "token" /\ gave[r] = "uncalled"
  BY DEF Token, Inv, Progress
<1>2. CASE \/ Fail(r, PlainError) /\ UNCHANGED gave
           \/ Fail(r, TokenError("unsupported_grant_type")) /\ UNCHANGED gave
  BY <1>1, <1>2, UncalledBefore, FailMoves, TokenErrorIsError, PlainErrorIsError
     DEF ErrorCodes, Gave
<1>3. CASE /\ incoming[r].body /\ incoming[r].type \in registered
           /\ pc' = [pc EXCEPT ![r] = "exchange"]
           /\ UNCHANGED <<saved, incoming, statusCode, returned, err, gave, answer>>
  <2>1. /\ gave' = [gave EXCEPT ![r] = "uncalled"]
        /\ err' = [err EXCEPT ![r] = err[r]]
        /\ answer' = [answer EXCEPT ![r] = answer[r]]
        /\ returned' = [returned EXCEPT ![r] = returned[r]]
        /\ statusCode' = [statusCode EXCEPT ![r] = statusCode[r]]
        /\ err[r] \in Errors \cup {None} /\ returned[r] \in BOOLEAN
        /\ statusCode[r] \in Status /\ UNCHANGED <<saved, incoming>>
    BY <1>1, <1>3, UncalledBefore DEF saved, Inv, TypeOK
  <2>2. Sound(r)'
    BY <2>1, <1>1, <1>3 DEF Sound, saved, Inv, TypeOK, Complete, Gave
  <2> QED
    BY <1>1, <1>3, <2>1, <2>2, Moved
<1> QED
  BY <1>2, <1>3 DEF Token

LEMMA VerifiedAsGranted ==
  ASSUME Inv, NEW r \in Requests, pc[r] = "issue",
         incoming[r].type = "authorization_code"
  PROVE  Verified(r) <=>
           /\ granted[incoming[r].code].client = incoming[r].client
           /\ granted[incoming[r].code].requested = incoming[r].redirectURI
<1>1. /\ incoming[r] \in TokenRequest
      /\ incoming[r].code \in Codes
      /\ granted[incoming[r].code] # None
  BY TokenAssumption
     DEF Inv, TypeOK, Carried, Progress, IssuedForCompleteRequests, Complete,
         TokenRequest
<1>2. codes[incoming[r].code] =
        [client |-> granted[incoming[r].code].client,
         redirectURI |-> granted[incoming[r].code].requested]
  BY <1>1 DEF Inv, CodesAsGranted
<1> QED
  BY <1>2 DEF Verified

LEMMA IssuedTokenInv ==
  ASSUME Inv, NEW r \in Requests, IssuedToken(r)
  PROVE  Inv'
<1>1. /\ pc[r] = "issue" /\ gave[r] = "called"
      /\ Complete(incoming[r]) /\ incoming[r].type \in registered
  BY DEF IssuedToken, Inv, Progress, IssuedForCompleteRequests
<1>2. PICK refresh \in BOOLEAN, t \in {"Bearer", "params"} :
        /\ Gives(r, IF refresh THEN "tokens" ELSE "token")
        /\ answer' = [answer EXCEPT ![r] =
                        [kind |-> "token", token_type |-> t,
                         refresh_token |-> refresh, status |-> statusCode[r]]]
  BY DEF IssuedToken
<1>3. /\ pc' = [pc EXCEPT ![r] = "done"]
      /\ err' = [err EXCEPT ![r] = err[r]]
      /\ returned' = [returned EXCEPT ![r] = returned[r]]
      /\ statusCode' = [statusCode EXCEPT ![r] = statusCode[r]]
      /\ err[r] \in Errors \cup {None} /\ returned[r] \in BOOLEAN
      /\ statusCode[r] \in Status /\ UNCHANGED <<saved, incoming>>
  BY DEF IssuedToken, saved, Inv, TypeOK
<1>4. [kind |-> "token", token_type |-> t, refresh_token |-> refresh,
       status |-> statusCode[r]] \in Answer
  BY <1>3 DEF Answer
<1>5. Sound(r)'
  BY <1>1, <1>2, <1>3, <1>4, VerifiedAsGranted
     DEF Sound, Gives, IssuedToken, saved, Inv, TypeOK, Complete, Gave
<1> QED
  BY <1>1, <1>2, <1>3, <1>5, Moved DEF Gives

\* An issue function that gives nothing, reports an error or throws.
LEMMA IssueFailsInv ==
  ASSUME Inv, NEW r \in Requests,
         IssuedNothing(r) \/ IssuedError(r) \/ IssueReturns(r) \/ IssueThrows(r)
  PROVE  Inv'
<1>1. /\ pc[r] = "issue" /\ gave[r] = "called"
      /\ Complete(incoming[r]) /\ incoming[r].type \in registered
  BY DEF IssuedNothing, IssuedError, IssueReturns, IssueThrows, Inv, Progress,
         IssuedForCompleteRequests
<1>2. CASE IssuedNothing(r)
  BY <1>1, <1>2, FailMoves, TokenErrorIsError, VerifiedAsGranted
     DEF IssuedNothing, Gives, ErrorCodes, Gave
<1>3. CASE IssuedError(r)
  BY <1>1, <1>3, FailMoves, TokenAssumption DEF IssuedError, Gives, Gave
<1>4. CASE IssueThrows(r) /\ ~returned[r]
  BY <1>1, <1>4, FailMoves, PlainErrorIsError DEF IssueThrows, Gives, Gave
<1>5. CASE IssueReturns(r) \/ (IssueThrows(r) /\ returned[r])
  <2> DEFINE p == IF IssueReturns(r) THEN "issue" ELSE "lost"
             g == IF IssueReturns(r) THEN "called" ELSE "thrown"
  <2>1. /\ pc' = [pc EXCEPT ![r] = p] /\ gave' = [gave EXCEPT ![r] = g]
        /\ returned' = [returned EXCEPT ![r] = TRUE]
        /\ err' = [err EXCEPT ![r] = err[r]]
        /\ answer' = [answer EXCEPT ![r] = answer[r]]
        /\ statusCode' = [statusCode EXCEPT ![r] = statusCode[r]]
        /\ err[r] \in Errors \cup {None} /\ statusCode[r] \in Status
        /\ UNCHANGED <<saved, incoming>>
    BY <1>1, <1>5 DEF IssueReturns, IssueThrows, Gives, saved, Inv, TypeOK
  <2>2. Sound(r)'
    BY <2>1, <1>1 DEF Sound, saved, Inv, TypeOK, Complete, Gave
  <2> QED
    BY <1>1, <2>1, <2>2, Moved
<1> QED
  BY <1>2, <1>3, <1>4, <1>5 DEF IssueThrows, Inv, TypeOK

LEMMA HandleErrorInv ==
  ASSUME Inv, NEW r \in Requests, HandleError(r)
  PROVE  Inv'
<1> DEFINE e == DirectAnswer(err[r], statusCode[r])
           a == [kind |-> "error", error |-> e.error, status |-> e.status]
<1>1. /\ pc[r] = "error" /\ gave[r] \notin {"token", "tokens"}
      /\ err[r] \in Errors /\ statusCode[r] \in Status
  BY DEF HandleError, Inv, TypeOK, Progress
<1>2. e.error \in ErrorCodes /\ e.status \in 400..599
  BY <1>1, DirectAnswerFails
<1>3. a \in Answer /\ e.status \in Status /\ a.kind = "error"
      /\ a.status \in 400..599
  BY <1>2 DEF Answer, Status
<1>4. /\ pc' = [pc EXCEPT ![r] = "done"] /\ gave' = [gave EXCEPT ![r] = gave[r]]
      /\ err' = [err EXCEPT ![r] = err[r]]
      /\ answer' = [answer EXCEPT ![r] = a]
      /\ returned' = [returned EXCEPT ![r] = returned[r]]
      /\ statusCode' = [statusCode EXCEPT ![r] = e.status]
      /\ returned[r] \in BOOLEAN /\ UNCHANGED <<saved, incoming>>
  BY DEF HandleError, saved, Inv, TypeOK
<1> HIDE DEF a, e
<1>5. Sound(r)'
  BY <1>1, <1>3, <1>4
     DEF Sound, saved, Inv, TypeOK, Complete, Gave, IssuedForCompleteRequests,
         CodeVerified, Carried
<1> QED
  BY <1>1, <1>3, <1>4, <1>5, Moved

LEMMA StepInv == Inv /\ [Next]_vars => Inv'
<1> SUFFICES ASSUME Inv, [Next]_vars PROVE Inv'
  OBVIOUS
<1>1. CASE UNCHANGED vars
  BY <1>1 DEF vars, Inv, TypeOK, CodesAsGranted, Carried, Progress, Complete,
              IssuedForCompleteRequests, CodeVerified, FailuresAnsweredAsFailures
<1>2. CASE \E k \in Codes, g \in Grant : GrantCode(k, g)
  BY <1>2, GrantCodeInv
<1>3. CASE \E r \in Requests, in \in TokenRequests, s \in StatusCodes :
             Receive(r, in, s)
  BY <1>3, ReceiveInv
<1>4. CASE \E r \in Requests : Step(r)
  BY <1>4, TokenInv, ExchangeInv, IssuedTokenInv, IssueFailsInv, HandleErrorInv
     DEF Step
<1> QED
  BY <1>1, <1>2, <1>3, <1>4 DEF Next

LEMMA AlwaysInv == Spec => []Inv
  BY InitInv, StepInv, PTL DEF Spec

\* The variables of the token endpoint keep their types, and the error handler
\* is never entered without an error.
THEOREM TokenTypesKept == Spec => []TypeOK
  BY AlwaysInv, PTL DEF Inv

\* An application's issue function may rely on what it is given: it is never
\* called for a request without the credentials of its grant type.
THEOREM CompleteRequestsOnly == Spec => []IssuedForCompleteRequests
  BY AlwaysInv, PTL DEF Inv

\* The redirect URI the code grant and the exchange hand to the application
\* serves as a verifier: codes yield tokens exactly to their own clients, and
\* only with the redirect_uri they were requested with.
THEOREM RedirectURIVerifies == Spec => []CodeVerified
  BY AlwaysInv, PTL DEF Inv

\* No failure is answered as a success.
THEOREM FailuresStayFailures == Spec => []FailuresAnsweredAsFailures
  BY AlwaysInv, PTL DEF Inv
==============================================================================
