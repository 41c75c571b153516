---------------------------- MODULE TokenEndpoint ----------------------------
(***************************************************************************)
(* The token endpoint: lib/middleware/token.js, the exchange chain of      *)
(* lib/server.js, the four exchanges of lib/exchange and the direct error  *)
(* handler behind them, together with the call of the code grant that      *)
(* gives the application what an exchange later verifies.                  *)
(*                                                                         *)
(* The application (external) is the one of the repository's README: it    *)
(* saves a code with the client and redirect URI it is given, and issues a *)
(* token for it when the same two are presented.  Its issue functions may  *)
(* call back before they return or later, fail, or throw.                  *)
(***************************************************************************)
EXTENDS Errors

CONSTANTS Requests,       \* token requests, used once each
          Clients, URIs, Codes,
          TokenRequests,  \* the token requests that may arrive
          Registrations,  \* sets of exchanges the application may register
          AppErrors,      \* errors the application's functions report
          StatusCodes     \* what res.statusCode may be on arrival

GrantTypes == {"authorization_code", "password", "refresh_token",
               "client_credentials"}

\* The body of a token request (none: no body parser is mounted).  `fields' are
\* the fields that are present, of those whose value decides nothing here;
\* `scope' is a string, or not one when the field is repeated.
TokenRequest ==
  [body: BOOLEAN, type: GrantTypes \cup {"other"}, client: Clients,
   fields: SUBSET {"username", "password", "refresh_token"},
   code: Codes \cup {None}, redirectURI: URIs \cup {None},
   scope: {"none", "string", "list"}]

\* What the code grant was asked for: the redirect_uri of the client's request,
\* if it sent one, and the URI the application validated for it.
Grant == [client: Clients, requested: URIs \cup {None}, validated: URIs]

ErrorCodes == {"server_error", "invalid_request", "invalid_client",
               "invalid_grant", "unauthorized_client",
               "unsupported_grant_type", "invalid_scope",
               "temporarily_unavailable"}
Status == 100..599
Errors == Error(ErrorCodes, Status)

Gave == {"uncalled", "called", "token", "tokens", "false", "error", "thrown"}

Answer == [kind: {"token"}, token_type: {"Bearer", "params"},
           refresh_token: BOOLEAN, status: Status]
          \cup [kind: {"error"}, error: ErrorCodes, status: Status]

ASSUME TokenAssumption ==
  /\ TokenRequests \subseteq TokenRequest
  /\ Registrations \subseteq SUBSET GrantTypes
  /\ AppErrors \subseteq Errors
  /\ StatusCodes \subseteq Status
  /\ None \notin Clients \cup URIs \cup Codes
  /\ None \notin TokenRequest \cup Grant \cup Answer \cup Errors
  /\ None \notin ErrorCodes /\ None \notin Status

VARIABLES registered,  \* the grant types an exchange is registered for
          granted,     \* history: what each code was granted for
          codes,       \* the application's codes: [client, redirectURI]
          pc,          \* where each request is
          incoming,    \* what each request carries
          statusCode,  \* res.statusCode
          returned,    \* the issue function has returned to the exchange
          err,         \* what next() was called with
          gave,        \* history: what the issue function did
          answer       \* what the client was answered

vars == <<registered, granted, codes, pc, incoming, statusCode, returned, err,
          gave, answer>>
saved == <<registered, granted, codes>>

Init ==
  /\ registered \in Registrations
  /\ granted = [k \in Codes |-> None]
  /\ codes = [k \in Codes |-> None]
  /\ pc = [r \in Requests |-> "idle"]
  /\ incoming = [r \in Requests |-> None]
  /\ statusCode = [r \in Requests |-> 200]
  /\ returned = [r \in Requests |-> FALSE]
  /\ err = [r \in Requests |-> None]
  /\ gave = [r \in Requests |-> "uncalled"]
  /\ answer = [r \in Requests |-> None]

\* Mutant of GrantCode: the grant hands over the URI it redirects to.
GrantCodeValidated(k, g) ==
  /\ granted[k] = None
  /\ granted' = [granted EXCEPT ![k] = g]
  /\ codes' = [codes EXCEPT ![k] = [client |-> g.client,
                                    redirectURI |-> g.validated]]
  /\ UNCHANGED <<registered, pc, incoming, statusCode, returned, err, gave,
                 answer>>

\* The code grant issues a code: it hands over the redirect_uri of the request,
\* not the URI the user agent is redirected to.
GrantCode(k, g) ==
  /\ granted[k] = None
  /\ granted' = [granted EXCEPT ![k] = g]
  /\ codes' = [codes EXCEPT ![k] = [client |-> g.client,
                                    redirectURI |-> g.requested]]
  /\ UNCHANGED <<registered, pc, incoming, statusCode, returned, err, gave,
                 answer>>

\* A request arrives from an authenticated client; middleware in front may have
\* set a status.
Receive(r, in, status) ==
  /\ pc[r] = "idle" /\ pc' = [pc EXCEPT ![r] = "token"]
  /\ in.code # None => granted[in.code] # None
  /\ incoming' = [incoming EXCEPT ![r] = in]
  /\ statusCode' = [statusCode EXCEPT ![r] = status]
  /\ UNCHANGED <<saved, returned, err, gave, answer>>

\* Mutant of Fail: next() is called without the error.
FailSilently(r, e) ==
  /\ pc' = [pc EXCEPT ![r] = "error"]
  /\ UNCHANGED <<saved, incoming, statusCode, returned, err, answer>>

\* next(e): control is with the error handler.
Fail(r, e) ==
  /\ pc' = [pc EXCEPT ![r] = "error"]
  /\ err' = [err EXCEPT ![r] = e]
  /\ UNCHANGED <<saved, incoming, statusCode, returned, answer>>

Gives(r, what) == gave' = [gave EXCEPT ![r] = what]
-----------------------------------------------------------------------------
\* server.token(): reads the type from the body, without which it throws into
\* the web framework, and goes through the exchanges.
Token(r) ==
  /\ pc[r] = "token"
  /\ \/ ~incoming[r].body /\ Fail(r, PlainError) /\ UNCHANGED gave
     \/ /\ incoming[r].body /\ incoming[r].type \in registered
        /\ pc' = [pc EXCEPT ![r] = "exchange"]
        /\ UNCHANGED <<saved, incoming, statusCode, returned, err, gave, answer>>
     \/ /\ incoming[r].body /\ incoming[r].type \notin registered
        /\ Fail(r, TokenError("unsupported_grant_type")) /\ UNCHANGED gave

\* The fields of a request an exchange may insist on.
Fields(in) == in.fields \cup IF in.code = None THEN {} ELSE {"code"}

Called(r) ==
  /\ pc' = [pc EXCEPT ![r] = "issue"]
  /\ Gives(r, "called")
  /\ UNCHANGED <<saved, incoming, statusCode, returned, err, answer>>

Serves(r, type) == pc[r] = "exchange" /\ incoming[r].type = type

\* An exchange of one type: refuses a request without the fields it requires,
\* or calls the application's issue function.
Exchange(r, type, required) ==
  /\ Serves(r, type)
  /\ \/ /\ ~(required \subseteq Fields(incoming[r]))
        /\ Fail(r, TokenError("invalid_request")) /\ UNCHANGED gave
     \/ required \subseteq Fields(incoming[r]) /\ Called(r)

\* One that also takes a scope refuses a scope that is not a string.
ScopedExchange(r, type, required) ==
  /\ Serves(r, type)
  /\ \/ incoming[r].scope # "list" /\ Exchange(r, type, required)
     \/ /\ incoming[r].scope = "list"
        /\ Fail(r, TokenError("invalid_request")) /\ UNCHANGED gave

AuthorizationCode(r) == Exchange(r, "authorization_code", {"code"})

\* Mutant of Password: either of the two will do.
PasswordEither(r) ==
  \E f \in {"username", "password"} : ScopedExchange(r, "password", {f})

Password(r) == ScopedExchange(r, "password", {"username", "password"})
RefreshToken(r) == ScopedExchange(r, "refresh_token", {"refresh_token"})
ClientCredentials(r) == ScopedExchange(r, "client_credentials", {})
-----------------------------------------------------------------------------
\* The application issues a token for a code when the client and redirect URI
\* the exchange passes on are those the grant passed on.
Verified(r) ==
  codes[incoming[r].code] = [client |-> incoming[r].client,
                             redirectURI |-> incoming[r].redirectURI]

\* issued(null, accessToken, refreshToken, params); the params may come in the
\* place of the refresh token, and name another type of token.
IssuedToken(r) ==
  /\ pc[r] = "issue"
  /\ incoming[r].type = "authorization_code" => Verified(r)
  /\ pc' = [pc EXCEPT ![r] = "done"]
  /\ \E refresh \in BOOLEAN, t \in {"Bearer", "params"} :
       /\ Gives(r, IF refresh THEN "tokens" ELSE "token")
       /\ answer' = [answer EXCEPT ![r] =
                       [kind |-> "token", token_type |-> t,
                        refresh_token |-> refresh, status |-> statusCode[r]]]
  /\ UNCHANGED <<saved, incoming, statusCode, returned, err>>

\* issued(null, false): nothing to issue for what was presented.
IssuedNothing(r) ==
  /\ pc[r] = "issue"
  /\ incoming[r].type = "authorization_code" => ~Verified(r)
  /\ Fail(r, TokenError("invalid_grant")) /\ Gives(r, "false")

IssuedError(r) ==
  pc[r] = "issue" /\ Gives(r, "error") /\ \E e \in AppErrors : Fail(r, e)

\* The issue function returns without having called back.
IssueReturns(r) ==
  /\ pc[r] = "issue" /\ ~returned[r]
  /\ returned' = [returned EXCEPT ![r] = TRUE]
  /\ UNCHANGED <<saved, pc, incoming, statusCode, err, gave, answer>>

\* Mutant of IssueThrows: the exchange does not catch what issue throws.
IssueThrowsPast(r) ==
  /\ pc[r] = "issue" /\ Gives(r, "thrown")
  /\ pc' = [pc EXCEPT ![r] = "lost"]
  /\ UNCHANGED <<saved, incoming, statusCode, returned, err, answer>>

\* It throws: into the exchange, or, from a callback of its own, out of reach.
IssueThrows(r) ==
  /\ pc[r] = "issue" /\ Gives(r, "thrown")
  /\ \/ ~returned[r] /\ Fail(r, PlainError)
     \/ /\ returned[r]
        /\ pc' = [pc EXCEPT ![r] = "lost"]
        /\ UNCHANGED <<saved, incoming, statusCode, returned, err, answer>>

HandleError(r) ==
  /\ pc[r] = "error" /\ pc' = [pc EXCEPT ![r] = "done"]
  /\ LET e == DirectAnswer(err[r], statusCode[r])
     IN /\ statusCode' = [statusCode EXCEPT ![r] = e.status]
        /\ answer' = [answer EXCEPT ![r] = [kind |-> "error", error |-> e.error,
                                            status |-> e.status]]
  /\ UNCHANGED <<saved, incoming, returned, err, gave>>

Step(r) ==
  \/ Token(r) \/ AuthorizationCode(r) \/ Password(r) \/ RefreshToken(r)
  \/ ClientCredentials(r) \/ IssuedToken(r) \/ IssuedNothing(r)
  \/ IssuedError(r) \/ IssueReturns(r) \/ IssueThrows(r) \/ HandleError(r)

Next ==
  \/ \E k \in Codes, g \in Grant : GrantCode(k, g)
  \/ \E r \in Requests, in \in TokenRequests, s \in StatusCodes :
       Receive(r, in, s)
  \/ \E r \in Requests : Step(r)

\* The library runs on, and an issue function calls back or throws in the end.
Spec == Init /\ [][Next]_vars /\ \A r \in Requests : WF_vars(Step(r))
-----------------------------------------------------------------------------
TypeOK ==
  /\ registered \in Registrations
  /\ granted \in [Codes -> Grant \cup {None}]
  /\ codes \in [Codes -> [client: Clients, redirectURI: URIs \cup {None}]
                          \cup {None}]
  /\ pc \in [Requests -> {"idle", "token", "exchange", "issue", "error",
                          "done", "lost"}]
  /\ incoming \in [Requests -> TokenRequests \cup {None}]
  /\ statusCode \in [Requests -> Status]
  /\ returned \in [Requests -> BOOLEAN]
  /\ err \in [Requests -> Errors \cup {None}]
  /\ \A r \in Requests : pc[r] = "error" => err[r] # None
  /\ gave \in [Requests -> Gave]
  /\ answer \in [Requests -> Answer \cup {None}]

\* The body is there, and in it what RFC 6749 requires for its grant type.
Complete(in) ==
  /\ in.body
  /\ in.type = "authorization_code" => in.code # None
  /\ in.type = "password" => {"username", "password"} \subseteq in.fields
  /\ in.type = "refresh_token" => "refresh_token" \in in.fields
  /\ in.type # "authorization_code" => in.scope # "list"

\* The application's issue function is called, and its token handed out, only
\* for a complete request of a type that was registered, whichever exchange
\* serves it: it may rely on the credentials it is given to be there.
IssuedForCompleteRequests ==
  \A r \in Requests :
    gave[r] # "uncalled" =>
      Complete(incoming[r]) /\ incoming[r].type \in registered

\* The redirect URI as a verifier (code.js:175-181), over both endpoints: with
\* an application that compares what it is given at each, a code yields a token
\* exactly for the client it was granted to, when that client repeats the
\* redirect_uri of its authorization request, and none if it sent none.
CodeVerified ==
  \A r \in Requests :
    incoming[r] # None /\ gave[r] \in {"token", "tokens", "false"} =>
      LET in == incoming[r]
      IN in.type = "authorization_code" =>
           (gave[r] # "false" <=> /\ granted[in.code].client = in.client
                                  /\ granted[in.code].requested = in.redirectURI)

\* A request is answered with the token its issue function gave, or else with
\* the status of a failure, whatever status the application's error, or
\* middleware in front of the endpoint, has set.
FailuresAnsweredAsFailures ==
  \A r \in Requests :
    pc[r] = "done" =>
      IF gave[r] \in {"token", "tokens"}
      THEN answer[r].kind = "token" /\ answer[r].refresh_token = (gave[r] = "tokens")
      ELSE answer[r].kind = "error" /\ answer[r].status \in 400..599

\* Every token request is answered, unless the issue function throws after it
\* has returned, where no exchange can catch it.
TokenRequestsAnswered ==
  \A r \in Requests :
    pc[r] = "token" ~> pc[r] = "done" \/ (pc[r] = "lost" /\ returned[r])
=============================================================================
