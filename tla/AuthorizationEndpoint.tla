----------------------- MODULE AuthorizationEndpoint -----------------------
(***************************************************************************)
(* The user authorization endpoint of oauth2orize: the middleware that     *)
(* takes an authorization request to a dialog and the user's decision back *)
(* to the client, as concurrent HTTP requests of one user agent session.   *)
(*                                                                         *)
(*   authorization  lib/middleware/authorization.js                        *)
(*   resume         lib/middleware/transactionLoader.js, resume.js         *)
(*   decision       lib/middleware/transactionLoader.js, decision.js       *)
(*   error handling authorizationErrorHandler.js, errorHandler.js          *)
(*   transactions   lib/txn/session.js                                     *)
(*                                                                         *)
(* A transaction is named by the request that opened it, so a transaction  *)
(* ID never repeats.  Each request works on the copy of the session it was *)
(* given on arrival; the session middleware (external) writes the whole    *)
(* copy back when the response ends, and the last writer wins.             *)
(***************************************************************************)
EXTENDS ResponseModes, FiniteSets, Naturals

CONSTANTS Requests,        \* HTTP requests of the session, used once each
          Clients, URIs, WebOrigins,
          AuthzRequests,   \* the parsed authorization requests that may arrive
          ErrorMounts,     \* error middleware the application may mount
          MaxInFlight,     \* bound: requests handled at the same time
          None

Kinds == {"authorization", "resume", "decision"}

\* `req.oauth2', and equally a transaction stored in the session.  `live' says
\* that the client field holds the object the application's validate or
\* deserialize function produced, not its serialized form; `res' is the user's
\* decision, `endProxied' the mark left by the middleware that arranged for the
\* transaction to be removed when the response ends.
Txn == [client: Clients \cup {None}, live: BOOLEAN,
        redirectURI: URIs \cup {None}, webOrigin: WebOrigins \cup {None},
        req: AuthzRequests, res: {"unset", "allow", "deny"},
        endProxied: BOOLEAN]

\* What a request carries: a parsed authorization request (None when no parser
\* accepts it), a transaction ID and, on a decision, the user's verdict.
Incoming ==
  {in \in [kind: Kinds, areq: AuthzRequests \cup {None},
           tid: Requests \cup {None}, verdict: {"allow", "deny"}] :
     /\ in.kind # "authorization" => in.areq = None
     /\ in.kind # "decision" => in.verdict = "allow"}

AnswerKinds == {"grant", "denied", "error", "dialog", "page"}

\* How a response ended.  "grant", "denied" and "error" are redirects to the
\* client; "dialog" prompts the user; "page" is the application's error page.
\* `tid' names the transaction, or the request itself when it stored none.
Answer == [kind: AnswerKinds, tid: Requests, client: Clients \cup {None},
           redirectURI: URIs \cup {None}, req: AuthzRequests \cup {None}]

Redirects == {"grant", "denied", "error"}

ASSUME EndpointAssumption ==
  /\ None \notin Requests \cup Clients \cup URIs \cup WebOrigins \cup AuthzRequests
  /\ None \notin Txn \cup Incoming \cup Answer
  /\ AuthzRequests \subseteq AuthzRequest
  /\ ErrorMounts \subseteq {"none", "authorizationError", "indirect"}
  /\ MaxInFlight \in Nat

VARIABLES
  mount,       \* the error middleware mounted behind the endpoint
  registered,  \* clients the application knows
  store,       \* the saved session: transaction ID -> transaction or None
  pc,          \* where each request is
  incoming,    \* what each request in flight carries
  session,     \* req.session[key]: each request's copy of the transactions
  oauth2,      \* req.oauth2
  txnID,       \* req.oauth2.transactionID
  proxied,     \* res.end removes the transaction first
  answer,      \* how each request was answered
  origin,      \* history: each transaction as authorization stored it
  known        \* history: clients registered when each request in flight arrived

vars == <<mount, registered, store, pc, incoming, session, oauth2, txnID,
          proxied, answer, origin, known>>

\* What a request's own handlers may touch before the response ends.
locals == <<session, oauth2, txnID, proxied>>
given == <<incoming, known, origin>>
shared == <<mount, registered, store, answer>>

Handling == {"parse", "validate", "immediate", "store", "dialog", "load",
             "resume", "update", "decide", "respond", "issue", "complete",
             "error", "errorRespond"}

InFlight == {r \in Requests : pc[r] \in Handling}
NoTxns == [t \in Requests |-> None]
-----------------------------------------------------------------------------
Init ==
  /\ mount \in ErrorMounts
  /\ registered = Clients
  /\ store = NoTxns
  /\ pc = [r \in Requests |-> "idle"]
  /\ incoming = [r \in Requests |-> None]
  /\ session = [r \in Requests |-> NoTxns]
  /\ oauth2 = [r \in Requests |-> None]
  /\ txnID = [r \in Requests |-> None]
  /\ proxied = [r \in Requests |-> FALSE]
  /\ answer = [r \in Requests |-> None]
  /\ origin = NoTxns
  /\ known = [r \in Requests |-> {}]

Goto(r, from, to) == pc[r] = from /\ pc' = [pc EXCEPT ![r] = to]

\* next(err): the error middleware takes over.
Fail(r, from) == Goto(r, from, "error")

\* The request's memory is released, at the end of its response or by a crash.
Release(r) ==
  /\ incoming' = [incoming EXCEPT ![r] = None]
  /\ known' = [known EXCEPT ![r] = {}]
  /\ session' = [session EXCEPT ![r] = NoTxns]
  /\ oauth2' = [oauth2 EXCEPT ![r] = None]
  /\ txnID' = [txnID EXCEPT ![r] = None]
  /\ proxied' = [proxied EXCEPT ![r] = FALSE]

\* Mutant of Finish: the session is saved before the transaction is removed.
FinishSavingFirst(r, from, removes, ans) ==
  /\ Goto(r, from, "done")
  /\ store' = session[r]
  /\ answer' = [answer EXCEPT ![r] = ans]
  /\ Release(r)
  /\ UNCHANGED <<mount, registered, origin>>

\* res.end: remove the transaction when `removes', then save the session.
Finish(r, from, removes, ans) ==
  /\ Goto(r, from, "done")
  /\ store' = [t \in Requests |->
                 IF removes /\ t = txnID[r] THEN None ELSE session[r][t]]
  /\ answer' = [answer EXCEPT ![r] = ans]
  /\ Release(r)
  /\ UNCHANGED <<mount, registered, origin>>

TidOf(r) == IF txnID[r] = None THEN r ELSE txnID[r]

\* A redirect is built from req.oauth2 and goes to its redirectURI.
Redirect(r, kind) ==
  [kind |-> kind, tid |-> TidOf(r), client |-> oauth2[r].client,
   redirectURI |-> oauth2[r].redirectURI, req |-> oauth2[r].req]
Unredirected(r, kind) ==
  [kind |-> kind, tid |-> TidOf(r), client |-> None,
   redirectURI |-> None, req |-> None]

\* Once a transaction has been loaded, req.oauth2 is the very object held by
\* the session, so an assignment to it changes the session too.
SetLoaded(r, t, o) ==
  /\ oauth2' = [oauth2 EXCEPT ![r] = o]
  /\ session' = [session EXCEPT ![r][t] = o]
-----------------------------------------------------------------------------
\* A request arrives and the session middleware hands it a copy of the session.
\* Only IDs that were given out are worth presenting: any other is as good as
\* none, the session has no transaction under it.
Receive(r, in) ==
  /\ Cardinality(InFlight) < MaxInFlight
  /\ in.tid # None => origin[in.tid] # None
  /\ Goto(r, "idle", IF in.kind = "authorization" THEN "parse" ELSE "load")
  /\ incoming' = [incoming EXCEPT ![r] = in]
  /\ session' = [session EXCEPT ![r] = store]
  /\ known' = [known EXCEPT ![r] = registered]
  /\ UNCHANGED <<mount, registered, store, oauth2, txnID, proxied, answer,
                 origin>>

(* authorization ---------------------------------------------------------- *)

\* server._parse reports an error, no type or no client, or a request.
Parse(r) ==
  /\ \/ Fail(r, "parse") /\ incoming[r].areq = None
     \/ Goto(r, "parse", "validate") /\ incoming[r].areq # None
  /\ UNCHANGED <<shared, locals, given>>

\* The application's validate function throws.
ValidateThrows(r) ==
  /\ Fail(r, "validate")
  /\ UNCHANGED <<shared, locals, given>>

\* validated(err, client, redirectURI, webOrigin) sets req.oauth2 before it
\* looks at err, so that the client can be informed by a redirect.
Validated(r) ==
  /\ \E c \in registered \cup {None}, u \in URIs \cup {None},
        w \in WebOrigins \cup {None}, err \in BOOLEAN :
       /\ Goto(r, "validate",
               IF err \/ c = None THEN "error" ELSE "immediate")
       /\ oauth2' = [oauth2 EXCEPT ![r] =
                       [client |-> c, live |-> TRUE, redirectURI |-> u,
                        webOrigin |-> w, req |-> incoming[r].areq,
                        res |-> "unset", endProxied |-> FALSE]]
  /\ UNCHANGED <<shared, given, session, txnID, proxied>>

\* immediated(err, allow): answer at once, or ask the user.
Immediated(r) ==
  /\ \/ Fail(r, "immediate") /\ UNCHANGED oauth2
     \/ /\ Goto(r, "immediate", "respond")
        /\ oauth2' = [oauth2 EXCEPT ![r] = [@ EXCEPT !.res = "allow"]]
     \/ Goto(r, "immediate", "store") /\ UNCHANGED oauth2
  /\ UNCHANGED <<shared, given, session, txnID, proxied>>

\* Mutants of Serialized: the client is left as it is, and the URI is mixed up
\* with the request.
SerializedLive(o, webOrigin) ==
  [client |-> o.client, live |-> o.live, redirectURI |-> o.redirectURI,
   webOrigin |-> webOrigin, req |-> o.req, res |-> "unset",
   endProxied |-> FALSE]
SerializedMixedUp(o, webOrigin) ==
  [client |-> o.client, live |-> FALSE, redirectURI |-> o.req,
   webOrigin |-> webOrigin, req |-> o.req, res |-> "unset",
   endProxied |-> FALSE]

\* The record the legacy store keeps, its client serialized.
Serialized(o, webOrigin) ==
  [client |-> o.client, live |-> FALSE, redirectURI |-> o.redirectURI,
   webOrigin |-> webOrigin, req |-> o.req, res |-> "unset",
   endProxied |-> FALSE]

\* Mutant of Store: one transaction per session, under every ID given out.
StoreInOneSlot(r) ==
  LET txn == Serialized(oauth2[r], oauth2[r].webOrigin)
  IN /\ Goto(r, "store", "dialog")
     /\ session' = [session EXCEPT ![r] = [t \in Requests |->
                      IF t = r \/ session[r][t] # None THEN txn ELSE None]]
     /\ origin' = [origin EXCEPT ![r] = txn]
     /\ txnID' = [txnID EXCEPT ![r] = r]
     /\ UNCHANGED <<shared, oauth2, proxied, incoming, known>>

\* SessionStore.store serializes the client and adds a new transaction.
Store(r) ==
  \/ /\ Fail(r, "store")
     /\ UNCHANGED <<shared, locals, given>>
  \/ LET txn == Serialized(oauth2[r], oauth2[r].webOrigin)
     IN /\ Goto(r, "store", "dialog")
        /\ session' = [session EXCEPT ![r][r] = txn]
        /\ origin' = [origin EXCEPT ![r] = txn]
        /\ txnID' = [txnID EXCEPT ![r] = r]
        /\ UNCHANGED <<shared, oauth2, proxied, incoming, known>>

\* next(): the application renders the dialog, or fails to.
Dialog(r) ==
  \/ Finish(r, "dialog", proxied[r], Unredirected(r, "dialog"))
  \/ Fail(r, "dialog") /\ UNCHANGED <<shared, locals, given>>
-----------------------------------------------------------------------------
(* loading a transaction --------------------------------------------------- *)

\* SessionStore.load cannot find a transaction or its client cannot be
\* deserialized: nothing changes.
LoadFails(r, from, failed) ==
  /\ Goto(r, from, failed)
  /\ UNCHANGED <<shared, locals, given>>

Found(r) == incoming[r].tid # None /\ session[r][incoming[r].tid] # None

\* Mutant of LoadInvalidated: the transaction is loaded though its client is
\* not found.
LoadUnknownClient(r, from, failed) ==
  /\ Found(r)
  /\ session[r][incoming[r].tid].client \notin registered
  /\ Goto(r, from, failed)
  /\ oauth2' = [oauth2 EXCEPT ![r] = session[r][incoming[r].tid]]
  /\ UNCHANGED <<shared, given, session, txnID, proxied>>

\* A serialized client is found exactly while it is registered.  What a client
\* function makes of an object that is not a serialized client is its affair.
LoadInvalidated(r, from, failed) ==
  /\ Found(r)
  /\ LET txn == session[r][incoming[r].tid]
     IN txn.live \/ txn.client \notin registered
  /\ Goto(r, from, failed)
  /\ session' = [session EXCEPT ![r][incoming[r].tid] = None]
  /\ UNCHANGED <<shared, given, oauth2, txnID, proxied>>

\* The client's object replaces its serialized form in the session's own
\* transaction, which becomes req.oauth2.
LoadSucceeds(r, from, loaded) ==
  /\ Found(r)
  /\ session[r][incoming[r].tid].client \in registered
  /\ Goto(r, from, loaded)
  /\ SetLoaded(r, incoming[r].tid,
               [session[r][incoming[r].tid] EXCEPT !.live = TRUE])
  /\ txnID' = [txnID EXCEPT ![r] = incoming[r].tid]
  /\ UNCHANGED <<shared, given, proxied>>

Load(r) ==
  /\ pc[r] = "load"
  /\ \/ LoadFails(r, "load", "error")
     \/ LoadInvalidated(r, "load", "error")
     \/ LoadSucceeds(r, "load",
          IF incoming[r].kind = "resume" THEN "resume" ELSE "decide")

(* resume ------------------------------------------------------------------- *)

\* Mutant of Settled: the mark is set but res.end is not wrapped.
SettledUnwrapped(r, verdict) ==
  /\ SetLoaded(r, txnID[r],
               [oauth2[r] EXCEPT !.res = verdict, !.endProxied = TRUE])
  /\ UNCHANGED <<shared, given, txnID, proxied>>

\* A decision is taken on the loaded transaction, and res.end is wrapped so
\* that the transaction is removed with the response.
Settled(r, verdict) ==
  /\ SetLoaded(r, txnID[r],
               [oauth2[r] EXCEPT !.res = verdict, !.endProxied = TRUE])
  /\ proxied' = [proxied EXCEPT ![r] = TRUE]
  /\ UNCHANGED <<shared, given, txnID>>

Resume(r) ==
  \/ Fail(r, "resume") /\ UNCHANGED <<shared, locals, given>>
  \/ Goto(r, "resume", "respond") /\ Settled(r, "allow")
  \/ Goto(r, "resume", "update") /\ UNCHANGED <<shared, locals, given>>

\* SessionStore.update replaces the transaction by a new record, which is
\* built without the web origin.
Update(r) ==
  \/ /\ Fail(r, "update")
     /\ UNCHANGED <<shared, locals, given>>
  \/ /\ Goto(r, "update", "dialog")
     /\ session' = [session EXCEPT ![r][txnID[r]] =
                      Serialized(oauth2[r], None)]
     /\ UNCHANGED <<shared, given, oauth2, txnID, proxied>>

(* decision ------------------------------------------------------------------ *)

\* The application's parse function fails, or the verdict is taken.
Decide(r) ==
  \/ Fail(r, "decide") /\ UNCHANGED <<shared, locals, given>>
  \/ Goto(r, "decide", "respond") /\ Settled(r, incoming[r].verdict)
-----------------------------------------------------------------------------
(* responding: server._respond and the grant's response handler ------------- *)

CanRespond(r) == GrantSupports(oauth2[r].req) /\ oauth2[r].redirectURI # None

Respond(r) ==
  \/ /\ Fail(r, "respond") /\ ~CanRespond(r)
     /\ UNCHANGED <<shared, locals, given>>
  \/ /\ pc[r] = "respond" /\ CanRespond(r) /\ oauth2[r].res # "allow"
     /\ Finish(r, "respond", proxied[r], Redirect(r, "denied"))
  \/ /\ Goto(r, "respond", "issue") /\ CanRespond(r) /\ oauth2[r].res = "allow"
     /\ UNCHANGED <<shared, locals, given>>

\* The application's issue function throws, fails, or issues.
Issue(r) ==
  /\ Fail(r, "issue") \/ Goto(r, "issue", "complete")
  /\ UNCHANGED <<shared, locals, given>>

\* The extend and complete functions run, then the client is redirected.
Complete(r) ==
  \/ Fail(r, "complete") /\ UNCHANGED <<shared, locals, given>>
  \/ pc[r] = "complete" /\ Finish(r, "complete", proxied[r], Redirect(r, "grant"))
-----------------------------------------------------------------------------
(* errors -------------------------------------------------------------------- *)

ErrorPage(r, from, removes) ==
  Finish(r, from, removes, Unredirected(r, "page"))

\* No error middleware of the library: the application shows its own page.
UnhandledError(r) == mount = "none" /\ ErrorPage(r, "error", proxied[r])

\* errorHandler({ mode: 'indirect' }) informs the client if it can.
IndirectError(r) ==
  /\ mount = "indirect" /\ pc[r] = "error"
  /\ IF /\ oauth2[r] # None
        /\ oauth2[r].redirectURI # None
        /\ IndirectSupports(oauth2[r].req)
       THEN Finish(r, "error", proxied[r], Redirect(r, "error"))
       ELSE ErrorPage(r, "error", proxied[r])

\* The wrapper mounted by authorizationErrorHandler tries to load the
\* transaction of a request that has none, and ignores a failure to do so.
ReloadForError(r) ==
  /\ mount = "authorizationError" /\ pc[r] = "error"
  /\ \/ /\ oauth2[r] # None
        /\ Goto(r, "error", "errorRespond")
        /\ UNCHANGED <<shared, locals, given>>
     \/ /\ oauth2[r] = None
        /\ \/ LoadFails(r, "error", "errorRespond")
           \/ LoadInvalidated(r, "error", "errorRespond")
           \/ LoadSucceeds(r, "error", "errorRespond")

\* Mutants of RespondError: the removal is left to decision and resume; a
\* request without a transaction is neither answered nor passed on.
RespondErrorWithoutRemoval(r) ==
  /\ pc[r] = "errorRespond"
  /\ IF oauth2[r] # None /\ CanRespond(r)
       THEN Finish(r, "errorRespond", proxied[r], Redirect(r, "error"))
       ELSE ErrorPage(r, "errorRespond", proxied[r])
RespondErrorOrHang(r) ==
  /\ pc[r] = "errorRespond"
  /\ oauth2[r] # None
  /\ Finish(r, "errorRespond", txnID[r] # None, Redirect(r, "error"))

\* authorizationErrorHandler: wrap res.end unless that was done before, then
\* let the grant's error handler redirect.
RespondError(r) ==
  /\ pc[r] = "errorRespond"
  /\ LET removes == \/ proxied[r]
                    \/ /\ oauth2[r] # None /\ txnID[r] # None
                       /\ ~oauth2[r].endProxied
     IN IF oauth2[r] # None /\ CanRespond(r)
          THEN Finish(r, "errorRespond", removes, Redirect(r, "error"))
          ELSE ErrorPage(r, "errorRespond", removes)
-----------------------------------------------------------------------------
(* the environment ------------------------------------------------------------ *)

\* The process stops: what the requests held is gone, nothing more is saved.
Crash ==
  /\ InFlight # {}
  /\ pc' = [r \in Requests |-> IF r \in InFlight THEN "lost" ELSE pc[r]]
  /\ incoming' = [r \in Requests |-> None]
  /\ known' = [r \in Requests |-> {}]
  /\ session' = [r \in Requests |-> NoTxns]
  /\ oauth2' = [r \in Requests |-> None]
  /\ txnID' = [r \in Requests |-> None]
  /\ proxied' = [r \in Requests |-> FALSE]
  /\ UNCHANGED <<shared, origin>>

\* The application deauthorizes a client.
Deauthorize(c) ==
  /\ c \in registered
  /\ registered' = registered \ {c}
  /\ UNCHANGED <<mount, store, pc, incoming, session, oauth2, txnID, proxied,
                 answer, origin, known>>

\* One step of the middleware for request r.
Step(r) ==
  \/ Parse(r) \/ ValidateThrows(r) \/ Validated(r) \/ Immediated(r) \/ Store(r)
  \/ Dialog(r) \/ Load(r) \/ Resume(r) \/ Update(r) \/ Decide(r)
  \/ Respond(r) \/ Issue(r) \/ Complete(r)
  \/ UnhandledError(r) \/ IndirectError(r) \/ ReloadForError(r)
  \/ RespondError(r)

Next ==
  \/ \E r \in Requests : Step(r) \/ \E in \in Incoming : Receive(r, in)
  \/ Crash
  \/ \E c \in Clients : Deauthorize(c)

Spec == Init /\ [][Next]_vars

\* The functions the application supplies call back, so a request that was
\* received is taken on until its response ends.  Nothing obliges a request to
\* arrive, the process to crash or a client to be deauthorized.
Fairness == \A r \in Requests : WF_vars(Step(r))

FairSpec == Spec /\ Fairness
-----------------------------------------------------------------------------
(* properties ------------------------------------------------------------------ *)

\* Every variable keeps its type.
TypeOK ==
  /\ mount \in ErrorMounts
  /\ registered \subseteq Clients
  /\ store \in [Requests -> Txn \cup {None}]
  /\ pc \in [Requests -> Handling \cup {"idle", "done", "lost"}]
  /\ incoming \in [Requests -> Incoming \cup {None}]
  /\ session \in [Requests -> [Requests -> Txn \cup {None}]]
  /\ oauth2 \in [Requests -> Txn \cup {None}]
  /\ txnID \in [Requests -> Requests \cup {None}]
  /\ proxied \in [Requests -> BOOLEAN]
  /\ answer \in [Requests -> Answer \cup {None}]
  /\ origin \in [Requests -> Txn \cup {None}]
  /\ known \in [Requests -> SUBSET Clients]

Redirected(r) == answer[r] # None /\ answer[r].kind \in Redirects

SameClientRequest(a, b) ==
  a.client = b.client /\ a.redirectURI = b.redirectURI /\ a.req = b.req

\* Whatever resumes, concurrent saves, failures and reloads lie in between, a
\* redirect that ends a stored transaction goes to the URI validate returned
\* when the transaction was opened, for the client and request it was opened
\* for: the session carries these through load, update and decision.
RedirectsAsValidated ==
  \A r \in Requests :
    Redirected(r) /\ origin[answer[r].tid] # None
      => SameClientRequest(answer[r], origin[answer[r].tid])

\* decision and resume write the verdict and the _endProxied mark into the
\* session's own transaction.  No saved session ever holds them: a transaction
\* loaded with a stale mark would escape removal in authorizationErrorHandler.
StoredUndecided ==
  \A t \in Requests :
    store[t] # None => store[t].res = "unset" /\ ~store[t].endProxied

\* load puts the live client object into the session's transaction.  Behind
\* authorizationErrorHandler every path that keeps the transaction serializes
\* the client again, and every path that does not removes the transaction.
StoredSerialized ==
  mount = "authorizationError" =>
    \A t \in Requests : store[t] # None => ~store[t].live

\* "no response will be sent to the client" (session.js): a redirect names only
\* a client that was still registered when the redirecting request arrived, even
\* when the transaction was loaded a second time to report an error.
NoRedirectForDeauthorized ==
  [][\A r \in Requests :
       pc[r] # "done" /\ Redirected(r)'
       => answer'[r].client \in known[r] \cup {None}]_vars

\* The transaction of a decision that was answered by a redirect is not in the
\* session saved with that answer, and behind authorizationErrorHandler the
\* same holds of every redirect, errors included.
AnsweredIsRemoved ==
  [][\A r \in Requests :
       pc[r] # "done" /\ Redirected(r)'
         /\ (mount = "authorizationError" \/ answer'[r].kind # "error")
       => store'[answer'[r].tid] = None]_vars

\* Every request that is received is answered, unless the process stops first.
EveryRequestAnswered ==
  \A r \in Requests :
    pc[r] \in Handling ~> pc[r] = "lost" \/ answer[r] # None

\* Once the removal of its transaction has been arranged, the request's end
\* takes the transaction out of the saved session, whatever fails on the way.
ProxiedIsRemoved ==
  \A r, t \in Requests :
    proxied[r] /\ txnID[r] = t
      ~> pc[r] = "lost" \/ (pc[r] = "done" /\ store[t] = None)

\* "Registers a function used to serialize client objects into the session"
\* (server.js): under any error middleware, the session holds serialized clients.
ClientsAreSerialized ==
  \A t \in Requests : store[t] # None => ~store[t].live

\* "The transaction will be restored" (authorization.js): what is stored for
\* the decision still carries the web origin it was validated with.
WebOriginRestored ==
  \A t \in Requests :
    store[t] # None => store[t].webOrigin = origin[t].webOrigin
=============================================================================
