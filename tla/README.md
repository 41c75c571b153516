# oauth2orize in TLA+

oauth2orize is a toolkit for OAuth 2.0 authorization servers in Express
applications. This directory models the parts of it in which order, failure and
shared state matter, model-checks them with TLC and proves the central
invariants with TLAPS. Source paths below are relative to the root of the
repository.

## The system

| component | state | operations | talks to |
|---|---|---|---|
| authorization endpoint (`lib/middleware/authorization.js`, `resume.js`, `decision.js`, `transactionLoader.js`) | `req.oauth2` of each request, the wrapped `res.end` | parse, validate, answer immediately or store and show a dialog; load, resume or decide | handler chains, transaction store, the application's functions |
| session transaction store (`lib/txn/session.js`) | `req.session[key]`, a map from transaction ID to transaction | `store`, `load`, `update`, `remove` | client serializer chains, session middleware |
| pluggable transaction store (the non-`legacy` branches) | the application's | `store`, `load`, `update`, `remove` | authorization endpoint |
| authorization error handling (`authorizationErrorHandler.js`, `errorHandler.js`) | `req.oauth2`, the wrapped `res.end` | reload the transaction, remove it, redirect the error | transaction store, handler chains |
| grants and response modes (`lib/grant`, `lib/response`) | none of their own; tables of encoders | `request`, `response`, `error` | the application's `issue`, `extend`, `complete` |
| response type lists (`lib/unorderedlist.js`) | a list of words | `equalTo`, `contains`, `containsAny` | handler chains, indirect error handler |
| server handler chains (`lib/server.js`) | registered handlers; the position of each pass | `_parse`, `_respond`, `_respondError`, `_exchange`, `serializeClient`, `deserializeClient` | everything above and below |
| token endpoint and exchanges (`lib/middleware/token.js`, `lib/exchange`) | none between requests | check parameters, call `issue`, answer | handler chains, direct error handler |
| errors (`lib/errors`) | code, status | constructors | both endpoints |

**How they interact.** An authorization request is parsed by the chain of
request parsers and vouched for by the application's `validate` function. Then
it is either answered at once or stored as a transaction in the user's session,
and the user sees a dialog. A later HTTP request names the transaction by its
ID: `transactionLoader` puts it in `req.oauth2`, `resume` gives the application
another chance to answer or ask again, `decision` takes the user's verdict. Both
wrap `res.end`, so that the transaction is removed when the response ends, just
before the session middleware saves the session. The grant of the response type
issues a code or a token and redirects the user agent to the client. Errors go
to whatever error middleware the application mounted.

**What is hard about it.**

* Requests of one session run concurrently on *copies* of the session. A copy
  that is saved late undoes removals and loses transactions opened meanwhile.
* `load` returns the session's own object, so every assignment to `req.oauth2`
  after that is an assignment to the session, saved whether or not the request
  succeeds.
* Removal is arranged long before it happens, by three different handlers, which
  tell each other with a mark (`_endProxied`) that lives in the same object.
* Between any two callbacks the client can be deauthorized, a function of the
  application can fail, the process can stop.
* The error path loads the transaction a second time.
* A pluggable store is told to remove a transaction, and nobody waits for it. An update
  that was under way may put it back.
* The application's functions are called from one another's callbacks. Which `try`
  block is around a call depends on whether those before it called back at once.

`PROJECT.json` lists the hazards one by one, with the line where each bites and
the properties that would show it.

**What makes each component correct.** The endpoint: a client hears at most once
about a transaction, at the URI validated for it, and never after it was
deauthorized; an answered transaction is gone; every request is answered. The
store: what is saved is serialized and undecided, and survives `update`. The
error handling: it answers or passes on every error and completes the removal.
Grants and modes: errors are encoded where the grant would have been. Lists: two
response types are equal when they have the same words. Handler chains: a chain
calls back once, with the first result or error. The token endpoint: every
request gets one answer, with the status its error code stands for.

## The modules

| module | what it is |
|---|---|
| `AuthorizationEndpoint` | the endpoint, the session store and the error handling, one action per handler step; the properties |
| `ResponseModes` | which grant supports a request and how redirects are encoded |
| `TransactionLifecycle` | abstract specification: the life of a transaction |
| `EndpointRefinement` | the mapping under which the endpoint implements the life cycle |
| `EndpointInvariants` | the inductive invariant |
| `EndpointProofs`, `EndpointAnswerProofs`, `EndpointRefinementProofs` | its proof, and the theorems about the endpoint: what is stored and where redirects go; what happens as the client is answered; that it implements the life cycle when requests are served one at a time |
| `UnorderedList` | the list operations |
| `ChainCall` | abstract specification: what a chain is to the code that calls it |
| `HandlerChain`, `HandlerChainProofs` | the six chains of `server.js`, that they call back once, and with what, and so implement `ChainCall` |
| `PluggableStore`, `PluggableStoreProofs`, `MCPluggableStore` | the endpoint over a store of the application's, with removals that are late, fail or are lost |
| `CallbackExceptions`, `CallbackExceptionsProofs` | one authorization request as nested calls: where exceptions end up |
| `Errors` | codes and statuses, and the direct error handler |
| `TokenEndpoint`, `TokenEndpointProofs` | `token`, the exchange chain, the four exchanges and the direct error handler, with what the code grant hands over |
| `ScopeLists` | how a scope is divided |
| `RequestParameters`, `RequestParametersProofs` | response types that grow word by word and scopes that grow character by character, to check lists, modes and scopes over all short inputs; what is proved of them for all inputs |
| `MCTokenEndpoint` | instances of the token endpoint for TLC |
| `MCAuthorizationEndpoint` | instances of the endpoint for TLC |

### From the code to `AuthorizationEndpoint`

The constant `Requests` are the HTTP requests of *one* session, each used once.
`pc[r]` says where a request is, and each value of it is a point where control
is with a function of the application or with the chain, that is, a point at
which another request may run. JavaScript runs to completion in between, so the
code between two such points is one action.

| variable | code |
|---|---|
| `store` | the session as the session middleware last saved it |
| `session[r]` | `req.session[key]`, the copy request `r` works on |
| `oauth2[r]`, `txnID[r]` | `req.oauth2`, `req.oauth2.transactionID` |
| `proxied[r]` | `res.end` is wrapped |
| `Txn.live` | `client` holds the application's object, not its serialized form |
| `Txn.res`, `Txn.endProxied` | `req.oauth2.res`, `req.oauth2._endProxied` |
| `mount` | the error middleware the application chose |
| `registered` | the clients the application's functions find |
| `answer`, `origin`, `known` | history: how a request ended, what was stored, who was registered on arrival |

| actions | code |
|---|---|
| `Parse`, `ValidateThrows`, `Validated`, `Immediated`, `Store`, `Dialog` | `authorization.js` and `SessionStore.store` |
| `Load` = `LoadFails`, `LoadInvalidated`, `LoadSucceeds` | `transactionLoader.js` and `SessionStore.load` |
| `Resume`, `Update` | `resume.js` and `SessionStore.update` |
| `Decide` | `decision.js` |
| `Respond`, `Issue`, `Complete` | `Server._respond` and the grant's `response` |
| `UnhandledError`, `IndirectError`, `ReloadForError`, `RespondError` | the application's error page, `errorHandler({ mode: 'indirect' })`, `authorizationErrorHandler` |
| `Receive`, `Finish`, `Crash`, `Deauthorize` | session middleware, web server, process, application |

`Finish` is the end of a response in the order the code gives it: the wrapped
`res.end` removes the transaction from the copy, then calls the original
`res.end`, in which the session middleware saves the whole copy. The last writer
wins. `SetLoaded` writes `oauth2[r]` and the session's slot together, because
after `load` they are one object; `Update` puts a *new* record in the slot, and
they are two.

Abstractions, each of which leaves the control of the code alone:

* `user`, `info`, `locals`, `scope`, `state` and the additional parameters are
  carried along and decide nothing, and are left out.
* A transaction ID is the request that opened the transaction. `utils.uid` draws
  eight random characters; a repeat within a session is not modelled.
* `Receive` presents only IDs that were given out. Any other ID behaves as a
  missing one: `load` fails and changes nothing.
* What the application's functions answer is a nondeterministic choice. A client
  they return is one that is registered at that moment. What a `deserializeClient`
  function makes of an object that is *not* a serialized client is left open.
* A chain calls back once with a choice of outcomes; `HandlerChain` shows when it
  does. The application's functions fail, issue or complete once per request.
* Only the session store is modelled here, the pluggable one in `PluggableStore`.
* A request's memory is cleared when its response ends, which keeps states that
  differ only in dead data from being told apart.

* `CanRespond` takes it that every encoder of a mode table refuses a transaction
  without a redirect URI, as the built-in ones do in their `validate`. One of the
  application's own that has no `validate` would be called without (`code.js:145-151`);
  what it does then is the application's.

`ResponseModes` abstracts a request to the *set* of words of its response type
and its response mode; `UnorderedList` and `RequestParameters` check that the code's
list comparison may be abstracted so. `containsAny` is an existential over words and
part of `IndirectMode`, where `FragmentTypes` is the error handler's option
`fragment` (`errorHandler.js:50`), `{"token"}` unless an application sets it.

### From the code to `HandlerChain`

All six passes have one shape: a function `pass` or `next` looks at what it was
told, calls back or goes to the next layer, and calls that layer's handler inside
a `try` block. They differ in what ends them (`Settles`), what they call back with
when there is no layer left (`Exhausted`), what handlers may say (`Gives`), and
whether a handler may end the response instead (`Answering`), so one module
models all of them, with the chain chosen in `Init`.

A handler that calls back before it returns runs the rest of the chain, and the
chain's callback, inside its own `try` block. `tries` holds the layers whose `try`
is on the stack, which are consecutive ones, so a set is enough to know the
innermost; `waiting` holds the handlers that have returned without calling back
and will do so from the event loop. A handler calls back at most once;
`troubles` says, for a whole behaviour, whether one may throw after that, and whether
the chain's callback may. That the types of layers are compared as lists of words is left to `UnorderedList`; here a
layer matches or does not. Registration itself (`Server.grant`, `exchange`,
`serializeClient` with a function) only builds the list of layers.

### From the code to `PluggableStore`

The same handlers, in the branches for a store that is not `legacy`, with what
`AuthorizationEndpoint` has in detail (parsing, clients, grants) as a choice of
outcomes. `Validated` fails before `req.oauth2` is set when the request cannot be
parsed or `validate` throws, and with it set otherwise. What is new is the store:
`store` is its content by handle, `given` the handles it has ever given out, `removing`
the removals it has been sent. `Finish` is the wrapped `res.end`, which sends a
removal and goes on without it; `Removed`, `RemovalFails` and `Crash` are what may
become of it, and `failed` remembers the handles for which it was nothing. `update`
may return a handle that is new, at most `MaxUpdates` times for a transaction.

`resume` does not ask whether the store still has the transaction it updates
(`resume.js:86`), and nothing tells the store to: the repository's own `update` writes
what it is given (`txn/session.js:78-79`). So `Update` has no such guard. It either fails
or writes, and when the transaction was removed in the meantime it puts it back:
`revived` holds the handles this has happened to, until they are removed again.
`RemovalArranged` and `DecidedIsGone` name this as the one thing, besides a failing
store, that brings a decided handle back.

The store is assumed to keep copies of what it is given, as anything outside the
process does. One that kept `req.oauth2` itself would behave as the session store
does. What the store was asked when the process stopped, and had not answered, is taken
as never carried out. A handle says which transaction it belongs to; the code never looks.
`RemovalArranged` is about handles: when an update gives a transaction a new handle
while another request decides it under the old one, it stays pending under the new.

### From the code to `TokenEndpoint`

`Token` is `middleware/token.js` with the exchange chain, whose layers differ in
type here, so at most one serves a request. A request without a body makes `token`
throw (`token.js:54`), which the web framework turns into an error; the exchanges'
own check for the body parser is never reached through it. `Exchange` and
`ScopedExchange` are the two shapes of the exchanges. `IssuedToken`,
`IssuedNothing` and `IssuedError` are the calls of `issued`; `IssueReturns` marks
the moment after which the exchange's `try` block no longer catches what `issue`
throws. `HandleError` is `errorHandler()` in its direct mode, and `statusCode` what
middleware in front has left in `res`.

The application is the one of the repository's README, which stores a code with
the client and redirect URI the grant gave it and compares both when the exchange
presents it (`Verified`). That a code is used once is the application's to see to.

### From the code to `ScopeLists`

The loop that divides a scope stands in five files; `ScopeList` is that loop, over
sequences of characters, since the property is about the characters. The separators are
any list of strings, as `options.scopeSeparator` may be: of several characters, which
`Split` takes from the left and which may overlap themselves, or empty, which divides
between any two characters, as `String.prototype.split` does.

### From the code to `CallbackExceptions`

`calls` are the application's functions called so far for one request, each from the
callback of the one before; the `stage` of a call says whether it has called back and
whether it is on JavaScript's stack. One that calls back before it returns (`called`,
then `spent`) stays below the call its callback makes; one that returns first
(`waiting`, then `late`) is off the stack, and its callback runs on an empty one. Each
callback of the library is an action that passes the request on or calls the next
function. A function may throw before it calls back (`Throws`) or after (`ThrowsLate`).
An exception goes down the stack call by call: `Catches` when the call is made inside a
`try` block of its own (`Guarded`), `Escapes` when it is not. A `catch` block that passed
on and threw again, or two that nest, would count twice in `passes`.

| call | `try` block around it |
|---|---|
| `parse` of `decision` | Express's around the middleware |
| `validate` | `authorization.js:227-240` |
| `immediate` | `resume.js:91-108` on resume, none of its own on authorization (`authorization.js:211-224`) |
| a client serializer, behind the session store's `store` and `update` (`txn/session.js:55`, `72`) | `server.js:234-238` |
| `store`, `update` of a custom store | none of its own (`authorization.js:206`, `resume.js:86`) |
| `issue` | `code.js:183-196`, `token.js:178-191` |
| `extend`, `complete` | none of its own (`code.js:165-171`, `token.js:165`) |

The `try` block of `_respond` (`server.js:356-370`) is not one of them: below it is the
grant's `response`, which calls `issue` in its own, and what its callbacks call is above
that. One serializer stands for their chain, which is in `HandlerChain`. A function calls
back at most once, and does not catch what comes out of the callback it was given. Whatever
it throws in an event of its own, before it calls back from there, is out of the library's
reach and left out. Next handlers never throw into the library: Express calls each in a
`try` block.

### The abstract specification

`TransactionLifecycle` says what a transaction is to its client: unborn, pending,
closed; opened once, answered at most once, never back from closed.
`EndpointRefinement` maps the endpoint to it: a transaction is pending while it
is in the saved session, closed once it was answered or has left the session.
The mapping is a refinement when requests are served one at a time. It is not
when they overlap, and this is the code's doing: see `decided_twice`.

`PluggableStore` implements it too, a transaction being pending while the store has
it and no removal was sent, under three conditions: requests in flight at the same time
act on different transactions (`Apart`, which `ApartSpec` keeps to), no removal is lost
(`Reliable`), and the store carries one out before it answers later loads (`Ordered`).
Without any one of the three TLC finds the refinement violated. This is more than a
session allows, which is loaded and saved whole: there a request for one transaction
brings back another that has been removed meanwhile, so requests must not overlap at all.

## The runs

| run | question | bounds |
|---|---|---|
| `concurrent` | What holds when requests interleave, fail and crash? | 3 requests, at most 2 at a time, 1 client, 2 URIs, one parsed request, three error mounts |
| `serial` | Served one at a time, does the endpoint implement the life cycle, and decide once? | 3 requests, 1 at a time, 1 client, 1 URI, a request whose mode its grant supports and one whose mode it does not, mounts `none` and `authorizationError` |
| `liveness` | Is every request answered, does every arranged removal happen? | 2 requests, both at a time, all three mounts, fairness |
| `parameters` | Do list comparison and mode choice do what their users assume? How is a scope divided? | all pairs of lists of up to 3 words out of 3, every mode; scopes of up to 5 out of 3 characters, up to 2 separators of up to 2 characters, the empty one included |
| `chain` | Does a chain call back once, with the first outcome, in the end, so that its caller may take it for one call? What if the callback throws, or a handler after it called back? | 6 chains, 3 layers, every choice of matching layers, and of what may throw late |
| `token` | What may issue functions rely on, what does the redirect URI verify, how are failures answered? | 1 request, 2 clients, 2 URIs, 1 code, every type with every subset of its fields, three sets of registered exchanges, 4 errors, 2 statuses |
| `pluggable` | What holds over a store that loses removals and may put back what it updates? Is what was decided gone in the end? | 3 requests, 2 at a time, 1 new handle each, removals that may fail, be lost or come late, updates before and after them, fairness |
| `pluggable_apart` | Under which conditions does it implement the life cycle? | 4 requests, 2 at a time on different transactions, 1 new handle each, reliable and ordered |
| `exceptions` | How often is a request passed on, and which exceptions are lost? | one request, every route and grant, over either kind of store; no bound |
| `decided_twice`, `web_origin`, `live_client` | three promises of comments and tests the code breaks | 3, 2 and 2 requests |

**What the properties say.**

* `RedirectsAsValidated` (concurrent): a redirect that ends a stored transaction
  has the client, URI and request the transaction was opened with, whatever was
  loaded, updated or saved over it in between.
* `StoredUndecided` (concurrent): no saved session holds a verdict or the
  `_endProxied` mark. If one did, `authorizationErrorHandler` would later skip
  the removal.
* `StoredSerialized` (concurrent): behind `authorizationErrorHandler` no saved
  session holds a live client object.
* `NoRedirectForDeauthorized` (concurrent): a redirect names only a client that
  was registered when the request arrived, although the error path loads twice.
* `AnsweredIsRemoved` (concurrent): the session saved with a redirect does not
  hold the transaction. For errors this is stated behind
  `authorizationErrorHandler` only, the indirect handler does not remove.
* `ImplementsLifecycle`, `DecidedOnce` (serial): see above; no transaction is granted
  or denied twice, which `decided_twice` refutes for requests that overlap. The
  abstract `answered` pairs a transaction with the response that answered it, so a
  second response to one client is a step the life cycle does not have, not a stutter.
* `EveryRequestAnswered`, `ProxiedIsRemoved` (liveness).
* `CalledBackOnce`, `FirstOutcomeReported`, `ChainConcludes` (chain): a chain
  calls back or leaves the response to a handler, once; the outcome is that of the
  first handler with something final to say, and exactly the matching handlers up
  to it were asked; this happens in the end, with no handler matching too.
* `CaughtOncePerLayer`, `AskedInOrder` (chain): the callback of a chain
  runs inside the `try` blocks of all layers that called on at once, so when it
  throws the chain calls it again. It does so at most once per layer, and no
  handler is asked twice.
* `ImplementsCall` (chain): to its caller a chain is `ChainCall`, one step with an
  outcome of its kind or none if a handler ended the response. If only the callback
  throws, whatever follows is the exception, never another result, and no answer.
* `IssuedForCompleteRequests`, `CodeVerified`, `FailuresAnsweredAsFailures`,
  `TokenRequestsAnswered` (token): an `issue` function sees only requests with the
  fields of their type; a code yields a token exactly for its client and the
  `redirect_uri` of its authorization request, none if there was none; whatever is
  not a token is answered with a status from 400 on; every request is answered,
  unless `issue` throws after it has returned.
* `EqualToSameWords` (parameters): the short cut of `equalTo`, which compares lengths
  and one inclusion, finds the same words for every layer that repeats none.
* `ErrorsEncodedAsGrants` (parameters): a client finds errors where it would find the
  answer of the grant, as long as the fragment types name `token` and not `code`.
* `ScopeDividedAtOneSeparator` (parameters): the pieces of a
  scope put together with the separator are the scope, none of them can be divided
  again, and that separator is the first of those listed that divides the scope.
* `RemovalArranged` (pluggable): a handle that was decided, or whose client was told
  of an error behind `authorizationErrorHandler`, is gone, or its removal has been
  sent, or the store has failed to carry it out, or has since put it back for an update
  that was under way. Nothing else brings it back.
* `StoredUnmarked` (pluggable): the store never holds the `_endProxied` mark.
* `DecidedIsGone` (pluggable): however requests overlap and however late removals are,
  the store ends up without a handle that was decided, and stays without it; unless the
  removal failed or was lost in a crash, or the store carried out an update after it, for a
  request that had loaded the transaction before.
* `ImplementsLifecycle` (pluggable_apart): the same life cycle, see above.
* `PassedOnOnce`, `LostBehindLaterCallback`, `PassedOnOrLost` (exceptions): however
  `catch` blocks nest, the request is answered or passed on once, and once more for each
  function that throws although it has called back. An exception is lost exactly when some
  function called back later and all since are called unguarded (`immediate` on
  authorization, a custom store, `extend`, `complete`). Exceptions of `validate`, `issue`,
  `parse` and serializers, and of `immediate` on resume, are never lost. Unless one is,
  the request is answered or passed on.

**Why the bounds are enough.** Two requests in flight are needed for a stale
copy, and a third to open the transaction the two meet on (or to act on what a
stale copy brought back). Two URIs let a redirect go to the wrong one. One client
suffices, since the code never looks one client up by another's transaction and
deauthorizing it reaches every check; with the proofs, nothing about
`RedirectsAsValidated` and `StoredUndecided` rests on these numbers. Two parsed
requests in `serial` let `_respond` succeed and fail. Requests and URIs are
symmetric in the safety runs; `liveness` uses no symmetry. The runs do not check
deadlock: when all requests are used up, or none arrives, the system stops.
`WebOrigins` is empty except in `web_origin`, no other property depends on it.
Token requests share nothing but the codes, which do not change once granted, so one
suffices; two clients and URIs let each of the two comparisons fail alone. In
`pluggable` a third request sees what two overlapping ones left, and one new handle
suffices for an old one to be presented; `RemovalArranged` is proved without bounds.
`pluggable_apart` has four, so that two decisions of different transactions overlap;
requests are symmetric there.
Five characters in `parameters` have room for two pieces, two adjacent separators and one
at an end, or for a separator of two characters that overlaps itself. The proofs need none
of its bounds.
Three layers are the least with a layer left out, or one called later, between two
that call on at once.

**Fairness.** `FairSpec` has weak fairness of `Step(r)` for each request: a step
is either code of the library, which runs to completion, or a function of the
application, which is documented to call back. `Receive`, `Crash` and
`Deauthorize` are not fair. Weak fairness suffices, since a step of a request
once enabled stays enabled until the request takes one or the process stops. In
`HandlerChain` fairness is that of `Next`: the code runs on, and a handler that
waits calls back in time. `TokenEndpoint` is fair to each request in the same way:
`issue` calls back or throws in the end. `CallbackExceptions` is fair to `Next`, that
is, an application's function calls back or throws. `PluggableStore` assumes weak
fairness of what becomes of each removal that was sent, and nothing of requests:
`DecidedIsGone` starts from an answer.

## What is proved

For every set of requests, clients, URIs and parsed requests, every mode table
and every bound on requests in flight, under the assumptions
`EndpointAssumption` (`None` is not a value of anything, the mounts are the three
known ones) and `ModesAssumption` (the defaults the factories add):

| theorem | says |
|---|---|
| `TypesKept` | `Spec => []TypeOK` |
| `VerdictNeverStored` | `Spec => []StoredUndecided` |
| `RedirectsStayAsValidated` | `Spec => []RedirectsAsValidated` |
| `DeauthorizedNotAnswered`, `AnsweredLeavesSession` (`EndpointAnswerProofs`) | `Spec => NoRedirectForDeauthorized`, `Spec => AnsweredIsRemoved` |
| `ClientsStaySerialized` (`EndpointAnswerProofs`) | `Spec => []StoredSerialized` |
| `SerialDecidesOnce` (`EndpointRefinementProofs`) | with `MaxInFlight = 1`, under any error middleware: `Spec => []DecidedOnce` |
| `SerialImplementsLifecycle` (`EndpointRefinementProofs`) | with `MaxInFlight = 1` and without the indirect error handler: `Spec => ImplementsLifecycle` |
| `SerialAnswersOnce` (`EndpointRefinementProofs`), `ApartAnswersOnce` (`PluggableStoreProofs`) | under the assumptions of the two refinements, `AnsweredOnce` of `TransactionLifecycle`: the client of a transaction gets one response, errors included, and the transaction is closed |
| `ChainImplementsCall` (`HandlerChainProofs`) | `Spec => ImplementsCall`, for chains of any length |
| `ChainTypesKept`, `ChainCallsBackOnce`, `ChainCatchesOncePerLayer`, `ChainReportsFirstOutcome`, `ChainAsksInOrder` (`HandlerChainProofs`) | `Spec => []` of `TypeOK`, `CalledBackOnce`, `CaughtOncePerLayer`, `FirstOutcomeReported`, and `Spec => AskedInOrder`, for chains of any length |
| `TokenTypesKept`, `CompleteRequestsOnly`, `RedirectURIVerifies`, `FailuresStayFailures` (`TokenEndpointProofs`) | `Spec => []` of `TypeOK`, `IssuedForCompleteRequests`, `CodeVerified`, `FailuresAnsweredAsFailures` |
| `StoreTypesKept`, `MarkNeverStored`, `RemovalPrecedesAnswer` (`PluggableStoreProofs`) | `Spec => []` of `TypeOK`, `StoredUnmarked`, `RemovalArranged`, for any number of requests and updates, reliable or not; the last says that the removal is sent before the answer, and that only an update under way brings the handle back |
| `ApartImplementsLifecycle`, `SerialImplementsLifecycle` (`PluggableStoreProofs`) | with `Reliable` and `Ordered`: `ApartSpec => ImplementsLifecycle`; when also `MaxInFlight = 1`, `Spec => ImplementsLifecycle` |
| `ExceptionsTypeCorrect`, `ExceptionsPassOnOnce`, `ExceptionsLostBehindLater` (`CallbackExceptionsProofs`) | `Spec => []` of `TypeOK`, `PassedOnOnce`, `LostBehindLaterCallback` |
| `EqualToDecides` (`RequestParametersProofs`) | when the first list repeats no word, `equalTo` holds exactly of the lists with the same words, once each |
| `RequestsMatchedByWords`, `ErrorsFoundWithGrants`, `ScopesDivided` (`RequestParametersProofs`) | `Spec => []` of `EqualToSameWords`, `ErrorsEncodedAsGrants`, `ScopeDividedAtOneSeparator`, for lists, mode tables, scopes and separators of any size |

The argument. `TypeOK` is not inductive: what is written to the session is what
`req.oauth2` holds, so `Equipped` adds what a request has at each stage, for
example that a loaded transaction has an ID. `TypeInv` is both.
`StoredUndecided` is not inductive either, since a copy that is saved might hold
a verdict. `VerdictIsProxied` says it does so only in the slot that the wrapped
`res.end` clears first, which is why the order inside `res.end` matters.
`RedirectsAsValidated` needs `AgreesWithOrigin`: the saved session, all copies
and all loaded transactions agree with what was stored first, and only a request
that has not answered can still set an origin. Lemma `StepShape` sorts the
actions by what they touch, into moves, loads, settlements and ends, so that
each invariant is argued once per shape and not once per handler.

`AnsweredIsRemoved` needs `Arranged`: who answers for a transaction has wrapped
`res.end`, and the `_endProxied` mark in `req.oauth2` is set only where that was done,
which rests on `VerdictIsProxied`, since the mark comes out of the session with `load`.
A request without a transaction ID has nothing in the session under its own, by
`AgreesWithOrigin`. `NoRedirectForDeauthorized` needs `KnownClients`: a client in hand
was registered on arrival, and only registrations that remain are ever added.
`StoredSerialized` needs `LiveInHand`: the live client in a copy of the session is that
of the transaction in hand, and a dialog is shown without one. Lemma `RedirectEnds` says
once for all of them that a step after which a client has been answered is the end of
that request's response.

`CalledBackOnce` follows from `OneCarrier`: until the chain has concluded, exactly
one thing carries it on, the code that runs or one handler that waits, and
afterwards nothing does. The theorem needs the handlers and the callback to be
orderly, which `CalledBackOnce` states with `troubles = {}`; with either of them
throwing late, TLC finds it false. `CaughtOncePerLayer` and `AskedInOrder` hold
without that. The first follows from `Budget`: calls made, `try` blocks on the stack and
layers ahead never add up to more than `N + 1`, since whoever catches takes a block off
the stack. The second follows from `SpokenBefore`: while a handler may still be asked or
speak, those that have spoken are of earlier layers.

`RemovalArranged` is not inductive: an update writes to the store, and might write
under a handle that was answered. `Held` says that whatever handle the store has, a request
holds or presents, or an answer names is one the store has given out, so that a handle
which an update gives out for the first time was never answered for; and an update under
the handle it had either finds the transaction, whose removal then is still to come, or
puts it back, which `revived` records. `HandlesBorn` says that a transaction which has not
been stored has no handles at all. `Staged` says what a
request has at each stage, above all that a transaction with the mark has `res.end`
wrapped, which is why the error handler may trust the mark. `StoreSideInv` treats all
that the store and a crash can do at once: they only forget.

Both refinements of the life cycle rest on what a request gains from not being
disturbed; the state this describes is a small part of what the proofs above allow. For
the session it is `SerialInv` in `EndpointInvariants`, whose parts are `Alone`, nobody else is in flight;
`InStep`, the copy of the session has the transactions the saved one has, but for the
one this request has opened or has invalidated; `InHand`, a transaction in hand is one
of those; and `Concluded`, what was answered is no longer stored. A step then is one of
three kinds: it ends a response and saves the session, which opens, answers or
invalidates exactly one transaction of the abstract specification; it crashes; or it
changes none of `store`, `answer` and `origin`, which `status` and `answered` are made
of. `DecidedOnce` follows from the same invariant, and there the indirect handler
need not be excluded, since it leaves transactions but decides none. It is
excluded from the refinement because a transaction whose client was told of an error
through it can still be decided, which is no step of the life cycle.

Over a pluggable store `Reliable` and `Ordered` stand for what a session gives for
nothing: a removal reaches the store, before the next request loads. The invariant,
`ApartInv`, is about the transaction and not the server. `InHand`: what a request has
in hand is the transaction it acts on, the store has it, and nobody is removing it under
any handle. A step of another request keeps this since, by `Apart`, it stores, updates
and removes another transaction; an answer to one request cannot answer for what another
has in hand. `update` may give a transaction a new handle, so `Openers` says that every
handle in the store, and every transaction in hand, stands for the request that opened
it. With one request at a time `Apart` holds in every behaviour (`AloneNext`), which
gives `SerialImplementsLifecycle`.

For the token endpoint each invariant is strengthened with what a request at a stage
is known to have passed; `CodeVerified` needs that `codes` agrees with `granted` and
that neither changes once set.

`FirstOutcomeReported` follows from `Reporting`, which says for every place the code of
a chain can be in what `Asked` contains: all matching layers before the next one,
nothing final among them; or, while a final result is on its way to the callback, up to
the layer it came from. After the callback has been called only its first call matters,
though the chain may call it again.

`ImplementsCall` needs two facts more. `OutcomeDue`: what a pass was told, and what is on
its way to the callback, is of the chain's kind. `Concluded`: without handlers that throw
late, after an answer nothing runs but returns, and after a call nothing reaches the
callback but what was caught. The mapping hides where the code is; every step but the
callback's own, and an answer, is then a stutter. That `AuthorizationEndpoint` and
`TokenEndpoint` take a chain for one step rests on this theorem.

`SerialAnswersOnce` and `ApartAnswersOnce` are what the life cycle itself keeps
(`LifecycleKeeps`: only a transaction that is not closed is answered, and it stays
closed), carried over to the endpoints by the two refinements.

The invariant about exceptions has three parts. `Standing` says what the stack looks
like: from each call on it down to the last function that called back later, or to the
first one, every call has called back and not returned, and below that nothing is left. `Falling` says
the same of the calls an exception has left, which were unguarded; so when it leaves the
last one, all since that later callback were, and when it is caught, the call that caught it
was not. The first function is guarded, on every route, which is why an exception is
never lost without a later callback. `Budget` counts who can still pass the request on: the
function that has not called back, and the exception under way. A catch block spends the
one, a callback the other or hands it to the next call, and only a function that throws
although it has called back adds to them.

`EqualToDecides` rests on the pigeonhole principle for the positions of a list,
from the library's theorems about finite sets.

`ScopesDivided` is an induction over the characters of a scope. The library's induction
theorems cannot be used, but the well-foundedness of the numbers can: were a fact not
true of all numbers, there would be a least one it is not true of (`LeastNumber`,
`Induction`). `Split` and `Joined` are recursive functions, so that the values for `n`
follow from those for `n - 1`. What the induction carries (`Divided`) is that the pieces of
a prefix, put together, are that prefix, and that no piece can be divided. One more character
keeps this (`TakingExtends`), since only the last piece changes (`LastPieceJoined`) and
a separator that occurs in it now must end with that character (`GrownPiece`): there it is
taken out, and what is left is a part of the piece there was. That the pieces are more than
one exactly when a separator occurs (`DividesGrown`, `SeparatorOccurs`) gives the choice of
the separator (`ScopeListDivides`).

**Only model-checked.** The liveness properties (`EveryRequestAnswered`,
`ProxiedIsRemoved`, `ChainConcludes`, `TokenRequestsAnswered`, `DecidedIsGone`,
`PassedOnOrLost`): TLAPS does not reason about fairness and `ENABLED`. Every other
property of a passing run is proved.

## Findings

* `decided_twice`: two decisions on one transaction handled at the same time are
  both answered, whichever way each decides. The transaction is removed only inside
  `res.end` (`lib/middleware/decision.js:105`), long after both loaded it; the
  comments of `authorization.js:32-34` and `186-188` say it is kept until a
  decision is reached and removed with it.
* `web_origin`: `resume` replaces the stored transaction by a record without
  `webOrigin` (`lib/middleware/resume.js:77`), though `authorization` stores it.
* `live_client`: a decision that fails before its verdict, without
  `authorizationErrorHandler`, leaves the deserialized client in the saved
  session (`lib/txn/session.js:44`).

`LostBehindLaterCallback` describes another behaviour that deserves attention:
`authorization` calls `immediate` from the callback of `validate` with no `try` block
of its own (`lib/middleware/authorization.js:211`), so an exception of `immediate` is
reported only if `validate` called back at once, while `resume` guards the same call
(`resume.js:91`). `test/middleware/authorization.immediate.test.js:603-608` tries a
`validate` that calls back at once.

## Not modelled

* Formats: query strings and fragments of redirects, headers, JSON, descriptions and
  URIs of errors, the additional parameters of `extend` and of token answers. No
  property here is about them.
* `lib/index.js` and `lib/utils.js`: exports, and helpers that merge objects and draw
  random IDs. That IDs repeat is not modelled.
* `BadRequestError` and `ForbiddenError`: constructors that set one status. The
  endpoint model does not tell them apart.
* The request parsers of the grants (`code.js:91-124`, `token.js:88-121`) beyond the mode
  and the scope: what they refuse is a failed parse, an outcome of the chain.
* Exceptions of the functions that *load* a transaction: a custom store's `load` is called
  by `transactionLoader`, before any of the functions of `CallbackExceptions`, without a
  `try` block of its own; deserializers inside that of `server.js:279-283`.
* Registration in `Server`, which builds the lists of layers before requests arrive,
  and the overloaded signatures of the factories.
* The indirect error handler leaves the transaction where it is, and nothing promises
  otherwise.

## Plan

Done: the endpoint over both kinds of store, the life cycle and its two refinements,
handler chains and what they are to their callers, the token endpoint, scopes, lists,
modes, exceptions. Every invariant, every action property and the three refinements that
the passing runs check are proved.

Left: transaction IDs that repeat in a session.
