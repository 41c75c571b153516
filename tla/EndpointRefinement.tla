------------------------- MODULE EndpointRefinement -------------------------
(***************************************************************************)
(* AuthorizationEndpoint, serving one request at a time, implements        *)
(* TransactionLifecycle.  Served concurrently it does not: a transaction   *)
(* two requests have loaded is answered twice, and a copy of the session   *)
(* saved late brings a removed transaction back.                           *)
(***************************************************************************)
EXTENDS AuthorizationEndpoint

answered == {<<answer[r].tid, r>> : r \in {r \in Requests : Redirected(r)}}
Answered(t) == \E r \in Requests : Redirected(r) /\ answer[r].tid = t

\* A transaction exists once the response of the request that opened it has
\* ended and the session is saved.
status == [t \in Requests |->
             IF store[t] # None THEN "pending"
             ELSE IF Answered(t) \/ (pc[t] = "done" /\ origin[t] # None)
                    THEN "closed" ELSE "unborn"]

Lifecycle == INSTANCE TransactionLifecycle WITH Transactions <- Requests,
                                                Responses <- Requests

\* Served one at a time, the endpoint keeps the promise: every end of a
\* response opens, answers or invalidates one transaction and leaves the others
\* alone, and no transaction is answered twice or comes back.
ImplementsLifecycle == Lifecycle!Spec

\* A transaction that was granted or denied is never granted or denied again.
DecidedOnce ==
  \A r1, r2 \in Requests :
    /\ Redirected(r1) /\ answer[r1].kind # "error"
    /\ Redirected(r2) /\ answer[r2].kind # "error"
    /\ answer[r1].tid = answer[r2].tid
    => r1 = r2
=============================================================================
