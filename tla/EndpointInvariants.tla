------------------------- MODULE EndpointInvariants -------------------------
(***************************************************************************)
(* The inductive invariants behind the properties of                       *)
(* AuthorizationEndpoint: types, what a request holds at each stage, where *)
(* a verdict may be written, what agrees with the stored origin, who is    *)
(* known, what has been arranged, and what holds besides when requests are *)
(* served one at a time.                                                   *)
(***************************************************************************)
EXTENDS AuthorizationEndpoint

\* Stages at which authorization has not yet stored anything.
Opening == {"parse", "validate", "immediate", "store"}

\* Stages at which req.oauth2 is set, and at which it was loaded.
Holding == {"immediate", "store", "dialog", "resume", "update", "decide",
            "respond", "issue", "complete"}
Loaded == {"resume", "update", "decide"}

\* Stages at which the client is about to be answered.
Responding == {"respond", "issue", "complete"}

\* A request in flight carries what it came with, and has what its stage uses.
Equipped ==
  \A r \in Requests :
    /\ pc[r] \in Handling => incoming[r] # None
    /\ pc[r] = "validate" => incoming[r].areq # None
    /\ pc[r] \in Holding => oauth2[r] # None
    /\ pc[r] \in Loaded => txnID[r] # None
    /\ pc[r] \in Opening \cup {"idle", "load"} => txnID[r] = None
    /\ txnID[r] # None => oauth2[r] # None

Undecided(txn) == txn.res = "unset" /\ ~txn.endProxied

\* A verdict is in a session copy only where res.end will remove it.
VerdictIsProxied ==
  \A r \in Requests :
    /\ \A t \in Requests :
         session[r][t] # None /\ ~(proxied[r] /\ txnID[r] = t)
           => Undecided(session[r][t])
    /\ proxied[r] => txnID[r] # None
    /\ pc[r] \in Loaded => ~proxied[r]

\* A transaction of t, wherever it is held, is one that was stored as t.
FromOrigin(txn, t) == origin[t] # None /\ SameClientRequest(txn, origin[t])

\* The saved session, its copies and the transaction a request has loaded agree
\* with the origin, which only the opening request sets, before it has answered.
AgreesWithOrigin ==
  /\ \A t \in Requests : store[t] # None => FromOrigin(store[t], t)
  /\ \A r, t \in Requests :
       session[r][t] # None => FromOrigin(session[r][t], t)
  /\ \A r \in Requests : txnID[r] # None => FromOrigin(oauth2[r], txnID[r])
  /\ \A r \in Requests :
       origin[r] # None => pc[r] \in {"done", "lost"} \/ txnID[r] = r
  /\ \A r \in Requests :
       answer[r] # None => /\ pc[r] = "done"
                           /\ answer[r].tid = r \/ origin[answer[r].tid] # None

\* A client that a request has in hand was registered when the request arrived,
\* and whoever still is registered was so then.
KnownClients ==
  \A r \in Requests :
    /\ pc[r] \in Handling => registered \subseteq known[r]
    /\ oauth2[r] # None => /\ pc[r] \in Handling
                           /\ oauth2[r].client \in known[r] \cup {None}

\* A request that answers for a transaction has wrapped res.end, and the mark
\* that says so tells the truth.
Arranged ==
  \A r \in Requests :
    /\ pc[r] \in Responding /\ txnID[r] # None => proxied[r]
    /\ oauth2[r] # None /\ oauth2[r].endProxied => proxied[r]

\* Behind authorizationErrorHandler the only live client in a copy of the session
\* is that of the transaction in hand, and a dialog is shown without it.
LiveInHand ==
  mount = "authorizationError" =>
    \A r, t \in Requests :
      session[r][t] # None /\ session[r][t].live
        => t = txnID[r] /\ pc[r] # "dialog"

\* One request at a time: its copy of the session has what the saved session has,
\* but for the transaction it has opened, or the one that it has invalidated,
\* after which it can only report an error.
Alone == \A q, r \in InFlight : q = r
Opened(r, t) == t = r /\ txnID[r] = r
Invalidated(r, t) ==
  /\ t = incoming[r].tid /\ session[r][t] = None
  /\ oauth2[r] = None /\ pc[r] \in {"error", "errorRespond"}
InStep ==
  \A r \in InFlight, t \in Requests :
    \/ session[r][t] = None <=> store[t] = None
    \/ Opened(r, t) \/ Invalidated(r, t)
InHand ==
  \A r \in Requests :
    /\ pc[r] \in {"idle", "parse", "validate", "load"} => oauth2[r] = None
    /\ pc[r] = "errorRespond" => mount = "authorizationError"
    /\ txnID[r] # None => /\ pc[r] \in Handling
                          /\ session[r][txnID[r]] # None
                          /\ txnID[r] = r \/ store[txnID[r]] # None

\* Only a request that has ended has saved or answered for what it opened, and
\* what was answered is gone.
Concluded ==
  /\ \A t \in Requests : store[t] # None => pc[t] = "done"
  /\ \A q \in Requests : answer[q] # None => pc[answer[q].tid] = "done"
  /\ \A q \in Requests :
       /\ Redirected(q)
       /\ answer[q].kind = "error" => mount # "indirect"
       => store[answer[q].tid] = None

TypeInv == TypeOK /\ Equipped
UndecidedInv == TypeInv /\ VerdictIsProxied /\ StoredUndecided
SerialInv == Alone /\ InStep /\ InHand /\ Concluded
OriginInv == TypeInv /\ AgreesWithOrigin /\ RedirectsAsValidated
=============================================================================
