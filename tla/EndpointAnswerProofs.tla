------------------------ MODULE EndpointAnswerProofs ------------------------
(***************************************************************************)
(* What a step that answers the client may never do: name a client that    *)
(* was deauthorized before, leave the transaction in the session, or save  *)
(* a live client with it.                                                  *)
(***************************************************************************)
EXTENDS EndpointProofs

\* A request that answers was in flight, and a redirect is made at the end of its
\* response, from req.oauth2.
LEMMA RedirectEnds ==
  ASSUME OriginInv, [Next]_vars, NEW r \in Requests,
         pc[r] # "done", Redirected(r)'
  PROVE  \E from \in Handling, removes \in BOOLEAN :
           LET ans == answer'[r]
           IN /\ Finish(r, from, removes, ans)
              /\ proxied[r] => removes
              /\ oauth2[r] # None /\ ans = Redirect(r, ans.kind)
              /\ Removing(r, removes, ans.kind)
<1>1. answer[r] = None /\ answer'[r] # None
  BY DEF OriginInv, AgreesWithOrigin, Redirected
<1>2. answer \in [Requests -> Answer \cup {None}]
  BY DEF OriginInv, TypeInv, TypeOK
<1>3. ASSUME NEW s \in Requests, Step(s)
      PROVE  Ends(s) \/ UNCHANGED answer
  BY <1>3, StepShape
     DEF OriginInv, Moves, Validated, Immediated, Store, Loads, LoadInvalidated,
         LoadSucceeds, Settles, Settled, Update, shared
<1>4. PICK s \in Requests : Step(s) /\ Ends(s)
  BY <1>1, <1>3 DEF Next, Receive, Crash, Deauthorize, shared, vars
<1>5. s = r
  BY <1>1, <1>2, <1>4 DEF Ends, Finish
<1>6. PICK from \in Handling, removes \in BOOLEAN, ans \in Answer :
        /\ Finish(r, from, removes, ans)
        /\ proxied[r] => removes
        /\ ans.kind \in Redirects
             => oauth2[r] # None /\ ans = Redirect(r, ans.kind)
        /\ Removing(r, removes, ans.kind)
  BY <1>4, <1>5 DEF Ends
<1>7. answer'[r] = ans
  BY <1>2, <1>6 DEF Finish
<1>8. ans.kind \in Redirects
  BY <1>7 DEF Redirected
<1> QED BY <1>6, <1>7, <1>8
-----------------------------------------------------------------------------
(* The client of a redirect was registered when the request arrived. *)

\* A request that goes on with a client it has, or that was registered just now.
LEMMA KnownWrites ==
  ASSUME TypeInv, KnownClients, NEW r \in Requests, NEW to \in Handling, NEW o,
         pc[r] \in Handling, pc' = [pc EXCEPT ![r] = to],
         oauth2' = [oauth2 EXCEPT ![r] = o],
         o # None => o.client \in known[r] \cup {None},
         UNCHANGED <<registered, known>>
  PROVE  KnownClients'
<1> USE EndpointAssumption DEF TypeInv, TypeOK, KnownClients
<1>1. \A s \in Requests : pc'[s] \in Handling => pc[s] \in Handling
  OBVIOUS
<1>2. \A s \in Requests : pc[s] \in Handling => pc'[s] \in Handling
  OBVIOUS
<1>3. \A s \in Requests \ {r} : oauth2'[s] = oauth2[s]
  OBVIOUS
<1>4. oauth2'[r] = o
  OBVIOUS
<1> QED BY <1>1, <1>2, <1>3, <1>4

LEMMA KnownStep ==
  ASSUME TypeInv, KnownClients, NEW r \in Requests, Step(r)
  PROVE  KnownClients'
<1> DEFINE Client(o) == o # None => o.client \in known[r] \cup {None}
<1>1. Client(oauth2[r]) /\ oauth2 = [oauth2 EXCEPT ![r] = oauth2[r]]
  BY DEF KnownClients, TypeInv, TypeOK
<1>2. ASSUME NEW from \in Handling, NEW to \in Handling,
             Goto(r, from, to), UNCHANGED <<oauth2, registered, known>>
      PROVE  KnownClients'
  BY <1>1, <1>2, KnownWrites DEF Goto
<1>3. CASE Moves(r)
  BY <1>2, <1>3 DEF Moves, shared, locals, given
<1>4. CASE Validated(r)
  <2>1. PICK c \in registered \cup {None}, u \in URIs \cup {None},
             w \in WebOrigins \cup {None} :
          oauth2' = [oauth2 EXCEPT ![r] =
                       [client |-> c, live |-> TRUE, redirectURI |-> u,
                        webOrigin |-> w, req |-> incoming[r].areq,
                        res |-> "unset", endProxied |-> FALSE]]
    BY <1>4 DEF Validated
  <2> DEFINE o == [client |-> c, live |-> TRUE, redirectURI |-> u,
                   webOrigin |-> w, req |-> incoming[r].areq,
                   res |-> "unset", endProxied |-> FALSE]
  <2>2. PICK to \in {"error", "immediate"} : Goto(r, "validate", to)
    BY <1>4 DEF Validated
  <2>3. pc[r] \in Handling /\ to \in Handling
    BY <2>2 DEF Goto, Handling
  <2>4. Client(o) /\ oauth2' = [oauth2 EXCEPT ![r] = o]
    BY <2>1, <2>3 DEF KnownClients
  <2>5. UNCHANGED <<registered, known>>
    BY <1>4 DEF Validated, shared, given
  <2> HIDE DEF o
  <2> QED BY <2>2, <2>3, <2>4, <2>5, KnownWrites DEF Goto
<1>5. CASE Immediated(r)
  <2>1. CASE /\ Goto(r, "immediate", "respond")
             /\ oauth2' = [oauth2 EXCEPT ![r] = [@ EXCEPT !.res = "allow"]]
             /\ UNCHANGED <<shared, given, session, txnID, proxied>>
    <3> DEFINE o == [oauth2[r] EXCEPT !.res = "allow"]
    <3>1. oauth2[r] \in Txn /\ oauth2[r] # None /\ pc[r] \in Handling
      BY <2>1 DEF TypeInv, TypeOK, Equipped, Goto, Handling, Holding
    <3>2. o.client = oauth2[r].client
      BY <3>1 DEF Txn
    <3>3. Client(o) /\ oauth2' = [oauth2 EXCEPT ![r] = o]
      BY <1>1, <2>1, <3>1, <3>2
    <3>4. /\ pc' = [pc EXCEPT ![r] = "respond"] /\ "respond" \in Handling
          /\ UNCHANGED <<registered, known>>
      BY <2>1 DEF Goto, Handling, shared, given
    <3> HIDE DEF o
    <3> QED BY <3>1, <3>3, <3>4, KnownWrites
  <2>2. CASE \E to \in {"error", "store"} :
               Goto(r, "immediate", to) /\ UNCHANGED <<shared, oauth2, given>>
    BY <1>2, <2>2 DEF Handling, shared, given
  <2> QED BY <1>5, <2>1, <2>2 DEF Immediated, Fail
<1>6. CASE Store(r)
  BY <1>2, <1>6 DEF Store, Fail, Handling, shared, locals, given
<1>7. CASE Loads(r)
  <2>1. ASSUME NEW from \in {"load", "error"},
               NEW failed \in {"error", "errorRespond"},
               LoadInvalidated(r, from, failed)
        PROVE  KnownClients'
    BY <1>2, <2>1 DEF LoadInvalidated, Handling, shared, given
  <2>2. ASSUME NEW from \in {"load", "error"},
               NEW loaded \in {"resume", "decide", "errorRespond"},
               LoadSucceeds(r, from, loaded)
        PROVE  KnownClients'
    <3> DEFINE txn == session[r][incoming[r].tid]
               o == [txn EXCEPT !.live = TRUE]
    <3>1. pc[r] = from /\ pc[r] \in Handling /\ loaded \in Handling
      BY <2>2 DEF LoadSucceeds, Goto, Handling
    <3>2. incoming[r].tid \in Requests /\ txn # None
      BY <2>2, <3>1 DEF LoadSucceeds, Found, TypeInv, TypeOK, Equipped, Incoming
    <3>3. txn \in Txn /\ txn.client \in registered
      BY <2>2, <3>2 DEF LoadSucceeds, TypeInv, TypeOK
    <3>4. o.client = txn.client
      BY <3>3 DEF Txn
    <3>5. Client(o)
      BY <3>1, <3>3, <3>4 DEF KnownClients
    <3>6. /\ pc' = [pc EXCEPT ![r] = loaded]
          /\ oauth2' = [oauth2 EXCEPT ![r] = o]
          /\ UNCHANGED <<registered, known>>
      BY <2>2 DEF LoadSucceeds, SetLoaded, Goto, shared, given
    <3> HIDE DEF txn, o
    <3> QED BY <3>1, <3>5, <3>6, KnownWrites
  <2> QED BY <1>7, <2>1, <2>2 DEF Loads
<1>8. CASE Settles(r)
  <2>1. PICK from \in {"resume", "decide"}, verdict \in {"allow", "deny"} :
          Goto(r, from, "respond") /\ Settled(r, verdict)
    BY <1>8 DEF Settles
  <2> DEFINE o == [oauth2[r] EXCEPT !.res = verdict, !.endProxied = TRUE]
  <2>2. oauth2[r] \in Txn /\ oauth2[r] # None /\ pc[r] \in Handling
    BY <2>1 DEF TypeInv, TypeOK, Equipped, Goto, Handling, Holding
  <2>3. o.client = oauth2[r].client
    BY <2>2 DEF Txn
  <2>4. Client(o) /\ oauth2' = [oauth2 EXCEPT ![r] = o]
    BY <1>1, <2>1, <2>2, <2>3 DEF Settled, SetLoaded
  <2>5. /\ pc' = [pc EXCEPT ![r] = "respond"] /\ "respond" \in Handling
        /\ UNCHANGED <<registered, known>>
    BY <2>1 DEF Settled, Goto, Handling, shared, given
  <2> HIDE DEF o
  <2> QED BY <2>2, <2>4, <2>5, KnownWrites
<1>9. CASE Update(r)
  BY <1>2, <1>9 DEF Update, Fail, Handling, shared, locals, given
<1>10. CASE Ends(r)
  <2>1. /\ pc' = [pc EXCEPT ![r] = "done"]
        /\ oauth2' = [oauth2 EXCEPT ![r] = None]
        /\ known' = [known EXCEPT ![r] = {}]
        /\ UNCHANGED registered
    BY <1>10 DEF Ends, Finish, Release, Goto
  <2>2. "done" \notin Handling
    BY DEF Handling
  <2>3. \A s \in Requests \ {r} : /\ pc'[s] = pc[s] /\ oauth2'[s] = oauth2[s]
                                   /\ known'[s] = known[s]
    BY <2>1 DEF TypeInv, TypeOK
  <2>4. pc'[r] = "done" /\ oauth2'[r] = None
    BY <2>1 DEF TypeInv, TypeOK
  <2> QED BY <2>1, <2>2, <2>3, <2>4 DEF KnownClients
<1> QED
  BY <1>3, <1>4, <1>5, <1>6, <1>7, <1>8, <1>9, <1>10, StepShape

LEMMA KnownNext ==
  ASSUME TypeInv, KnownClients, [Next]_vars
  PROVE  KnownClients'
<1>1. ASSUME NEW r \in Requests, NEW in \in Incoming, Receive(r, in)
      PROVE  KnownClients'
  <2>1. pc[r] = "idle" /\ oauth2[r] = None
    BY <1>1 DEF Receive, Goto, KnownClients, Handling
  <2> QED BY <1>1, <2>1
          DEF Receive, Goto, KnownClients, TypeInv, TypeOK, Handling
<1>2. CASE Crash
  BY <1>2 DEF Crash, InFlight, Handling, KnownClients, TypeInv, TypeOK, shared
<1>3. ASSUME NEW c \in Clients, Deauthorize(c)
      PROVE  KnownClients'
  BY <1>3 DEF Deauthorize, KnownClients
<1>4. CASE UNCHANGED vars
  BY <1>4 DEF vars, KnownClients
<1> QED BY <1>1, <1>2, <1>3, <1>4, KnownStep DEF Next

\* A redirect names only a client that was still registered when the redirecting
\* request arrived, on whichever way, the second load of the error path included,
\* and whatever is deauthorized meanwhile.
THEOREM DeauthorizedNotAnswered == Spec => NoRedirectForDeauthorized
<1>1. Init => KnownClients
  BY DEF Init, KnownClients, Handling
<1>2. TypeInv /\ KnownClients /\ [Next]_vars => KnownClients'
  BY KnownNext
<1>3. OriginInv /\ KnownClients /\ [Next]_vars
        => [\A r \in Requests :
              pc[r] # "done" /\ Redirected(r)'
                => answer'[r].client \in known[r] \cup {None}]_vars
  <2> SUFFICES ASSUME OriginInv, KnownClients, [Next]_vars, NEW r \in Requests,
                      pc[r] # "done", Redirected(r)'
               PROVE  answer'[r].client \in known[r] \cup {None}
    OBVIOUS
  <2>1. oauth2[r] # None /\ answer'[r] = Redirect(r, answer'[r].kind)
    BY RedirectEnds
  <2>2. answer'[r].client = oauth2[r].client
    BY <2>1 DEF Redirect
  <2> QED BY <2>1, <2>2 DEF KnownClients
<1> QED
  BY <1>1, <1>2, <1>3, TypeCorrect, OriginCorrect, PTL
     DEF Spec, NoRedirectForDeauthorized
-----------------------------------------------------------------------------
(* The transaction of a redirect leaves the session with it. *)

LEMMA ArrangedWrites ==
  ASSUME TypeInv, Arranged, NEW r \in Requests, NEW to, NEW o, NEW t, NEW p,
         pc' = [pc EXCEPT ![r] = to],
         oauth2' = [oauth2 EXCEPT ![r] = o],
         txnID' = [txnID EXCEPT ![r] = t],
         proxied' = [proxied EXCEPT ![r] = p],
         to \in Responding /\ t # None => p,
         o # None /\ o.endProxied => p
  PROVE  Arranged'
<1>1. \A s \in Requests \ {r} :
        /\ pc'[s] = pc[s] /\ oauth2'[s] = oauth2[s]
        /\ txnID'[s] = txnID[s] /\ proxied'[s] = proxied[s]
  BY DEF TypeInv, TypeOK
<1>2. pc'[r] = to /\ oauth2'[r] = o /\ txnID'[r] = t /\ proxied'[r] = p
  BY DEF TypeInv, TypeOK
<1> QED BY <1>1, <1>2 DEF Arranged

LEMMA ArrangedStep ==
  ASSUME UndecidedInv, Arranged, NEW r \in Requests, Step(r)
  PROVE  Arranged'
<1> USE EndpointAssumption
<1>1. TypeInv
  BY DEF UndecidedInv
<1>2. /\ oauth2 = [oauth2 EXCEPT ![r] = oauth2[r]]
      /\ txnID = [txnID EXCEPT ![r] = txnID[r]]
      /\ proxied = [proxied EXCEPT ![r] = proxied[r]]
      /\ oauth2[r] # None /\ oauth2[r].endProxied => proxied[r]
  BY <1>1 DEF TypeInv, TypeOK, Arranged
<1>3. ASSUME NEW from, NEW to, Goto(r, from, to),
             to \in Responding => from \in Responding,
             UNCHANGED <<oauth2, txnID, proxied>>
      PROVE  Arranged'
  BY <1>1, <1>2, <1>3, ArrangedWrites DEF Goto, Arranged
<1>4. CASE Moves(r)
  BY <1>3, <1>4 DEF Moves, locals
<1>5. CASE Validated(r)
  <2>1. PICK c, u, w :
          oauth2' = [oauth2 EXCEPT ![r] =
                       [client |-> c, live |-> TRUE, redirectURI |-> u,
                        webOrigin |-> w, req |-> incoming[r].areq,
                        res |-> "unset", endProxied |-> FALSE]]
    BY <1>5 DEF Validated
  <2> DEFINE o == [client |-> c, live |-> TRUE, redirectURI |-> u,
                   webOrigin |-> w, req |-> incoming[r].areq,
                   res |-> "unset", endProxied |-> FALSE]
  <2>2. o.endProxied = FALSE /\ oauth2' = [oauth2 EXCEPT ![r] = o]
    BY <2>1
  <2>3. PICK to \in {"error", "immediate"} : pc' = [pc EXCEPT ![r] = to]
    BY <1>5 DEF Validated, Goto
  <2>4. UNCHANGED <<txnID, proxied>>
    BY <1>5 DEF Validated
  <2> HIDE DEF o
  <2>5. to \notin Responding
    BY DEF Responding
  <2> QED BY <1>1, <1>2, <2>2, <2>3, <2>4, <2>5, ArrangedWrites
<1>6. CASE Immediated(r)
  <2>1. CASE /\ Goto(r, "immediate", "respond")
             /\ oauth2' = [oauth2 EXCEPT ![r] = [@ EXCEPT !.res = "allow"]]
             /\ UNCHANGED <<shared, given, session, txnID, proxied>>
    <3> DEFINE o == [oauth2[r] EXCEPT !.res = "allow"]
    <3>1. oauth2[r] \in Txn /\ oauth2[r] # None /\ txnID[r] = None
      BY <1>1, <2>1
         DEF TypeInv, TypeOK, Equipped, Goto, Handling, Holding, Opening
    <3>2. o.endProxied = oauth2[r].endProxied
      BY <3>1 DEF Txn
    <3>3. oauth2' = [oauth2 EXCEPT ![r] = o]
      BY <2>1
    <3>4. pc' = [pc EXCEPT ![r] = "respond"] /\ UNCHANGED <<txnID, proxied>>
      BY <2>1 DEF Goto
    <3> HIDE DEF o
    <3> QED BY <1>1, <1>2, <3>1, <3>2, <3>3, <3>4, ArrangedWrites
  <2>2. CASE \E to \in {"error", "store"} :
               Goto(r, "immediate", to) /\ UNCHANGED <<oauth2, txnID, proxied>>
    BY <1>3, <2>2 DEF Responding
  <2> QED BY <1>6, <2>1, <2>2 DEF Immediated, Fail
<1>7. CASE Store(r)
  <2>1. CASE Fail(r, "store") /\ UNCHANGED <<shared, locals, given>>
    BY <1>3, <2>1 DEF Fail, Responding, locals
  <2>2. CASE /\ pc' = [pc EXCEPT ![r] = "dialog"]
             /\ txnID' = [txnID EXCEPT ![r] = r]
             /\ UNCHANGED <<oauth2, proxied>>
    BY <1>1, <1>2, <2>2, ArrangedWrites DEF Responding
  <2> QED BY <1>7, <2>1, <2>2 DEF Store, Goto
<1>8. CASE Loads(r)
  <2>1. ASSUME NEW from \in {"load", "error"},
               NEW failed \in {"error", "errorRespond"},
               LoadInvalidated(r, from, failed)
        PROVE  Arranged'
    BY <1>3, <2>1 DEF LoadInvalidated, Responding
  <2>2. ASSUME NEW from \in {"load", "error"},
               NEW loaded \in {"resume", "decide", "errorRespond"},
               LoadSucceeds(r, from, loaded)
        PROVE  Arranged'
    <3> DEFINE tid == incoming[r].tid
               o == [session[r][tid] EXCEPT !.live = TRUE]
    <3>1. txnID[r] = None /\ pc[r] \in Handling
      BY <1>8, <2>2 DEF Loads, LoadSucceeds, Goto, Handling
    <3>2. tid \in Requests /\ session[r][tid] # None
      BY <1>1, <2>2, <3>1
         DEF LoadSucceeds, Found, TypeInv, TypeOK, Equipped, Incoming
    <3>3. session[r][tid] \in Txn /\ ~session[r][tid].endProxied
      BY <1>1, <3>1, <3>2
         DEF TypeInv, TypeOK, UndecidedInv, VerdictIsProxied, Undecided
    <3>4. ~o.endProxied
      BY <3>3 DEF Txn
    <3>5. /\ pc' = [pc EXCEPT ![r] = loaded]
          /\ oauth2' = [oauth2 EXCEPT ![r] = o]
          /\ txnID' = [txnID EXCEPT ![r] = tid]
          /\ UNCHANGED proxied
      BY <2>2 DEF LoadSucceeds, SetLoaded, Goto
    <3> HIDE DEF tid, o
    <3> QED BY <1>1, <1>2, <3>4, <3>5, ArrangedWrites DEF Responding
  <2> QED BY <1>8, <2>1, <2>2 DEF Loads
<1>9. CASE Settles(r)
  <2>1. PICK verdict : /\ pc' = [pc EXCEPT ![r] = "respond"]
                       /\ Settled(r, verdict)
    BY <1>9 DEF Settles, Goto
  <2>2. /\ \E o : oauth2' = [oauth2 EXCEPT ![r] = o]
        /\ proxied' = [proxied EXCEPT ![r] = TRUE]
        /\ UNCHANGED txnID
    BY <2>1 DEF Settled, SetLoaded
  <2> QED BY <1>1, <1>2, <2>1, <2>2, ArrangedWrites
<1>10. CASE Update(r)
  BY <1>3, <1>10 DEF Update, Fail, Responding, locals
<1>11. CASE Ends(r)
  <2>1. /\ pc' = [pc EXCEPT ![r] = "done"]
        /\ oauth2' = [oauth2 EXCEPT ![r] = None]
        /\ txnID' = [txnID EXCEPT ![r] = None]
        /\ proxied' = [proxied EXCEPT ![r] = FALSE]
    BY <1>11 DEF Ends, Finish, Release, Goto
  <2> QED BY <1>1, <2>1, ArrangedWrites
<1> QED
  BY <1>1, <1>4, <1>5, <1>6, <1>7, <1>8, <1>9, <1>10, <1>11, StepShape

LEMMA ArrangedNext ==
  ASSUME UndecidedInv, Arranged, [Next]_vars
  PROVE  Arranged'
<1>1. ASSUME NEW r \in Requests, NEW in \in Incoming, Receive(r, in)
      PROVE  Arranged'
  BY <1>1
     DEF Receive, Goto, Arranged, Responding, UndecidedInv, TypeInv, TypeOK
<1>2. CASE Crash
  BY <1>2 DEF Crash, Arranged
<1>3. ASSUME NEW c \in Clients, Deauthorize(c)
      PROVE  Arranged'
  BY <1>3 DEF Deauthorize, Arranged
<1>4. CASE UNCHANGED vars
  BY <1>4 DEF vars, Arranged
<1> QED BY <1>1, <1>2, <1>3, <1>4, ArrangedStep DEF Next

\* A request that answers for a transaction has arranged for it to be removed.
THEOREM ArrangedCorrect == Spec => []Arranged
<1>1. Init => Arranged
  BY DEF Init, Arranged
<1>2. UndecidedInv /\ Arranged /\ [Next]_vars => Arranged'
  BY ArrangedNext
<1> QED BY <1>1, <1>2, UndecidedCorrect, PTL DEF Spec

\* The session that is saved with a redirect does not hold the transaction the
\* redirect ends: decision and resume have wrapped res.end, or, for errors behind
\* authorizationErrorHandler, that does, unless the mark says it was done.
THEOREM AnsweredLeavesSession == Spec => AnsweredIsRemoved
<1>1. OriginInv /\ Arranged /\ [Next]_vars
        => [\A r \in Requests :
              pc[r] # "done" /\ Redirected(r)'
                /\ (mount = "authorizationError" \/ answer'[r].kind # "error")
              => store'[answer'[r].tid] = None]_vars
  <2> SUFFICES ASSUME OriginInv, Arranged, [Next]_vars, NEW r \in Requests,
                      pc[r] # "done", Redirected(r)',
                      mount = "authorizationError" \/ answer'[r].kind # "error"
               PROVE  store'[answer'[r].tid] = None
    OBVIOUS
  <2>1. PICK from \in Handling, removes \in BOOLEAN :
          /\ Finish(r, from, removes, answer'[r])
          /\ proxied[r] => removes
          /\ oauth2[r] # None /\ answer'[r] = Redirect(r, answer'[r].kind)
          /\ Removing(r, removes, answer'[r].kind)
    BY RedirectEnds
  <2>2. answer'[r].tid = TidOf(r)
    BY <2>1 DEF Redirect
  <2>3. store' = [t \in Requests |->
                    IF removes /\ t = txnID[r] THEN None ELSE session[r][t]]
    BY <2>1 DEF Finish
  <2>4. CASE txnID[r] = None
    <3>1. pc[r] \notin {"done", "lost"} /\ txnID[r] # r
      BY <2>1, <2>4, EndpointAssumption DEF Finish, Goto, Handling
    <3>2. session[r][r] = None
      BY <3>1 DEF OriginInv, AgreesWithOrigin, FromOrigin
    <3> QED BY <2>2, <2>3, <2>4, <3>1, <3>2 DEF TidOf
  <2>5. CASE txnID[r] # None
    <3>1. txnID[r] \in Requests
      BY <2>5 DEF OriginInv, TypeInv, TypeOK
    <3>2. removes
      BY <2>1, <2>5 DEF Removing, Arranged, Redirected, Redirects
    <3> QED BY <2>2, <2>3, <2>5, <3>1, <3>2 DEF TidOf
  <2> QED BY <2>4, <2>5
<1> QED
  BY <1>1, ArrangedCorrect, OriginCorrect, PTL DEF Spec, AnsweredIsRemoved
-----------------------------------------------------------------------------
(* Behind authorizationErrorHandler no live client is saved. *)

SerializedInv == LiveInHand /\ StoredSerialized

\* A request that writes one slot of its copy, under the transaction in hand.
LEMMA LiveWrites ==
  ASSUME TypeInv, LiveInHand, NEW r \in Requests, NEW to, NEW t, NEW tid \in Requests,
         NEW txn,
         pc' = [pc EXCEPT ![r] = to],
         txnID' = [txnID EXCEPT ![r] = t],
         session' = [session EXCEPT ![r][tid] = txn],
         t \in {None, tid}, txnID[r] \in {None, tid},
         txn # None /\ txn.live => t = tid /\ to # "dialog",
         UNCHANGED mount
  PROVE  LiveInHand'
<1>1. \A s \in Requests \ {r} :
        pc'[s] = pc[s] /\ txnID'[s] = txnID[s] /\ session'[s] = session[s]
  BY DEF TypeInv, TypeOK
<1>2. /\ pc'[r] = to /\ txnID'[r] = t /\ session'[r][tid] = txn
      /\ \A u \in Requests \ {tid} : session'[r][u] = session[r][u]
  BY DEF TypeInv, TypeOK
<1> SUFFICES ASSUME mount = "authorizationError",
                    NEW s \in Requests, NEW u \in Requests,
                    session'[s][u] # None, session'[s][u].live
             PROVE  u = txnID'[s] /\ pc'[s] # "dialog"
  BY DEF LiveInHand
<1>3. CASE s # r
  BY <1>1, <1>3 DEF LiveInHand
<1>4. CASE s = r /\ u = tid
  BY <1>2, <1>4
<1>5. CASE s = r /\ u # tid
  <2>1. session[r][u] # None /\ session[r][u].live
    BY <1>2, <1>5
  <2>2. u = txnID[r] /\ u # None
    BY <2>1, EndpointAssumption DEF LiveInHand
  <2> QED BY <1>5, <2>2
<1> QED BY <1>3, <1>4, <1>5

\* A request that leaves its copy alone and shows no dialog.
LEMMA LiveMoves ==
  ASSUME TypeInv, LiveInHand, NEW r \in Requests, NEW to,
         pc' = [pc EXCEPT ![r] = to], to # "dialog",
         UNCHANGED <<mount, session, txnID>>
  PROVE  LiveInHand'
<1>1. \A s \in Requests : pc'[s] \in {pc[s], to}
  BY DEF TypeInv, TypeOK
<1> QED BY <1>1 DEF LiveInHand

\* What is saved at the end of a response, and what is then left.
LEMMA LiveEnds ==
  ASSUME TypeInv, Arranged, SerializedInv, NEW r \in Requests, Ends(r)
  PROVE  SerializedInv'
<1> USE EndpointAssumption
<1>1. PICK from \in Handling, removes \in BOOLEAN, ans \in Answer :
        /\ Finish(r, from, removes, ans)
        /\ proxied[r] => removes
        /\ Removing(r, removes, ans.kind)
  BY DEF Ends
<1>2. /\ pc' = [pc EXCEPT ![r] = "done"]
      /\ session' = [session EXCEPT ![r] = NoTxns]
      /\ txnID' = [txnID EXCEPT ![r] = None]
      /\ UNCHANGED mount
      /\ store' = [t \in Requests |->
                     IF removes /\ t = txnID[r] THEN None ELSE session[r][t]]
  BY <1>1 DEF Finish, Release, Goto
<1>3. LiveInHand'
  <2>1. \A s \in Requests \ {r} :
          pc'[s] = pc[s] /\ txnID'[s] = txnID[s] /\ session'[s] = session[s]
    BY <1>2 DEF TypeInv, TypeOK
  <2>2. \A t \in Requests : session'[r][t] = None
    BY <1>2 DEF TypeInv, TypeOK, NoTxns
  <2> QED BY <1>2, <2>1, <2>2 DEF LiveInHand, SerializedInv
<1>4. StoredSerialized'
  <2> SUFFICES ASSUME mount = "authorizationError", NEW t \in Requests,
                      store'[t] # None, store'[t].live
               PROVE  FALSE
    BY <1>2 DEF StoredSerialized
  <2>1. /\ session[r][t] # None /\ session[r][t].live
        /\ ~(removes /\ t = txnID[r])
    BY <1>2
  <2>2. t = txnID[r] /\ pc[r] # "dialog" /\ txnID[r] # None
    BY <2>1 DEF SerializedInv, LiveInHand
  <2>3. ~removes /\ ~proxied[r]
    BY <1>1, <2>1, <2>2
  <2>4. pc[r] \notin Responding
    BY <2>2, <2>3 DEF Arranged
  <2>5. oauth2[r] # None /\ ~oauth2[r].endProxied
    BY <2>2, <2>3 DEF Arranged, TypeInv, Equipped
  <2> QED BY <1>1, <2>2, <2>3, <2>4, <2>5 DEF Removing
<1> QED BY <1>3, <1>4 DEF SerializedInv

LEMMA LiveStep ==
  ASSUME TypeInv, Arranged, SerializedInv, NEW r \in Requests, Step(r)
  PROVE  SerializedInv'
<1> USE EndpointAssumption
<1>1. LiveInHand /\ txnID = [txnID EXCEPT ![r] = txnID[r]]
  BY DEF SerializedInv, TypeInv, TypeOK
<1>2. ASSUME UNCHANGED <<mount, store>>, LiveInHand'
      PROVE  SerializedInv'
  BY <1>2 DEF SerializedInv, StoredSerialized
<1>3. ASSUME NEW from, NEW to, Goto(r, from, to), to # "dialog",
             UNCHANGED <<shared, session, txnID>>
      PROVE  SerializedInv'
  BY <1>1, <1>2, <1>3, LiveMoves DEF Goto, shared
<1>4. CASE Moves(r)
  BY <1>3, <1>4 DEF Moves, locals
<1>5. CASE Validated(r)
  BY <1>3, <1>5 DEF Validated
<1>6. CASE Immediated(r)
  BY <1>3, <1>6 DEF Immediated, Fail
<1>7. CASE Store(r)
  <2>1. CASE Fail(r, "store") /\ UNCHANGED <<shared, locals, given>>
    BY <1>3, <2>1 DEF Fail, locals
  <2>2. ASSUME NEW w, Goto(r, "store", "dialog"),
               session' = [session EXCEPT ![r][r] = Serialized(oauth2[r], w)],
               txnID' = [txnID EXCEPT ![r] = r], UNCHANGED shared
        PROVE  SerializedInv'
    <3>1. txnID[r] = None
      BY <2>2 DEF TypeInv, Equipped, Opening, Goto
    <3>2. ~Serialized(oauth2[r], w).live
      BY DEF Serialized
    <3>3. LiveInHand'
      BY <1>1, <2>2, <3>1, <3>2, LiveWrites DEF Goto, shared
    <3> QED BY <1>2, <2>2, <3>3 DEF shared
  <2> QED BY <1>7, <2>1, <2>2 DEF Store
<1>8. CASE Loads(r)
  <2>1. ASSUME NEW from \in {"load", "error"},
               NEW failed \in {"error", "errorRespond"},
               LoadInvalidated(r, from, failed)
        PROVE  SerializedInv'
    <3>1. txnID[r] = None /\ incoming[r].tid \in Requests
      BY <1>8, <2>1
         DEF Loads, LoadInvalidated, Found, Goto, TypeInv, TypeOK, Equipped,
             Handling, Incoming
    <3>2. /\ pc' = [pc EXCEPT ![r] = failed]
          /\ session' = [session EXCEPT ![r][incoming[r].tid] = None]
          /\ txnID' = [txnID EXCEPT ![r] = None]
          /\ UNCHANGED <<mount, store>>
      BY <1>1, <2>1, <3>1 DEF LoadInvalidated, Goto, shared
    <3>3. LiveInHand'
      BY <1>1, <3>1, <3>2, LiveWrites
    <3> QED BY <1>2, <3>2, <3>3
  <2>2. ASSUME NEW from \in {"load", "error"},
               NEW loaded \in {"resume", "decide", "errorRespond"},
               LoadSucceeds(r, from, loaded)
        PROVE  SerializedInv'
    <3> DEFINE txn == [session[r][incoming[r].tid] EXCEPT !.live = TRUE]
    <3>1. txnID[r] = None /\ incoming[r].tid \in Requests
      BY <1>8, <2>2
         DEF Loads, LoadSucceeds, Found, Goto, TypeInv, TypeOK, Equipped,
             Handling, Incoming
    <3>2. /\ pc' = [pc EXCEPT ![r] = loaded]
          /\ session' = [session EXCEPT ![r][incoming[r].tid] = txn]
          /\ txnID' = [txnID EXCEPT ![r] = incoming[r].tid]
          /\ UNCHANGED <<mount, store>>
      BY <2>2 DEF LoadSucceeds, SetLoaded, Goto, shared
    <3> HIDE DEF txn
    <3>3. LiveInHand'
      BY <1>1, <3>1, <3>2, LiveWrites
    <3> QED BY <1>2, <3>2, <3>3
  <2> QED BY <1>8, <2>1, <2>2 DEF Loads
<1>9. CASE Settles(r)
  <2>1. PICK from \in {"resume", "decide"}, verdict \in {"allow", "deny"} :
          Goto(r, from, "respond") /\ Settled(r, verdict)
    BY <1>9 DEF Settles
  <2> DEFINE txn == [oauth2[r] EXCEPT !.res = verdict, !.endProxied = TRUE]
  <2>2. txnID[r] \in Requests
    BY <2>1 DEF TypeInv, TypeOK, Equipped, Loaded, Goto
  <2>3. /\ pc' = [pc EXCEPT ![r] = "respond"]
        /\ session' = [session EXCEPT ![r][txnID[r]] = txn]
        /\ UNCHANGED <<mount, store, txnID>>
    BY <2>1 DEF Settled, SetLoaded, Goto, shared
  <2> HIDE DEF txn
  <2>4. LiveInHand'
    BY <1>1, <2>2, <2>3, LiveWrites
  <2> QED BY <1>2, <2>3, <2>4
<1>10. CASE Update(r)
  <2>1. CASE Fail(r, "update") /\ UNCHANGED <<shared, locals, given>>
    BY <1>3, <2>1 DEF Fail, locals
  <2>2. CASE /\ Goto(r, "update", "dialog")
             /\ session' = [session EXCEPT ![r][txnID[r]] =
                              Serialized(oauth2[r], None)]
             /\ UNCHANGED <<shared, given, oauth2, txnID, proxied>>
    <3>1. txnID[r] \in Requests
      BY <2>2 DEF TypeInv, TypeOK, Equipped, Loaded, Goto
    <3>2. ~Serialized(oauth2[r], None).live
      BY DEF Serialized
    <3>3. LiveInHand'
      BY <1>1, <2>2, <3>1, <3>2, LiveWrites DEF Goto, shared
    <3> QED BY <1>2, <2>2, <3>3 DEF shared
  <2> QED BY <1>10, <2>1, <2>2 DEF Update
<1>11. CASE Ends(r)
  BY <1>11, LiveEnds
<1> QED
  BY <1>4, <1>5, <1>6, <1>7, <1>8, <1>9, <1>10, <1>11, StepShape

LEMMA LiveNext ==
  ASSUME TypeInv, Arranged, SerializedInv, [Next]_vars
  PROVE  SerializedInv'
<1>1. ASSUME NEW r \in Requests, NEW in \in Incoming, Receive(r, in)
      PROVE  SerializedInv'
  <2>1. /\ session' = [session EXCEPT ![r] = store]
        /\ \E to \in {"parse", "load"} : pc' = [pc EXCEPT ![r] = to]
        /\ UNCHANGED <<mount, store, txnID>>
    BY <1>1 DEF Receive, Goto
  <2>2. \A s \in Requests \ {r} : pc'[s] = pc[s] /\ session'[s] = session[s]
    BY <2>1 DEF TypeInv, TypeOK
  <2>3. session'[r] = store
    BY <2>1 DEF TypeInv, TypeOK
  <2> QED BY <2>1, <2>2, <2>3 DEF SerializedInv, LiveInHand, StoredSerialized
<1>2. CASE Crash
  BY <1>2 DEF Crash, SerializedInv, LiveInHand, StoredSerialized, NoTxns, shared
<1>3. ASSUME NEW c \in Clients, Deauthorize(c)
      PROVE  SerializedInv'
  BY <1>3 DEF Deauthorize, SerializedInv, LiveInHand, StoredSerialized
<1>4. CASE UNCHANGED vars
  BY <1>4 DEF vars, SerializedInv, LiveInHand, StoredSerialized
<1> QED BY <1>1, <1>2, <1>3, <1>4, LiveStep DEF Next

\* A decision that fails, before or after its verdict, a dialog that is shown again
\* and a request that crashes: behind authorizationErrorHandler none of them leaves
\* the client object that load put into the session there.
THEOREM ClientsStaySerialized == Spec => []StoredSerialized
<1>1. Init => Arranged /\ SerializedInv
  BY DEF Init, Arranged, SerializedInv, LiveInHand, StoredSerialized, NoTxns
<1>2. UndecidedInv /\ Arranged /\ [Next]_vars => Arranged'
  BY ArrangedNext
<1>3. TypeInv /\ Arranged /\ SerializedInv /\ [Next]_vars => SerializedInv'
  BY LiveNext
<1>4. SerializedInv => StoredSerialized
  BY DEF SerializedInv
<1> QED BY <1>1, <1>2, <1>3, <1>4, TypeCorrect, UndecidedCorrect, PTL DEF Spec
=============================================================================
