--------------------------- MODULE EndpointProofs ---------------------------
(***************************************************************************)
(* Proofs about AuthorizationEndpoint, for any number of requests, clients *)
(* and URIs, any parsed requests and any error middleware.                 *)
(***************************************************************************)
EXTENDS EndpointInvariants, TLAPS

\* A request that only moves on keeps the invariant of its memory when it has
\* what the stage it moves to uses.
LEMMA MoveTyped ==
  ASSUME TypeInv, NEW r \in Requests, NEW from \in Handling, NEW to \in Handling,
         Goto(r, from, to), UNCHANGED <<shared, locals, given>>,
         to = "validate" => incoming[r].areq # None,
         to \in Holding => oauth2[r] # None,
         to \in Loaded => txnID[r] # None,
         to \in Opening \cup {"load"} => txnID[r] = None
  PROVE  TypeInv'
<1> USE DEF TypeInv, shared, locals, given, Goto
<1>1. TypeOK'
  BY DEF TypeOK
<1>2. Equipped'
  BY DEF Equipped, TypeOK, Handling, Loaded, Opening
<1> QED BY <1>1, <1>2

\* The end of a response saves a session of transactions and frees the request.
LEMMA FinishTyped ==
  ASSUME TypeInv, NEW r \in Requests, NEW from \in Handling,
         NEW removes, NEW ans \in Answer, Finish(r, from, removes, ans)
  PROVE  TypeInv'
<1> USE EndpointAssumption DEF TypeInv, Finish, Release, Goto, NoTxns
<1>1. store' \in [Requests -> Txn \cup {None}]
  BY DEF TypeOK
<1>2. TypeOK'
  BY <1>1 DEF TypeOK
<1>3. Equipped'
  BY DEF Equipped, TypeOK, Handling, Holding, Loaded, Opening
<1> QED BY <1>2, <1>3

\* A redirect is an answer once the request has a transaction.
LEMMA RedirectTyped ==
  ASSUME TypeInv, NEW r \in Requests, oauth2[r] # None,
         NEW kind \in Redirects
  PROVE  Redirect(r, kind) \in Answer
BY DEF TypeInv, TypeOK, Redirect, Answer, Redirects, AnswerKinds, TidOf, Txn

\* So is a page or a dialog, at any time.
LEMMA UnredirectedTyped ==
  ASSUME TypeInv, NEW r \in Requests, NEW kind \in AnswerKinds
  PROVE  Unredirected(r, kind) \in Answer
BY DEF TypeInv, TypeOK, Unredirected, Answer, AnswerKinds, TidOf

-----------------------------------------------------------------------------
LEMMA TypedInit == Init => TypeInv
<1> USE EndpointAssumption DEF Init, NoTxns
<1>1. Init => TypeOK
  BY DEF TypeOK
<1>2. Init => Equipped
  BY DEF Equipped, Handling, Holding, Loaded, Opening
<1> QED BY <1>1, <1>2 DEF TypeInv

\* The requests of authorization.
LEMMA ValidatedTyped ==
  ASSUME TypeInv, NEW r \in Requests, Validated(r)
  PROVE  TypeInv'
<1>1. PICK c \in registered \cup {None}, u \in URIs \cup {None},
           w \in WebOrigins \cup {None}, err \in BOOLEAN :
        /\ Goto(r, "validate", IF err \/ c = None THEN "error" ELSE "immediate")
        /\ oauth2' = [oauth2 EXCEPT ![r] =
                        [client |-> c, live |-> TRUE, redirectURI |-> u,
                         webOrigin |-> w, req |-> incoming[r].areq,
                         res |-> "unset", endProxied |-> FALSE]]
        /\ UNCHANGED <<shared, given, session, txnID, proxied>>
  BY DEF Validated
<1> DEFINE txn == [client |-> c, live |-> TRUE, redirectURI |-> u,
                   webOrigin |-> w, req |-> incoming[r].areq,
                   res |-> "unset", endProxied |-> FALSE]
<1>2. incoming[r].areq \in AuthzRequests
  BY <1>1 DEF TypeInv, TypeOK, Equipped, Goto, Handling, Incoming
<1>3. txn \in Txn
  BY <1>2 DEF TypeInv, TypeOK, Txn
<1>4. oauth2' = [oauth2 EXCEPT ![r] = txn]
  BY <1>1
<1>5. txn # None
  BY <1>3, EndpointAssumption
<1>6. PICK to \in {"error", "immediate"} : Goto(r, "validate", to)
  BY <1>1
<1>7. UNCHANGED <<shared, given, session, txnID, proxied>>
  BY <1>1
<1> HIDE DEF txn
<1>8. TypeOK'
  BY <1>3, <1>4, <1>6, <1>7 DEF TypeInv, TypeOK, Goto, Handling, shared, given
<1>9. Equipped'
  BY <1>4, <1>5, <1>6, <1>7
     DEF TypeInv, TypeOK, Equipped, Goto, Handling, Holding, Loaded, Opening,
         shared, given
<1> QED BY <1>8, <1>9 DEF TypeInv

LEMMA ImmediatedTyped ==
  ASSUME TypeInv, NEW r \in Requests, Immediated(r)
  PROVE  TypeInv'
<1> DEFINE txn == [oauth2[r] EXCEPT !.res = "allow"]
<1>1. CASE /\ Goto(r, "immediate", "respond")
           /\ oauth2' = [oauth2 EXCEPT ![r] = txn]
           /\ UNCHANGED <<shared, given, session, txnID, proxied>>
  <2>1. oauth2[r] \in Txn
    BY <1>1 DEF TypeInv, TypeOK, Equipped, Goto, Handling, Holding
  <2>2. txn \in Txn /\ txn # None
    BY <2>1, EndpointAssumption DEF Txn
  <2> HIDE DEF txn
  <2>3. TypeOK'
    BY <1>1, <2>2 DEF TypeInv, TypeOK, Goto, Handling, shared, given
  <2>4. Equipped'
    BY <1>1, <2>2
       DEF TypeInv, TypeOK, Equipped, Goto, Handling, Holding, Loaded,
           Opening, shared, given
  <2> QED BY <2>3, <2>4 DEF TypeInv
<1>2. CASE \E to \in {"error", "store"} :
             /\ Goto(r, "immediate", to)
             /\ UNCHANGED <<shared, locals, given>>
  BY <1>2, MoveTyped
     DEF TypeInv, Equipped, Goto, Handling, Holding, Loaded, Opening
<1> QED BY <1>1, <1>2 DEF Immediated, Fail, locals

LEMMA SerializedTyped ==
  ASSUME NEW o \in Txn, NEW w \in WebOrigins \cup {None}
  PROVE  Serialized(o, w) \in Txn
BY DEF Serialized, Txn

LEMMA StoreTyped ==
  ASSUME TypeInv, NEW r \in Requests, Store(r)
  PROVE  TypeInv'
<1>1. CASE Fail(r, "store") /\ UNCHANGED <<shared, locals, given>>
  BY <1>1, MoveTyped DEF Fail, Handling, Holding, Loaded, Opening
<1>2. CASE /\ Goto(r, "store", "dialog")
           /\ session' = [session EXCEPT ![r][r] =
                            Serialized(oauth2[r], oauth2[r].webOrigin)]
           /\ origin' = [origin EXCEPT ![r] =
                            Serialized(oauth2[r], oauth2[r].webOrigin)]
           /\ txnID' = [txnID EXCEPT ![r] = r]
           /\ UNCHANGED <<shared, oauth2, proxied, incoming, known>>
  <2> USE <1>2, EndpointAssumption DEF TypeInv, Goto, shared
  <2>1. oauth2[r] \in Txn
    BY DEF TypeOK, Equipped, Handling, Holding
  <2>2. Serialized(oauth2[r], oauth2[r].webOrigin) \in Txn
    BY <2>1, SerializedTyped DEF Txn
  <2>3. TypeOK'
    BY <2>2 DEF TypeOK, Handling
  <2>4. Equipped'
    BY <2>1 DEF TypeOK, Equipped, Handling, Holding, Loaded, Opening
  <2> QED BY <2>3, <2>4
<1> QED BY <1>1, <1>2 DEF Store

\* Loading a transaction, for decision, resume and the error wrapper alike.
LEMMA LoadInvalidatedTyped ==
  ASSUME TypeInv, NEW r \in Requests, NEW from \in Handling,
         NEW failed \in {"error", "errorRespond"},
         LoadInvalidated(r, from, failed)
  PROVE  TypeInv'
<1> USE EndpointAssumption
        DEF TypeInv, LoadInvalidated, Found, Goto, shared, given
<1>1. incoming[r].tid \in Requests
  BY DEF TypeOK, Equipped, Incoming
<1>2. TypeOK'
  BY <1>1 DEF TypeOK, Handling
<1>3. Equipped'
  BY <1>1 DEF TypeOK, Equipped, Handling, Holding, Loaded, Opening
<1> QED BY <1>2, <1>3

LEMMA LoadSucceedsTyped ==
  ASSUME TypeInv, NEW r \in Requests, NEW from \in Handling,
         NEW loaded \in {"resume", "decide", "errorRespond"},
         LoadSucceeds(r, from, loaded)
  PROVE  TypeInv'
<1> USE EndpointAssumption
        DEF TypeInv, LoadSucceeds, Found, SetLoaded, Goto, shared, given
<1>1. incoming[r].tid \in Requests
  BY DEF TypeOK, Equipped, Incoming
<1>2. session[r][incoming[r].tid] \in Txn
  BY <1>1 DEF TypeOK
<1>3. [session[r][incoming[r].tid] EXCEPT !.live = TRUE] \in Txn
  BY <1>2 DEF Txn
<1>4. TypeOK'
  BY <1>1, <1>3 DEF TypeOK, Handling
<1>5. Equipped'
  BY <1>1, <1>3 DEF TypeOK, Equipped, Handling, Holding, Loaded, Opening
<1> QED BY <1>4, <1>5

\* Taking the verdict on a loaded transaction.
LEMMA SettledTyped ==
  ASSUME TypeInv, NEW r \in Requests, NEW from \in Loaded,
         NEW verdict \in {"allow", "deny"},
         Goto(r, from, "respond"), Settled(r, verdict)
  PROVE  TypeInv'
<1> USE EndpointAssumption DEF TypeInv, Settled, SetLoaded, Goto, shared, given
<1>1. oauth2[r] \in Txn /\ txnID[r] \in Requests
  BY DEF TypeOK, Equipped, Handling, Holding, Loaded
<1>2. [oauth2[r] EXCEPT !.res = verdict, !.endProxied = TRUE] \in Txn
  BY <1>1 DEF Txn
<1>3. TypeOK'
  BY <1>1, <1>2 DEF TypeOK, Handling
<1>4. Equipped'
  BY <1>1, <1>2 DEF TypeOK, Equipped, Handling, Holding, Loaded, Opening
<1> QED BY <1>3, <1>4

LEMMA UpdateTyped ==
  ASSUME TypeInv, NEW r \in Requests, Update(r)
  PROVE  TypeInv'
<1>1. CASE Fail(r, "update") /\ UNCHANGED <<shared, locals, given>>
  BY <1>1, MoveTyped DEF Fail, Handling, Holding, Loaded, Opening
<1>2. CASE /\ Goto(r, "update", "dialog")
           /\ session' = [session EXCEPT ![r][txnID[r]] =
                            Serialized(oauth2[r], None)]
           /\ UNCHANGED <<shared, given, oauth2, txnID, proxied>>
  <2> USE <1>2, EndpointAssumption DEF TypeInv, Goto, shared, given
  <2>1. oauth2[r] \in Txn /\ txnID[r] \in Requests
    BY DEF TypeOK, Equipped, Handling, Holding, Loaded
  <2>2. Serialized(oauth2[r], None) \in Txn
    BY <2>1, SerializedTyped
  <2>3. TypeOK'
    BY <2>1, <2>2 DEF TypeOK, Handling
  <2>4. Equipped'
    BY <2>1 DEF TypeOK, Equipped, Handling, Holding, Loaded, Opening
  <2> QED BY <2>3, <2>4
<1> QED BY <1>1, <1>2 DEF Update
-----------------------------------------------------------------------------
(* The steps of a request fall into a few shapes. *)

\* The request moves on and nothing else changes.
Moves(r) ==
  \E from, to \in Handling :
    /\ Goto(r, from, to) /\ UNCHANGED <<shared, locals, given>>
    /\ to = "validate" => incoming[r].areq # None
    /\ to \in Holding => oauth2[r] # None
    /\ to \in Loaded => txnID[r] # None /\ from \in Loaded
    /\ to \in Opening \cup {"load"} => txnID[r] = None /\ from = "parse"
    /\ to \in Responding => from \in Responding
    /\ to # "dialog"
    /\ from \in {"error", "errorRespond"} => to = "errorRespond"
    /\ to = "errorRespond" => mount = "authorizationError"

\* A dialog or a grant is where its stage has it; a client is told of an error by
\* one of the two error handlers, and behind authorizationErrorHandler an error
\* leaves the transaction only when it is marked.
Removing(r, removes, kind) ==
  CASE kind = "dialog" -> pc[r] = "dialog"
    [] kind \in {"grant", "denied"} -> pc[r] \in Responding
    [] OTHER ->
         /\ kind = "error" => mount = "indirect" \/ pc[r] = "errorRespond"
         /\ mount = "authorizationError"
              => (txnID[r] # None /\ ~oauth2[r].endProxied => removes)

\* The request ends; what is to be removed is removed, and a redirect is made
\* from req.oauth2.
Ends(r) ==
  \E from \in Handling, removes \in BOOLEAN, ans \in Answer :
    /\ Finish(r, from, removes, ans)
    /\ proxied[r] => removes
    /\ ans.tid = TidOf(r)
    /\ ans.kind \in Redirects
         => oauth2[r] # None /\ ans = Redirect(r, ans.kind)
    /\ Removing(r, removes, ans.kind)

\* The session's transaction is dropped, or becomes req.oauth2: when a request
\* loads it, or the error wrapper does for a request that has none.
Loads(r) ==
  /\ txnID[r] = None
  /\ pc[r] = "error" => oauth2[r] = None
  /\ pc'[r] = "errorRespond" => mount = "authorizationError"
  /\ \E from \in {"load", "error"} :
       \/ \E failed \in {"error", "errorRespond"} :
            LoadInvalidated(r, from, failed)
       \/ \E loaded \in {"resume", "decide", "errorRespond"} :
            LoadSucceeds(r, from, loaded)

\* A verdict is taken.
Settles(r) ==
  \E from \in {"resume", "decide"}, verdict \in {"allow", "deny"} :
    Goto(r, from, "respond") /\ Settled(r, verdict)

LEMMA EndsByRedirect ==
  ASSUME TypeInv, NEW r \in Requests, NEW from \in Handling,
         NEW kind \in Redirects, NEW removes \in BOOLEAN,
         proxied[r] => removes, oauth2[r] # None, Removing(r, removes, kind),
         Finish(r, from, removes, Redirect(r, kind))
  PROVE  Ends(r)
<1>1. Redirect(r, kind) \in Answer
  BY RedirectTyped
<1>2. Redirect(r, kind).tid = TidOf(r) /\ Redirect(r, kind).kind = kind
  BY DEF Redirect
<1> QED BY <1>1, <1>2 DEF Ends

LEMMA EndsUnredirected ==
  ASSUME TypeInv, NEW r \in Requests, NEW from \in Handling,
         NEW kind \in {"dialog", "page"}, NEW removes \in BOOLEAN,
         proxied[r] => removes, Removing(r, removes, kind),
         Finish(r, from, removes, Unredirected(r, kind))
  PROVE  Ends(r)
<1>1. Unredirected(r, kind) \in Answer
  BY UnredirectedTyped DEF AnswerKinds
<1>2. /\ Unredirected(r, kind).tid = TidOf(r)
      /\ Unredirected(r, kind).kind = kind /\ kind \notin Redirects
  BY DEF Unredirected, Redirects
<1> QED BY <1>1, <1>2 DEF Ends

LEMMA StepShape ==
  ASSUME TypeInv, NEW r \in Requests, Step(r)
  PROVE  \/ Moves(r) \/ Validated(r) \/ Immediated(r) \/ Store(r) \/ Loads(r)
         \/ Settles(r) \/ Update(r) \/ Ends(r)
<1> DEFINE Shape == \/ Moves(r) \/ Validated(r) \/ Immediated(r) \/ Store(r)
                    \/ Loads(r) \/ Settles(r) \/ Update(r) \/ Ends(r)
<1> USE DEF Handling, Holding, Loaded, Opening, Responding
<1>a. proxied[r] \in BOOLEAN
  BY DEF TypeInv, TypeOK
<1>b. pc[r] = "load" => txnID[r] = None
  BY DEF TypeInv, Equipped
<1>c. ASSUME NEW from \in Handling \ {"error", "errorRespond"}, Fail(r, from),
             UNCHANGED <<shared, locals, given>>
      PROVE  Moves(r)
  BY <1>c DEF Moves, Fail
<1>d. \A to : pc' = [pc EXCEPT ![r] = to] => pc'[r] = to
  BY DEF TypeInv, TypeOK
<1>1. CASE Parse(r)
  BY <1>1 DEF Parse, Moves, Fail, TypeInv, Equipped, Goto
<1>2. CASE ValidateThrows(r)
  BY <1>2, <1>c DEF ValidateThrows
<1>3. CASE Dialog(r)
  <2>1. CASE Finish(r, "dialog", proxied[r], Unredirected(r, "dialog"))
    <3>1. Removing(r, proxied[r], "dialog")
      BY <2>1 DEF Finish, Goto, Removing
    <3> QED BY <2>1, <3>1, <1>a, EndsUnredirected
  <2> QED BY <1>3, <2>1, <1>c DEF Dialog
<1>4. CASE Load(r)
  <2>1. CASE LoadFails(r, "load", "error")
    BY <2>1 DEF LoadFails, Moves
  <2>2. CASE LoadInvalidated(r, "load", "error")
    BY <2>2, <1>4, <1>b, <1>d DEF Load, Loads, LoadInvalidated, Goto
  <2>3. ASSUME NEW loaded \in {"resume", "decide"},
               LoadSucceeds(r, "load", loaded)
        PROVE  Loads(r)
    BY <2>3, <1>4, <1>b, <1>d DEF Load, Loads, LoadSucceeds, Goto
  <2> QED BY <1>4, <2>1, <2>2, <2>3 DEF Load
<1>5. CASE Resume(r)
  <2>1. CASE Fail(r, "resume") /\ UNCHANGED <<shared, locals, given>>
    BY <2>1, <1>c
  <2>2. CASE Goto(r, "resume", "respond") /\ Settled(r, "allow")
    BY <2>2 DEF Settles
  <2>3. CASE Goto(r, "resume", "update") /\ UNCHANGED <<shared, locals, given>>
    BY <2>3 DEF Moves, TypeInv, Equipped, Goto
  <2> QED BY <1>5, <2>1, <2>2, <2>3 DEF Resume
<1>6. CASE Decide(r)
  <2>1. CASE Fail(r, "decide") /\ UNCHANGED <<shared, locals, given>>
    BY <2>1, <1>c
  <2>2. CASE Goto(r, "decide", "respond") /\ Settled(r, incoming[r].verdict)
    <3>1. incoming[r].verdict \in {"allow", "deny"}
      BY <2>2 DEF TypeInv, TypeOK, Equipped, Goto, Incoming
    <3> QED BY <2>2, <3>1 DEF Settles
  <2> QED BY <1>6, <2>1, <2>2 DEF Decide
<1>7. CASE Respond(r)
  <2>1. oauth2[r] # None
    BY <1>7 DEF TypeInv, Equipped, Respond, Fail, Goto
  <2>2. CASE Fail(r, "respond") /\ UNCHANGED <<shared, locals, given>>
    BY <2>2, <1>c
  <2>3. CASE Finish(r, "respond", proxied[r], Redirect(r, "denied"))
    <3>1. Removing(r, proxied[r], "denied")
      BY <2>3 DEF Finish, Goto, Removing
    <3> QED BY <2>1, <2>3, <3>1, <1>a, EndsByRedirect DEF Redirects
  <2>4. CASE Goto(r, "respond", "issue") /\ UNCHANGED <<shared, locals, given>>
    BY <2>1, <2>4 DEF Moves
  <2> QED BY <1>7, <2>2, <2>3, <2>4 DEF Respond
<1>8. CASE Issue(r)
  BY <1>8, <1>c DEF Issue, Moves, TypeInv, Equipped, Goto
<1>9. CASE Complete(r)
  <2>1. oauth2[r] # None
    BY <1>9 DEF TypeInv, Equipped, Complete, Fail, Goto
  <2>2. pc[r] = "complete" => Removing(r, proxied[r], "grant")
    BY DEF Removing
  <2> QED
    BY <2>1, <2>2, <1>9, <1>a, <1>c, EndsByRedirect DEF Complete, Redirects
<1>10. CASE UnhandledError(r)
  <2>1. Removing(r, proxied[r], "page")
    BY <1>10 DEF UnhandledError, Removing
  <2> QED
    BY <2>1, <1>10, <1>a, EndsUnredirected DEF UnhandledError, ErrorPage
<1>11. CASE IndirectError(r)
  <2>1. Removing(r, proxied[r], "error") /\ Removing(r, proxied[r], "page")
    BY <1>11 DEF IndirectError, Removing
  <2> QED
    BY <2>1, <1>11, <1>a, EndsByRedirect, EndsUnredirected
       DEF IndirectError, ErrorPage, Redirects
<1>12. CASE ReloadForError(r)
  <2>1. CASE Goto(r, "error", "errorRespond")
               /\ UNCHANGED <<shared, locals, given>>
    BY <2>1, <1>12 DEF Moves, ReloadForError
  <2>2. CASE oauth2[r] = None /\ LoadFails(r, "error", "errorRespond")
    BY <2>2, <2>1 DEF LoadFails
  <2>3. CASE oauth2[r] = None /\ (\/ LoadInvalidated(r, "error", "errorRespond")
                                 \/ LoadSucceeds(r, "error", "errorRespond"))
    BY <2>3, <1>12 DEF ReloadForError, Loads, TypeInv, Equipped
  <2> QED BY <1>12, <2>1, <2>2, <2>3 DEF ReloadForError
<1>13. CASE RespondError(r)
  <2> DEFINE removes == \/ proxied[r]
                        \/ /\ oauth2[r] # None /\ txnID[r] # None
                           /\ ~oauth2[r].endProxied
  <2>1. removes \in BOOLEAN /\ (proxied[r] => removes)
    <3>1. oauth2[r] # None => oauth2[r].endProxied \in BOOLEAN
      BY DEF Txn, TypeInv, TypeOK
    <3> QED BY <1>a, <3>1
  <2>2. Removing(r, removes, "error") /\ Removing(r, removes, "page")
    BY <1>13 DEF RespondError, Removing, TypeInv, Equipped
  <2>3. \/ /\ oauth2[r] # None
           /\ Finish(r, "errorRespond", removes, Redirect(r, "error"))
        \/ Finish(r, "errorRespond", removes, Unredirected(r, "page"))
    BY <1>13 DEF RespondError, ErrorPage
  <2> HIDE DEF removes
  <2> QED BY <2>1, <2>2, <2>3, EndsByRedirect, EndsUnredirected DEF Redirects
<1> QED
  BY <1>1, <1>2, <1>3, <1>4, <1>5, <1>6, <1>7, <1>8, <1>9, <1>10, <1>11,
     <1>12, <1>13 DEF Step
-----------------------------------------------------------------------------
LEMMA ReceiveTyped ==
  ASSUME TypeInv, NEW r \in Requests, NEW in \in Incoming, Receive(r, in)
  PROVE  TypeInv'
<1> USE EndpointAssumption DEF TypeInv, Receive, Goto
<1>1. TypeOK'
  BY DEF TypeOK, Handling
<1>2. Equipped'
  BY DEF TypeOK, Equipped, Handling, Holding, Loaded, Opening
<1> QED BY <1>1, <1>2

LEMMA CrashTyped ==
  ASSUME TypeInv, Crash
  PROVE  TypeInv'
<1> USE EndpointAssumption DEF TypeInv, Crash, NoTxns, shared, InFlight
<1>1. TypeOK'
  BY DEF TypeOK
<1>2. Equipped'
  BY DEF TypeOK, Equipped, Handling, Holding, Loaded, Opening
<1> QED BY <1>1, <1>2

LEMMA DeauthorizeTyped ==
  ASSUME TypeInv, NEW c \in Clients, Deauthorize(c)
  PROVE  TypeInv'
<1>1. /\ registered' = registered \ {c}
      /\ UNCHANGED <<mount, store, pc, incoming, session, oauth2, txnID, proxied,
                     answer, origin, known>>
  BY DEF Deauthorize
<1>2. TypeOK'
  BY <1>1 DEF TypeInv, TypeOK
<1>3. Equipped'
  BY <1>1 DEF TypeInv, Equipped
<1> QED BY <1>2, <1>3 DEF TypeInv

LEMMA TypedNext ==
  ASSUME TypeInv, [Next]_vars
  PROVE  TypeInv'
<1>1. ASSUME NEW r \in Requests, Step(r)
      PROVE  TypeInv'
  <2>1. CASE Moves(r)
    BY <2>1, MoveTyped DEF Moves
  <2>2. CASE Validated(r)
    BY <2>2, ValidatedTyped
  <2>3. CASE Immediated(r)
    BY <2>3, ImmediatedTyped
  <2>4. CASE Store(r)
    BY <2>4, StoreTyped
  <2>5. CASE Loads(r)
    BY <2>5, LoadInvalidatedTyped, LoadSucceedsTyped DEF Loads, Handling
  <2>6. CASE Settles(r)
    BY <2>6, SettledTyped DEF Settles, Loaded
  <2>7. CASE Update(r)
    BY <2>7, UpdateTyped
  <2>8. CASE Ends(r)
    BY <2>8, FinishTyped DEF Ends
  <2> QED
    BY <1>1, <2>1, <2>2, <2>3, <2>4, <2>5, <2>6, <2>7, <2>8, StepShape
<1>2. ASSUME NEW r \in Requests, NEW in \in Incoming, Receive(r, in)
      PROVE  TypeInv'
  BY <1>2, ReceiveTyped
<1>3. CASE Crash
  BY <1>3, CrashTyped
<1>4. ASSUME NEW c \in Clients, Deauthorize(c)
      PROVE  TypeInv'
  BY <1>4, DeauthorizeTyped
<1>5. CASE UNCHANGED vars
  BY <1>5 DEF vars, TypeInv, TypeOK, Equipped
<1> QED BY <1>1, <1>2, <1>3, <1>4, <1>5 DEF Next

\* Every variable keeps its type, and each request has what its stage uses.
THEOREM TypeCorrect == Spec => []TypeInv
<1>1. Init => TypeInv
  BY TypedInit
<1>2. TypeInv /\ [Next]_vars => TypeInv'
  BY TypedNext
<1> QED BY <1>1, <1>2, PTL DEF Spec

\* TypeOK, the type invariant the runs check, holds of every instance.
THEOREM TypesKept == Spec => []TypeOK
<1>1. TypeInv => TypeOK
  BY DEF TypeInv
<1> QED BY <1>1, TypeCorrect, PTL
-----------------------------------------------------------------------------
(* No saved session holds a verdict. *)

LEMMA UndecidedEnds ==
  ASSUME UndecidedInv, TypeInv', NEW r \in Requests, Ends(r)
  PROVE  VerdictIsProxied' /\ StoredUndecided'
<1>1. PICK from \in Handling, removes \in BOOLEAN, ans \in Answer :
        Finish(r, from, removes, ans) /\ (proxied[r] => removes)
  BY DEF Ends
<1>2. \A t \in Requests :
        store'[t] = IF removes /\ t = txnID[r] THEN None ELSE session[r][t]
  BY <1>1 DEF Finish
<1>3. StoredUndecided'
  BY <1>1, <1>2
     DEF UndecidedInv, VerdictIsProxied, StoredUndecided, Undecided
<1>4. VerdictIsProxied'
  BY <1>1
     DEF UndecidedInv, TypeInv, TypeOK, VerdictIsProxied, Undecided, Finish,
         Release, Goto, NoTxns, Loaded
<1> QED BY <1>3, <1>4

LEMMA UndecidedLoads ==
  ASSUME UndecidedInv, TypeInv', NEW r \in Requests, Loads(r)
  PROVE  VerdictIsProxied' /\ StoredUndecided'
<1> USE EndpointAssumption
<1>1. txnID[r] = None /\ ~proxied[r]
  BY DEF Loads, UndecidedInv, VerdictIsProxied
<1>2. \A t \in Requests : session[r][t] # None => Undecided(session[r][t])
  BY <1>1 DEF UndecidedInv, VerdictIsProxied
<1>3. UNCHANGED <<store, proxied>>
  BY DEF Loads, LoadInvalidated, LoadSucceeds, shared
<1>4. StoredUndecided'
  BY <1>3 DEF UndecidedInv, StoredUndecided
<1>5. ASSUME NEW from \in {"load", "error"},
             NEW failed \in {"error", "errorRespond"},
             LoadInvalidated(r, from, failed)
      PROVE  VerdictIsProxied'
  BY <1>5, <1>2, <1>3
     DEF UndecidedInv, TypeInv, TypeOK, VerdictIsProxied, LoadInvalidated,
         Found, Goto, Loaded
<1>6. ASSUME NEW from \in {"load", "error"},
             NEW loaded \in {"resume", "decide", "errorRespond"},
             LoadSucceeds(r, from, loaded)
      PROVE  VerdictIsProxied'
  <2> DEFINE tid == incoming[r].tid
             txn == [session[r][tid] EXCEPT !.live = TRUE]
  <2>1. tid \in Requests /\ session[r][tid] \in Txn
    BY <1>6
       DEF UndecidedInv, TypeInv, TypeOK, Equipped, Incoming, Handling,
           LoadSucceeds, Found, Goto
  <2>2. Undecided(session[r][tid])
    BY <1>2, <1>6, <2>1 DEF LoadSucceeds, Found
  <2>3. Undecided(txn)
    BY <2>1, <2>2 DEF Txn, Undecided
  <2>4. /\ session' = [session EXCEPT ![r][tid] = txn]
        /\ pc' = [pc EXCEPT ![r] = loaded]
        /\ txnID' = [txnID EXCEPT ![r] = tid]
    BY <1>6 DEF LoadSucceeds, SetLoaded, Goto
  <2> HIDE DEF tid, txn
  <2>5. ASSUME NEW s \in Requests, NEW t \in Requests,
               session'[s][t] # None, ~(proxied'[s] /\ txnID'[s] = t)
        PROVE  Undecided(session'[s][t])
    <3>1. CASE s = r
      BY <1>2, <2>1, <2>3, <2>4, <2>5, <3>1 DEF UndecidedInv, TypeInv, TypeOK
    <3>2. CASE s # r
      BY <1>3, <2>4, <2>5, <3>2
         DEF UndecidedInv, TypeInv, TypeOK, VerdictIsProxied
    <3> QED BY <3>1, <3>2
  <2>6. \A s \in Requests : /\ proxied'[s] => txnID'[s] # None
                            /\ pc'[s] \in Loaded => ~proxied'[s]
    BY <1>1, <1>3, <2>4
       DEF UndecidedInv, TypeInv, TypeOK, VerdictIsProxied
  <2>7. \A s, t \in Requests :
          session'[s][t] # None /\ ~(proxied'[s] /\ txnID'[s] = t)
            => Undecided(session'[s][t])
    BY <2>5
  <2> QED BY <2>6, <2>7 DEF VerdictIsProxied, Undecided
<1> QED BY <1>4, <1>5, <1>6 DEF Loads

LEMMA UndecidedSettles ==
  ASSUME UndecidedInv, TypeInv', NEW r \in Requests, Settles(r)
  PROVE  VerdictIsProxied' /\ StoredUndecided'
<1>1. PICK from \in {"resume", "decide"}, verdict \in {"allow", "deny"} :
        Goto(r, from, "respond") /\ Settled(r, verdict)
  BY DEF Settles
<1> DEFINE txn == [oauth2[r] EXCEPT !.res = verdict, !.endProxied = TRUE]
<1>2. txnID[r] \in Requests
  BY <1>1 DEF UndecidedInv, TypeInv, TypeOK, Equipped, Loaded, Goto
<1>3. /\ session' = [session EXCEPT ![r][txnID[r]] = txn]
      /\ proxied' = [proxied EXCEPT ![r] = TRUE]
      /\ pc' = [pc EXCEPT ![r] = "respond"]
      /\ UNCHANGED <<store, txnID>>
  BY <1>1 DEF Settled, SetLoaded, Goto, shared
<1> HIDE DEF txn
<1>4. StoredUndecided'
  BY <1>3 DEF UndecidedInv, StoredUndecided
<1>5. VerdictIsProxied'
  BY <1>2, <1>3, EndpointAssumption
     DEF UndecidedInv, TypeInv, TypeOK, VerdictIsProxied, Undecided, Loaded
<1> QED BY <1>4, <1>5

LEMMA SerializedUndecided ==
  ASSUME NEW o, NEW w
  PROVE  Undecided(Serialized(o, w))
BY DEF Undecided, Serialized

\* Writing an undecided transaction under the request's own ID.
LEMMA UndecidedWrites ==
  ASSUME UndecidedInv, TypeInv', NEW r \in Requests, NEW t \in Requests,
         NEW txn, Undecided(txn),
         txnID[r] \in {None, t}, pc' = [pc EXCEPT ![r] = "dialog"],
         session' = [session EXCEPT ![r][t] = txn],
         txnID' = [txnID EXCEPT ![r] = t], UNCHANGED <<store, proxied>>
  PROVE  VerdictIsProxied' /\ StoredUndecided'
<1>1. StoredUndecided'
  BY DEF UndecidedInv, StoredUndecided
<1>2. ASSUME NEW s \in Requests
      PROVE  /\ \A u \in Requests :
                  session'[s][u] # None /\ ~(proxied'[s] /\ txnID'[s] = u)
                    => Undecided(session'[s][u])
             /\ proxied'[s] => txnID'[s] # None
             /\ pc'[s] \in Loaded => ~proxied'[s]
  <2>1. CASE s = r
    BY <2>1, EndpointAssumption
       DEF UndecidedInv, TypeInv, TypeOK, VerdictIsProxied, Loaded
  <2>2. CASE s # r
    BY <2>2 DEF UndecidedInv, TypeInv, TypeOK, VerdictIsProxied
  <2> QED BY <2>1, <2>2
<1> QED BY <1>1, <1>2 DEF VerdictIsProxied, Undecided

LEMMA UndecidedMoves ==
  ASSUME UndecidedInv, NEW r \in Requests, NEW from, NEW to \in Handling,
         pc[r] = from, pc' = [pc EXCEPT ![r] = to],
         to \in Loaded => from \in Loaded,
         UNCHANGED <<store, session, txnID, proxied>>
  PROVE  VerdictIsProxied' /\ StoredUndecided'
BY DEF UndecidedInv, TypeInv, TypeOK, VerdictIsProxied, StoredUndecided,
       Undecided

LEMMA UndecidedNext ==
  ASSUME UndecidedInv, [Next]_vars
  PROVE  UndecidedInv'
<1>1. TypeInv'
  BY TypedNext DEF UndecidedInv
<1> USE <1>1
<1>2. SUFFICES VerdictIsProxied' /\ StoredUndecided'
  BY DEF UndecidedInv
<1>3. ASSUME NEW r \in Requests, Step(r)
      PROVE  VerdictIsProxied' /\ StoredUndecided'
  <2>1. CASE Moves(r)
    BY <2>1, UndecidedMoves DEF Moves, Goto, shared, locals
  <2>2. CASE Validated(r)
    BY <2>2, UndecidedMoves DEF Validated, Goto, shared, Loaded, Handling
  <2>3. CASE Immediated(r)
    BY <2>3, UndecidedMoves DEF Immediated, Fail, Goto, shared, Loaded, Handling
  <2>4. CASE Store(r)
    <3>1. CASE Fail(r, "store") /\ UNCHANGED <<shared, locals, given>>
      BY <3>1, UndecidedMoves DEF Fail, Goto, shared, locals, Loaded, Handling
    <3>2. CASE /\ Goto(r, "store", "dialog")
               /\ session' = [session EXCEPT ![r][r] =
                                Serialized(oauth2[r], oauth2[r].webOrigin)]
               /\ origin' = [origin EXCEPT ![r] =
                               Serialized(oauth2[r], oauth2[r].webOrigin)]
               /\ txnID' = [txnID EXCEPT ![r] = r]
               /\ UNCHANGED <<shared, oauth2, proxied, incoming, known>>
      <4>1. txnID[r] = None
        BY <3>2 DEF UndecidedInv, TypeInv, Equipped, Opening, Goto
      <4>2. pc' = [pc EXCEPT ![r] = "dialog"] /\ UNCHANGED <<store, proxied>>
        BY <3>2 DEF Goto, shared
      <4> QED BY <3>2, <4>1, <4>2, UndecidedWrites, SerializedUndecided
    <3> QED BY <2>4, <3>1, <3>2 DEF Store
  <2>5. CASE Loads(r)
    BY <2>5, UndecidedLoads
  <2>6. CASE Settles(r)
    BY <2>6, UndecidedSettles
  <2>7. CASE Update(r)
    <3>1. CASE Fail(r, "update") /\ UNCHANGED <<shared, locals, given>>
      BY <3>1, UndecidedMoves DEF Fail, Goto, shared, locals, Loaded, Handling
    <3>2. CASE /\ Goto(r, "update", "dialog")
               /\ session' = [session EXCEPT ![r][txnID[r]] =
                                Serialized(oauth2[r], None)]
               /\ UNCHANGED <<shared, given, oauth2, txnID, proxied>>
      <4>1. txnID[r] \in Requests
        BY <3>2 DEF UndecidedInv, TypeInv, TypeOK, Equipped, Loaded, Goto
      <4>2. txnID' = [txnID EXCEPT ![r] = txnID[r]]
        BY <3>2 DEF UndecidedInv, TypeInv, TypeOK
      <4> QED BY <3>2, <4>1, <4>2, UndecidedWrites, SerializedUndecided
             DEF Goto, shared
    <3> QED BY <2>7, <3>1, <3>2 DEF Update
  <2>8. CASE Ends(r)
    BY <2>8, UndecidedEnds
  <2> QED
    BY <1>3, <2>1, <2>2, <2>3, <2>4, <2>5, <2>6, <2>7, <2>8, StepShape
       DEF UndecidedInv
<1>4. ASSUME NEW r \in Requests, NEW in \in Incoming, Receive(r, in)
      PROVE  VerdictIsProxied' /\ StoredUndecided'
  BY <1>4
     DEF UndecidedInv, TypeInv, TypeOK, VerdictIsProxied, StoredUndecided,
         Undecided, Receive, Goto, Loaded
<1>5. CASE Crash
  BY <1>5, EndpointAssumption
     DEF UndecidedInv, TypeInv, TypeOK, VerdictIsProxied, StoredUndecided,
         Crash, NoTxns, shared, Loaded, InFlight
<1>6. ASSUME NEW c \in Clients, Deauthorize(c)
      PROVE  VerdictIsProxied' /\ StoredUndecided'
  BY <1>6
     DEF UndecidedInv, VerdictIsProxied, StoredUndecided, Undecided, Deauthorize
<1>7. CASE UNCHANGED vars
  BY <1>7
     DEF UndecidedInv, VerdictIsProxied, StoredUndecided, Undecided, vars
<1> QED BY <1>3, <1>4, <1>5, <1>6, <1>7 DEF Next

\* A verdict is in a copy of the session only where res.end will remove it.
THEOREM UndecidedCorrect == Spec => []UndecidedInv
<1>1. Init => UndecidedInv
  BY TypedInit, EndpointAssumption
     DEF Init, UndecidedInv, VerdictIsProxied, StoredUndecided, NoTxns, Loaded
<1>2. UndecidedInv /\ [Next]_vars => UndecidedInv'
  BY UndecidedNext
<1> QED BY <1>1, <1>2, PTL DEF Spec

\* No saved session ever holds the verdict or the mark that decision and resume
\* write into it: whatever interleaves, fails or crashes, the response that
\* would save them removes the transaction.
THEOREM VerdictNeverStored == Spec => []StoredUndecided
<1>1. UndecidedInv => StoredUndecided
  BY DEF UndecidedInv
<1> QED BY <1>1, UndecidedCorrect, PTL
-----------------------------------------------------------------------------
(* Every copy of a transaction agrees with the one that was stored. *)

\* A transaction keeps its client, URI and request through load, verdict and
\* update, so a changed transaction comes from the same origin.
LEMMA OriginKept ==
  ASSUME NEW t, NEW a, NEW b, SameClientRequest(b, a), FromOrigin(a, t)
  PROVE  FromOrigin(b, t)
BY DEF FromOrigin, SameClientRequest

LEMMA OriginMoves ==
  ASSUME OriginInv, NEW r \in Requests, pc[r] \in Handling,
         NEW to \in Handling, pc' = [pc EXCEPT ![r] = to],
         UNCHANGED <<store, session, oauth2, txnID, answer, origin>>
  PROVE  AgreesWithOrigin' /\ RedirectsAsValidated'
<1>1. RedirectsAsValidated'
  BY DEF OriginInv, RedirectsAsValidated, Redirected, SameClientRequest
<1>2. AgreesWithOrigin'
  BY DEF OriginInv, TypeInv, TypeOK, AgreesWithOrigin, FromOrigin,
         SameClientRequest, Handling
<1> QED BY <1>1, <1>2

\* What authorization does to req.oauth2 before it has stored anything.
LEMMA OriginOpens ==
  ASSUME OriginInv, NEW r \in Requests, pc[r] \in Handling, txnID[r] = None,
         NEW to \in Handling, pc' = [pc EXCEPT ![r] = to],
         NEW txn, oauth2' = [oauth2 EXCEPT ![r] = txn],
         UNCHANGED <<store, session, txnID, answer, origin>>
  PROVE  AgreesWithOrigin' /\ RedirectsAsValidated'
<1>1. RedirectsAsValidated'
  BY DEF OriginInv, RedirectsAsValidated, Redirected, SameClientRequest
<1>2. AgreesWithOrigin'
  BY DEF OriginInv, TypeInv, TypeOK, AgreesWithOrigin, FromOrigin,
         SameClientRequest, Handling
<1> QED BY <1>1, <1>2

\* Once r has loaded t, or has it loaded, it writes to its copy of the session,
\* and maybe to req.oauth2, transactions that agree with the origin of t.
LEMMA OriginWrites ==
  ASSUME OriginInv, NEW r \in Requests, NEW t \in Requests,
         pc[r] \in Handling, txnID[r] \in {None, t},
         NEW to \in Handling, pc' = [pc EXCEPT ![r] = to],
         NEW txn, FromOrigin(txn, t), origin[r] # None => t = r,
         session' = [session EXCEPT ![r][t] = txn],
         txnID' = [txnID EXCEPT ![r] = t],
         \/ oauth2' = oauth2 /\ txnID[r] = t
         \/ oauth2' = [oauth2 EXCEPT ![r] = txn],
         UNCHANGED <<store, answer, origin>>
  PROVE  AgreesWithOrigin' /\ RedirectsAsValidated'
<1>1. RedirectsAsValidated'
  BY DEF OriginInv, RedirectsAsValidated, Redirected, SameClientRequest
<1>2. \A s \in Requests : store'[s] # None => FromOrigin(store'[s], s)
  BY DEF OriginInv, AgreesWithOrigin
<1>3. \A s, u \in Requests :
        session'[s][u] # None => FromOrigin(session'[s][u], u)
  BY DEF OriginInv, TypeInv, TypeOK, AgreesWithOrigin
<1>4. \A s \in Requests :
        txnID'[s] # None => FromOrigin(oauth2'[s], txnID'[s])
  BY DEF OriginInv, TypeInv, TypeOK, AgreesWithOrigin
<1>5. \A s \in Requests :
        origin[s] # None => pc'[s] \in {"done", "lost"} \/ txnID'[s] = s
  BY DEF OriginInv, TypeInv, TypeOK, AgreesWithOrigin, Handling
<1>6. \A s \in Requests :
        answer[s] # None => /\ pc'[s] = "done"
                            /\ answer[s].tid = s \/ origin[answer[s].tid] # None
  BY DEF OriginInv, TypeInv, TypeOK, AgreesWithOrigin, Handling
<1>7. AgreesWithOrigin'
  BY <1>2, <1>3, <1>4, <1>5, <1>6
     DEF AgreesWithOrigin, FromOrigin, SameClientRequest
<1> QED BY <1>1, <1>7

LEMMA OriginLoads ==
  ASSUME OriginInv, TypeInv', NEW r \in Requests, Loads(r)
  PROVE  AgreesWithOrigin' /\ RedirectsAsValidated'
<1> USE EndpointAssumption
<1>1. txnID[r] = None
  BY DEF Loads
<1>2. ASSUME NEW from \in {"load", "error"},
             NEW failed \in {"error", "errorRespond"},
             LoadInvalidated(r, from, failed)
      PROVE  AgreesWithOrigin' /\ RedirectsAsValidated'
  <2>1. RedirectsAsValidated'
    BY <1>2
       DEF OriginInv, RedirectsAsValidated, Redirected, SameClientRequest,
           LoadInvalidated, shared, given
  <2>2. AgreesWithOrigin'
    BY <1>2
       DEF OriginInv, TypeInv, TypeOK, Equipped, AgreesWithOrigin, FromOrigin,
           SameClientRequest, LoadInvalidated, Found, Goto, shared, given,
           Handling, Incoming
  <2> QED BY <2>1, <2>2
<1>3. ASSUME NEW from \in {"load", "error"},
             NEW loaded \in {"resume", "decide", "errorRespond"},
             LoadSucceeds(r, from, loaded)
      PROVE  AgreesWithOrigin' /\ RedirectsAsValidated'
  <2> DEFINE tid == incoming[r].tid
             txn == [session[r][tid] EXCEPT !.live = TRUE]
  <2>1. /\ pc[r] = from
        /\ tid \in Requests /\ session[r][tid] \in Txn /\ session[r][tid] # None
    BY <1>3
       DEF OriginInv, TypeInv, TypeOK, Equipped, Incoming, Handling,
           LoadSucceeds, Found, Goto
  <2>2. FromOrigin(session[r][tid], tid)
    BY <2>1 DEF OriginInv, AgreesWithOrigin
  <2>3. SameClientRequest(txn, session[r][tid])
    BY <2>1 DEF Txn, SameClientRequest
  <2>4. FromOrigin(txn, tid)
    BY <2>2, <2>3, OriginKept
  <2>5. origin[r] = None
    BY <1>1, <2>1 DEF OriginInv, AgreesWithOrigin
  <2>6. /\ session' = [session EXCEPT ![r][tid] = txn]
        /\ oauth2' = [oauth2 EXCEPT ![r] = txn]
        /\ pc' = [pc EXCEPT ![r] = loaded]
        /\ txnID' = [txnID EXCEPT ![r] = tid]
        /\ UNCHANGED <<store, answer, origin>>
    BY <1>3 DEF LoadSucceeds, SetLoaded, Goto, shared, given
  <2> HIDE DEF tid, txn
  <2>7. loaded \in Handling /\ pc[r] \in Handling /\ txnID[r] \in {None, tid}
    BY <1>1, <2>1 DEF Handling
  <2> QED BY <2>1, <2>4, <2>5, <2>6, <2>7, OriginWrites
<1> QED BY <1>2, <1>3 DEF Loads

LEMMA OriginSettles ==
  ASSUME OriginInv, NEW r \in Requests, Settles(r)
  PROVE  AgreesWithOrigin' /\ RedirectsAsValidated'
<1>1. PICK from \in {"resume", "decide"}, verdict \in {"allow", "deny"} :
        Goto(r, from, "respond") /\ Settled(r, verdict)
  BY DEF Settles
<1> DEFINE txn == [oauth2[r] EXCEPT !.res = verdict, !.endProxied = TRUE]
<1>2. oauth2[r] \in Txn /\ txnID[r] \in Requests /\ txnID[r] # None
  BY <1>1 DEF OriginInv, TypeInv, TypeOK, Equipped, Handling, Holding, Loaded, Goto
<1>3. FromOrigin(oauth2[r], txnID[r])
  BY <1>2 DEF OriginInv, AgreesWithOrigin
<1>4. SameClientRequest(txn, oauth2[r])
  BY <1>2 DEF Txn, SameClientRequest
<1>5. FromOrigin(txn, txnID[r])
  BY <1>3, <1>4, OriginKept
<1>6. /\ session' = [session EXCEPT ![r][txnID[r]] = txn]
      /\ oauth2' = [oauth2 EXCEPT ![r] = txn]
      /\ pc' = [pc EXCEPT ![r] = "respond"]
      /\ UNCHANGED <<store, txnID, answer, origin>>
  BY <1>1 DEF Settled, SetLoaded, Goto, shared, given
<1>7. txnID' = [txnID EXCEPT ![r] = txnID[r]]
  BY <1>6 DEF OriginInv, TypeInv, TypeOK
<1>8. "respond" \in Handling /\ pc[r] \in Handling
  BY <1>1 DEF Handling, Goto
<1>9. origin[r] # None => txnID[r] = r
  BY <1>1 DEF OriginInv, AgreesWithOrigin, Goto
<1> HIDE DEF txn
<1> QED BY <1>2, <1>5, <1>6, <1>7, <1>8, <1>9, OriginWrites

LEMMA OriginUpdates ==
  ASSUME OriginInv, NEW r \in Requests, Goto(r, "update", "dialog"),
         session' = [session EXCEPT ![r][txnID[r]] = Serialized(oauth2[r], None)],
         UNCHANGED <<shared, given, oauth2, txnID, proxied>>
  PROVE  AgreesWithOrigin' /\ RedirectsAsValidated'
<1> DEFINE txn == Serialized(oauth2[r], None)
<1>1. oauth2[r] \in Txn /\ txnID[r] \in Requests /\ txnID[r] # None
  BY DEF OriginInv, TypeInv, TypeOK, Equipped, Handling, Holding, Loaded, Goto
<1>2. FromOrigin(oauth2[r], txnID[r])
  BY <1>1 DEF OriginInv, AgreesWithOrigin
<1>3. SameClientRequest(txn, oauth2[r])
  BY <1>1 DEF SameClientRequest, Serialized
<1>4. FromOrigin(txn, txnID[r])
  BY <1>2, <1>3, OriginKept
<1>5. /\ session' = [session EXCEPT ![r][txnID[r]] = txn]
      /\ pc' = [pc EXCEPT ![r] = "dialog"]
      /\ UNCHANGED <<store, oauth2, answer, origin>>
  BY DEF Goto, shared, given
<1>6. txnID' = [txnID EXCEPT ![r] = txnID[r]]
  BY DEF OriginInv, TypeInv, TypeOK
<1>7. "dialog" \in Handling /\ pc[r] \in Handling
  BY DEF Handling, Goto
<1>8. origin[r] # None => txnID[r] = r
  BY DEF OriginInv, AgreesWithOrigin, Goto
<1> HIDE DEF txn
<1> QED BY <1>1, <1>4, <1>5, <1>6, <1>7, <1>8, OriginWrites

\* A new transaction is its own origin; nothing held or answered names it yet.
LEMMA OriginStores ==
  ASSUME OriginInv, NEW r \in Requests, Goto(r, "store", "dialog"),
         NEW txn \in Txn, SameClientRequest(oauth2[r], txn),
         session' = [session EXCEPT ![r][r] = txn],
         origin' = [origin EXCEPT ![r] = txn],
         txnID' = [txnID EXCEPT ![r] = r],
         UNCHANGED <<store, oauth2, answer>>
  PROVE  AgreesWithOrigin' /\ RedirectsAsValidated'
<1> USE EndpointAssumption
<1>1. pc[r] = "store" /\ txnID[r] = None /\ origin[r] = None
  BY DEF OriginInv, TypeInv, Equipped, AgreesWithOrigin, Opening, Goto
<1>2. origin'[r] = txn /\ \A t \in Requests \ {r} : origin'[t] = origin[t]
  BY DEF OriginInv, TypeInv, TypeOK
<1>3. \A s \in Requests : answer[s] # None => answer[s].tid # r
  BY <1>1 DEF OriginInv, AgreesWithOrigin
<1>4. \A s \in Requests : answer[s] # None => answer[s].tid \in Requests
  BY DEF OriginInv, TypeInv, TypeOK, Answer
<1>5. RedirectsAsValidated'
  BY <1>2, <1>3, <1>4
     DEF OriginInv, RedirectsAsValidated, Redirected, SameClientRequest
<1>6. \A t \in Requests : store'[t] # None =>
        origin'[t] # None /\ SameClientRequest(store'[t], origin'[t])
  BY <1>1, <1>2 DEF OriginInv, AgreesWithOrigin, FromOrigin
<1>7. \A s, t \in Requests : session'[s][t] # None =>
        origin'[t] # None /\ SameClientRequest(session'[s][t], origin'[t])
  BY <1>1, <1>2
     DEF OriginInv, TypeInv, TypeOK, AgreesWithOrigin, FromOrigin,
         SameClientRequest
<1>8. \A s \in Requests : txnID'[s] # None =>
        /\ origin'[txnID'[s]] # None
        /\ SameClientRequest(oauth2'[s], origin'[txnID'[s]])
  BY <1>1, <1>2
     DEF OriginInv, TypeInv, TypeOK, AgreesWithOrigin, FromOrigin
<1>9. \A s \in Requests :
        origin'[s] # None => pc'[s] \in {"done", "lost"} \/ txnID'[s] = s
  BY <1>1, <1>2 DEF OriginInv, TypeInv, TypeOK, AgreesWithOrigin, Goto
<1>10. \A s \in Requests :
        answer[s] # None =>
          /\ pc'[s] = "done"
          /\ answer[s].tid = s \/ origin'[answer[s].tid] # None
  BY <1>1, <1>2, <1>3, <1>4
     DEF OriginInv, TypeInv, TypeOK, AgreesWithOrigin, Goto
<1>11. AgreesWithOrigin'
  BY <1>6, <1>7, <1>8, <1>9, <1>10
     DEF AgreesWithOrigin, FromOrigin, SameClientRequest
<1> QED BY <1>5, <1>11

LEMMA OriginEnds ==
  ASSUME OriginInv, NEW r \in Requests, Ends(r)
  PROVE  AgreesWithOrigin' /\ RedirectsAsValidated'
<1> USE EndpointAssumption
<1>1. PICK from \in Handling, removes \in BOOLEAN, ans \in Answer :
        /\ Finish(r, from, removes, ans)
        /\ ans.tid = TidOf(r)
        /\ ans.kind \in Redirects
             => oauth2[r] # None /\ ans = Redirect(r, ans.kind)
  BY DEF Ends
<1>2. /\ pc[r] \in Handling /\ pc' = [pc EXCEPT ![r] = "done"]
      /\ answer' = [answer EXCEPT ![r] = ans] /\ origin' = origin
      /\ session' = [session EXCEPT ![r] = NoTxns]
      /\ txnID' = [txnID EXCEPT ![r] = None]
      /\ oauth2' = [oauth2 EXCEPT ![r] = None]
  BY <1>1 DEF Finish, Release, Goto
<1>3. \A t \in Requests : store'[t] # None => store'[t] = session[r][t]
  BY <1>1 DEF Finish
<1>4. ans.kind \in Redirects /\ origin[ans.tid] # None
        => SameClientRequest(ans, origin[ans.tid])
  <2> SUFFICES ASSUME ans.kind \in Redirects, origin[ans.tid] # None
               PROVE  SameClientRequest(ans, origin[ans.tid])
    OBVIOUS
  <2>1. txnID[r] # None
    BY <1>1, <1>2 DEF OriginInv, AgreesWithOrigin, TidOf, Handling
  <2>2. FromOrigin(oauth2[r], txnID[r])
    BY <2>1 DEF OriginInv, AgreesWithOrigin
  <2>3. SameClientRequest(ans, oauth2[r])
    BY <1>1 DEF Redirect, SameClientRequest
  <2> QED BY <1>1, <2>1, <2>2, <2>3 DEF TidOf, FromOrigin, SameClientRequest
<1>5. RedirectsAsValidated'
  BY <1>2, <1>4
     DEF OriginInv, TypeInv, TypeOK, RedirectsAsValidated, Redirected,
         SameClientRequest
<1>6. \A t \in Requests : store'[t] # None => FromOrigin(store'[t], t)
  BY <1>3 DEF OriginInv, AgreesWithOrigin
<1>7. \A s, t \in Requests :
        session'[s][t] # None => FromOrigin(session'[s][t], t)
  BY <1>2 DEF OriginInv, TypeInv, TypeOK, AgreesWithOrigin, NoTxns
<1>8. \A s \in Requests :
        txnID'[s] # None => FromOrigin(oauth2'[s], txnID'[s])
  BY <1>2 DEF OriginInv, TypeInv, TypeOK, AgreesWithOrigin
<1>9. \A s \in Requests :
        origin[s] # None => pc'[s] \in {"done", "lost"} \/ txnID'[s] = s
  BY <1>2 DEF OriginInv, TypeInv, TypeOK, AgreesWithOrigin
<1>10. ans.tid = r \/ origin[ans.tid] # None
  BY <1>1 DEF TidOf, OriginInv, AgreesWithOrigin, FromOrigin
<1>11. \A s \in Requests :
        answer'[s] # None =>
          /\ pc'[s] = "done"
          /\ answer'[s].tid = s \/ origin[answer'[s].tid] # None
  BY <1>2, <1>10 DEF OriginInv, TypeInv, TypeOK, AgreesWithOrigin
<1>12. AgreesWithOrigin'
  BY <1>2, <1>6, <1>7, <1>8, <1>9, <1>11
     DEF AgreesWithOrigin, FromOrigin, SameClientRequest
<1> QED BY <1>5, <1>12

LEMMA OriginNext ==
  ASSUME OriginInv, [Next]_vars
  PROVE  OriginInv'
<1> USE EndpointAssumption
<1>1. TypeInv'
  BY TypedNext DEF OriginInv
<1>2. SUFFICES AgreesWithOrigin' /\ RedirectsAsValidated'
  BY <1>1 DEF OriginInv
<1>3. ASSUME NEW r \in Requests, Step(r)
      PROVE  AgreesWithOrigin' /\ RedirectsAsValidated'
  <2> DEFINE Fails(from) ==
               Fail(r, from) /\ UNCHANGED <<shared, locals, given>>
  <2>a. ASSUME NEW from \in Handling, Fails(from)
        PROVE  AgreesWithOrigin' /\ RedirectsAsValidated'
    BY <2>a, OriginMoves DEF Fail, Goto, shared, locals, given, Handling
  <2>1. CASE Moves(r)
    BY <2>1, OriginMoves DEF Moves, Goto, shared, locals, given
  <2>2. CASE Validated(r)
    <3>1. PICK to \in {"error", "immediate"} :
            /\ Goto(r, "validate", to)
            /\ \E txn : oauth2' = [oauth2 EXCEPT ![r] = txn]
            /\ UNCHANGED <<shared, given, session, txnID, proxied>>
      BY <2>2 DEF Validated
    <3>2. pc[r] \in Handling /\ to \in Handling /\ txnID[r] = None
      BY <3>1 DEF OriginInv, TypeInv, Equipped, Opening, Handling, Goto
    <3> QED BY <3>1, <3>2, OriginOpens DEF Goto, shared, given
  <2>3. CASE Immediated(r)
    <3>1. CASE \E to \in {"error", "store"} :
                 Goto(r, "immediate", to) /\ UNCHANGED <<shared, locals, given>>
      BY <3>1, OriginMoves DEF Goto, shared, locals, given, Handling
    <3>2. CASE /\ Goto(r, "immediate", "respond")
               /\ oauth2' = [oauth2 EXCEPT ![r] = [@ EXCEPT !.res = "allow"]]
               /\ UNCHANGED <<shared, given, session, txnID, proxied>>
      <4>1. /\ pc[r] \in Handling /\ "respond" \in Handling
            /\ txnID[r] = None
        BY <3>2 DEF OriginInv, TypeInv, Equipped, Opening, Handling, Goto
      <4> QED BY <3>2, <4>1, OriginOpens DEF Goto, shared, given
    <3> QED BY <2>3, <3>1, <3>2 DEF Immediated, Fail, locals
  <2>4. CASE Store(r)
    <3> DEFINE txn == Serialized(oauth2[r], oauth2[r].webOrigin)
    <3>1. CASE /\ Goto(r, "store", "dialog")
               /\ session' = [session EXCEPT ![r][r] = txn]
               /\ origin' = [origin EXCEPT ![r] = txn]
               /\ txnID' = [txnID EXCEPT ![r] = r]
               /\ UNCHANGED <<shared, oauth2, proxied, incoming, known>>
      <4>1. oauth2[r] \in Txn
        BY <3>1 DEF OriginInv, TypeInv, TypeOK, Equipped, Handling, Holding, Goto
      <4>2. txn \in Txn
        BY <4>1, SerializedTyped DEF Txn
      <4>3. SameClientRequest(oauth2[r], txn)
        BY DEF Serialized, SameClientRequest
      <4>4. UNCHANGED <<store, oauth2, answer>>
        BY <3>1 DEF shared
      <4> HIDE DEF txn
      <4> QED BY <3>1, <4>2, <4>3, <4>4, OriginStores
    <3>2. CASE Fails("store")
      BY <3>2, <2>a DEF Handling
    <3> QED BY <2>4, <3>1, <3>2 DEF Store
  <2>5. CASE Loads(r)
    BY <1>1, <2>5, OriginLoads
  <2>6. CASE Settles(r)
    BY <2>6, OriginSettles
  <2>7. CASE Update(r)
    <3>1. CASE Fails("update")
      BY <3>1, <2>a DEF Handling
    <3> QED BY <2>7, <3>1, OriginUpdates DEF Update
  <2>8. CASE Ends(r)
    BY <2>8, OriginEnds
  <2> QED
    BY <1>3, <2>1, <2>2, <2>3, <2>4, <2>5, <2>6, <2>7, <2>8, StepShape
       DEF OriginInv
<1>4. ASSUME NEW r \in Requests, NEW in \in Incoming, Receive(r, in)
      PROVE  AgreesWithOrigin' /\ RedirectsAsValidated'
  <2>1. RedirectsAsValidated'
    BY <1>4
       DEF OriginInv, RedirectsAsValidated, Redirected, SameClientRequest,
           Receive
  <2>2. AgreesWithOrigin'
    BY <1>4
       DEF OriginInv, TypeInv, TypeOK, Equipped, AgreesWithOrigin, FromOrigin,
           SameClientRequest, Receive, Goto
  <2> QED BY <2>1, <2>2
<1>5. CASE Crash
  <2>1. RedirectsAsValidated'
    BY <1>5
       DEF OriginInv, RedirectsAsValidated, Redirected, SameClientRequest,
           Crash, shared
  <2>2. AgreesWithOrigin'
    BY <1>5
       DEF OriginInv, TypeInv, TypeOK, Equipped, AgreesWithOrigin, FromOrigin,
           SameClientRequest, Crash, NoTxns, InFlight, Handling, shared
  <2> QED BY <2>1, <2>2
<1>6. ASSUME NEW c \in Clients, Deauthorize(c)
      PROVE  AgreesWithOrigin' /\ RedirectsAsValidated'
  BY <1>6
     DEF OriginInv, AgreesWithOrigin, FromOrigin, SameClientRequest,
         RedirectsAsValidated, Redirected, Deauthorize
<1>7. CASE UNCHANGED vars
  BY <1>7
     DEF OriginInv, AgreesWithOrigin, FromOrigin, SameClientRequest,
         RedirectsAsValidated, Redirected, vars
<1> QED BY <1>3, <1>4, <1>5, <1>6, <1>7 DEF Next

\* Whatever holds a transaction agrees with what was stored first.
THEOREM OriginCorrect == Spec => []OriginInv
<1>1. Init => OriginInv
  BY TypedInit, EndpointAssumption
     DEF Init, OriginInv, AgreesWithOrigin, RedirectsAsValidated, Redirected,
         NoTxns
<1>2. OriginInv /\ [Next]_vars => OriginInv'
  BY OriginNext
<1> QED BY <1>1, <1>2, PTL DEF Spec

\* A redirect that ends a stored transaction goes to the URI validate returned
\* when it was opened, for the same client and request, whatever lies between.
THEOREM RedirectsStayAsValidated == Spec => []RedirectsAsValidated
<1>1. OriginInv => RedirectsAsValidated
  BY DEF OriginInv
<1> QED BY <1>1, OriginCorrect, PTL
=============================================================================
