---------------------- MODULE EndpointRefinementProofs ----------------------
(***************************************************************************)
(* Serving one request at a time, the endpoint answers each transaction at *)
(* most once, and implements TransactionLifecycle: its concurrency is what *)
(* breaks that promise.                                                    *)
(***************************************************************************)
EXTENDS EndpointRefinement, EndpointAnswerProofs, FiniteSetTheorems

-----------------------------------------------------------------------------
LEMMA SerialInit == Init => SerialInv
BY EndpointAssumption
   DEF Init, SerialInv, Alone, InStep, InHand, Concluded, InFlight, Handling,
       Redirected, NoTxns

\* The request that is being served goes on, with a transaction that is saved or
\* that it has opened in its hands.
LEMMA SerialWrites ==
  ASSUME TypeInv, SerialInv, NEW r \in Requests, pc[r] \in Handling,
         NEW to \in Handling, pc' = [pc EXCEPT ![r] = to],
         NEW o, oauth2' = [oauth2 EXCEPT ![r] = o],
         NEW t, txnID' = [txnID EXCEPT ![r] = t],
         UNCHANGED <<mount, store, incoming, answer>>,
         to \in {"validate", "load", "parse"} => o = None,
         to = "errorRespond" => mount = "authorizationError",
         \A u \in Requests : \/ session'[r][u] = None <=> store[u] = None
                             \/ Opened(r, u)' \/ Invalidated(r, u)',
         t # None => /\ session'[r][t] # None
                     /\ t = r \/ store[t] # None
  PROVE  SerialInv'
<1> USE EndpointAssumption DEF SerialInv, TypeInv, TypeOK
<1>1. pc'[r] = to /\ oauth2'[r] = o /\ txnID'[r] = t
  OBVIOUS
<1>2. \A s \in Requests \ {r} :
        pc'[s] = pc[s] /\ oauth2'[s] = oauth2[s] /\ txnID'[s] = txnID[s]
  OBVIOUS
<1>3. InFlight' = InFlight
  BY <1>1, <1>2 DEF InFlight
<1>4. Alone'
  BY <1>3 DEF Alone
<1>5. \A s \in Requests \ {r} : txnID[s] = None
  BY DEF Alone, InHand, InFlight
<1>8. InStep'
  BY <1>3, <1>4 DEF InStep, Alone, InFlight
<1>6. InHand'
  BY <1>1, <1>2, <1>5 DEF InHand, Handling
<1>7. Concluded'
  <2>1. \A s \in Requests : pc[s] = "done" => pc'[s] = "done"
    BY <1>2 DEF Handling
  <2>2. \A q \in Requests : answer[q] # None => answer[q].tid \in Requests
    BY DEF Answer
  <2> QED BY <2>1, <2>2 DEF Concluded, Redirected
<1> QED BY <1>4, <1>6, <1>7, <1>8

\* The end of a response: one transaction at most is saved that was not, or is no
\* longer, and one that was answered is not saved.
LEMMA SerialEnds ==
  ASSUME OriginInv, Arranged, SerialInv, NEW r \in Requests, Ends(r)
  PROVE  SerialInv'
<1> USE EndpointAssumption DEF OriginInv, TypeInv, TypeOK
<1>1. PICK from \in Handling, removes \in BOOLEAN, ans \in Answer :
        /\ Finish(r, from, removes, ans)
        /\ proxied[r] => removes
        /\ ans.tid = TidOf(r)
        /\ ans.kind \in Redirects
             => oauth2[r] # None /\ ans = Redirect(r, ans.kind)
        /\ Removing(r, removes, ans.kind)
  BY DEF Ends
<1>2. /\ pc[r] \in Handling /\ pc' = [pc EXCEPT ![r] = "done"]
      /\ answer' = [answer EXCEPT ![r] = ans]
      /\ oauth2' = [oauth2 EXCEPT ![r] = None]
      /\ txnID' = [txnID EXCEPT ![r] = None]
      /\ store' = [t \in Requests |->
                     IF removes /\ t = txnID[r] THEN None ELSE session[r][t]]
      /\ UNCHANGED mount
  BY <1>1 DEF Finish, Release, Goto
<1>3. InFlight' = {}
  BY <1>2 DEF InFlight, SerialInv, Alone, Handling
<1>4. Alone' /\ InStep'
  BY <1>3 DEF Alone, InStep
<1>5. \A s \in Requests : txnID'[s] = None
  BY <1>2 DEF SerialInv, Alone, InHand, InFlight
<1>6. InHand'
  BY <1>2, <1>5 DEF SerialInv, InHand, Handling
<1>7. \A t \in Requests : store'[t] # None => pc'[t] = "done"
  BY <1>2 DEF SerialInv, InStep, Concluded, InFlight, Opened, Invalidated
<1>8. pc'[ans.tid] = "done"
  BY <1>1, <1>2 DEF TidOf, SerialInv, InHand, Concluded
<1>9. \A u \in Requests : u # r /\ store[u] = None => store'[u] = None
  BY <1>2 DEF SerialInv, InStep, InFlight, Opened, Invalidated
<1>10. ASSUME ans.kind \in Redirects, ans.kind = "error" => mount # "indirect"
       PROVE  store'[ans.tid] = None
  <2>1. CASE txnID[r] = None
    <3>1. store[r] = None /\ txnID[r] # r
      BY <1>2, <2>1 DEF SerialInv, Concluded, Handling
    <3>2. session[r][r] = None
      BY <1>2, <3>1 DEF SerialInv, InStep, InFlight, Opened, Invalidated
    <3> QED BY <1>1, <1>2, <2>1, <3>2 DEF TidOf
  <2>2. CASE txnID[r] # None
    <3>1. removes
      BY <1>1, <1>10, <2>2 DEF Removing, Arranged, SerialInv, InHand, Redirects
    <3> QED BY <1>1, <1>2, <2>2, <3>1 DEF TidOf
  <2> QED BY <2>1, <2>2
<1>11. Concluded'
  <2>1. \A q \in Requests \ {r} : answer'[q] = answer[q]
    BY <1>2
  <2>2. answer'[r] = ans
    BY <1>2
  <2>3. \A q \in Requests : answer[q] # None =>
          answer[q].tid \in Requests /\ pc[answer[q].tid] = "done"
    BY DEF Answer, SerialInv, Concluded
  <2>4. \A q \in Requests : answer'[q] # None => pc'[answer'[q].tid] = "done"
    BY <1>2, <1>8, <2>1, <2>2, <2>3
  <2>5. \A q \in Requests :
          /\ Redirected(q)'
          /\ answer'[q].kind = "error" => mount' # "indirect"
          => store'[answer'[q].tid] = None
    BY <1>2, <1>9, <1>10, <2>1, <2>2, <2>3
       DEF Redirected, SerialInv, Concluded, Handling
  <2> QED BY <1>7, <2>4, <2>5 DEF Concluded
<1> QED BY <1>4, <1>6, <1>11 DEF SerialInv

LEMMA SerialLoads ==
  ASSUME TypeInv, SerialInv, NEW r \in Requests, Loads(r)
  PROVE  SerialInv'
<1> USE EndpointAssumption DEF TypeInv, TypeOK
<1> DEFINE tid == incoming[r].tid
           txn == [session[r][tid] EXCEPT !.live = TRUE]
<1>1. /\ txnID[r] = None /\ oauth2[r] = None /\ pc[r] \in {"load", "error"}
      /\ pc[r] \in Handling /\ tid \in Requests /\ session[r][tid] # None
  BY DEF Loads, LoadInvalidated, LoadSucceeds, Found, Goto, SerialInv, InHand,
         Equipped, Handling, Incoming
<1>2. \A t \in Requests : session[r][t] = None <=> store[t] = None
  BY <1>1 DEF SerialInv, InStep, Opened, Invalidated, InFlight
<1>3. ASSUME NEW from \in {"load", "error"},
             NEW failed \in {"error", "errorRespond"},
             LoadInvalidated(r, from, failed)
      PROVE  SerialInv'
  <2>1. /\ session' = [session EXCEPT ![r][tid] = None]
        /\ pc' = [pc EXCEPT ![r] = failed]
        /\ oauth2' = [oauth2 EXCEPT ![r] = None]
        /\ txnID' = [txnID EXCEPT ![r] = None]
        /\ UNCHANGED <<mount, store, incoming, answer>>
    BY <1>1, <1>3 DEF LoadInvalidated, Goto, shared, given
  <2>2. \A u \in Requests : \/ session'[r][u] = None <=> store[u] = None
                            \/ Opened(r, u)' \/ Invalidated(r, u)'
    BY <1>2, <2>1 DEF Invalidated
  <2>3. failed = "errorRespond" => mount = "authorizationError"
    BY <2>1 DEF Loads
  <2>4. failed \in Handling /\ failed \notin {"parse", "validate", "load"}
    BY DEF Handling
  <2> HIDE DEF tid, TypeInv
  <2> QED BY <1>1, <2>1, <2>2, <2>3, <2>4, SerialWrites
<1>4. ASSUME NEW from \in {"load", "error"},
             NEW loaded \in {"resume", "decide", "errorRespond"},
             LoadSucceeds(r, from, loaded)
      PROVE  SerialInv'
  <2>1. /\ session' = [session EXCEPT ![r][tid] = txn]
        /\ pc' = [pc EXCEPT ![r] = loaded]
        /\ oauth2' = [oauth2 EXCEPT ![r] = txn]
        /\ txnID' = [txnID EXCEPT ![r] = tid]
        /\ UNCHANGED <<mount, store, incoming, answer>>
    BY <1>1, <1>4 DEF LoadSucceeds, SetLoaded, Goto, shared, given
  <2>2. txn \in Txn /\ txn # None
    <3>1. session[r][tid] \in Txn
      BY <1>1
    <3>2. txn \in Txn
      BY <3>1 DEF Txn
    <3> QED BY <3>2
  <2> HIDE DEF txn, tid
  <2>3. \A u \in Requests : session'[r][u] = None <=> store[u] = None
    BY <1>1, <1>2, <2>1, <2>2
  <2>4. loaded = "errorRespond" => mount = "authorizationError"
    BY <2>1 DEF Loads
  <2>5. loaded \in Handling /\ loaded \notin {"parse", "validate", "load"}
    BY DEF Handling
  <2>6. session'[r][tid] # None /\ store[tid] # None
    BY <1>1, <1>2, <2>3
  <2> HIDE DEF TypeInv
  <2> QED BY <1>1, <2>1, <2>3, <2>4, <2>5, <2>6, SerialWrites
<1> QED BY <1>3, <1>4 DEF Loads

LEMMA SerialStep ==
  ASSUME OriginInv, Arranged, SerialInv, NEW r \in Requests, Step(r)
  PROVE  SerialInv'
<1> USE EndpointAssumption DEF OriginInv
<1>1. /\ pc \in [Requests -> Handling \cup {"idle", "done", "lost"}]
      /\ oauth2 = [oauth2 EXCEPT ![r] = oauth2[r]]
      /\ txnID = [txnID EXCEPT ![r] = txnID[r]]
      /\ txnID[r] # None => /\ session[r][txnID[r]] # None
                            /\ txnID[r] = r \/ store[txnID[r]] # None
  BY DEF TypeInv, TypeOK, SerialInv, InHand
<1>2. ASSUME NEW from \in Handling, NEW to \in Handling, Goto(r, from, to),
             UNCHANGED <<mount, store, session, txnID, incoming, answer>>,
             NEW o, oauth2' = [oauth2 EXCEPT ![r] = o],
             to \in {"parse", "validate", "load"} => o = None,
             to = "errorRespond" => mount = "authorizationError",
             \A t \in Requests : Invalidated(r, t) => Invalidated(r, t)'
      PROVE  SerialInv'
  <2>1. \A t \in Requests : \/ session'[r][t] = None <=> store[t] = None
                            \/ Opened(r, t)' \/ Invalidated(r, t)'
    BY <1>2 DEF Goto, SerialInv, InStep, InFlight, Opened
  <2> QED BY <1>1, <1>2, <2>1, SerialWrites DEF Goto
<1>3. CASE Moves(r)
  <2>1. PICK from, to \in Handling :
          /\ Goto(r, from, to) /\ UNCHANGED <<shared, locals, given>>
          /\ to \in Opening \cup {"load"} => from = "parse"
          /\ from \in {"error", "errorRespond"} => to = "errorRespond"
          /\ to = "errorRespond" => mount = "authorizationError"
    BY <1>3 DEF Moves
  <2>2. to \in {"parse", "validate", "load"} => oauth2[r] = None
    BY <2>1 DEF Goto, Opening, SerialInv, InHand
  <2>3. \A t \in Requests : Invalidated(r, t) => Invalidated(r, t)'
    BY <1>1, <2>1 DEF Goto, Invalidated, locals, given
  <2> QED BY <1>1, <1>2, <2>1, <2>2, <2>3 DEF shared, locals, given
<1>4. CASE Validated(r)
  <2>1. PICK to \in {"error", "immediate"} : Goto(r, "validate", to)
    BY <1>4 DEF Validated
  <2>2. UNCHANGED <<mount, store, session, txnID, incoming, answer>>
    BY <1>4 DEF Validated, shared, given
  <2>3. \A t \in Requests : ~Invalidated(r, t)
    BY <2>1 DEF Goto, Invalidated
  <2>4. oauth2' = [oauth2 EXCEPT ![r] = oauth2'[r]]
    <3>1. oauth2 \in [Requests -> Txn \cup {None}]
      BY DEF TypeInv, TypeOK
    <3> QED BY <1>4, <3>1 DEF Validated
  <2> QED BY <1>2, <2>1, <2>2, <2>3, <2>4 DEF Handling
<1>5. CASE Immediated(r)
  <2>1. PICK to, o :
          /\ to \in {"error", "respond", "store"}
          /\ Goto(r, "immediate", to)
          /\ oauth2' = [oauth2 EXCEPT ![r] = o]
    BY <1>1, <1>5 DEF Immediated, Fail
  <2>2. UNCHANGED <<mount, store, session, txnID, incoming, answer>>
    BY <1>5 DEF Immediated, shared, given
  <2>3. \A t \in Requests : ~Invalidated(r, t)
    BY <2>1 DEF Goto, Invalidated
  <2> QED BY <1>2, <2>1, <2>2, <2>3 DEF Handling
<1>6. CASE Store(r)
  <2>1. CASE Fail(r, "store") /\ UNCHANGED <<shared, locals, given>>
    <3>1. \A t \in Requests : ~Invalidated(r, t)
      BY <2>1 DEF Fail, Goto, Invalidated
    <3> QED BY <1>1, <1>2, <2>1, <3>1 DEF Fail, Handling, shared, locals, given
  <2>2. CASE /\ Goto(r, "store", "dialog")
             /\ session' = [session EXCEPT ![r][r] =
                              Serialized(oauth2[r], oauth2[r].webOrigin)]
             /\ txnID' = [txnID EXCEPT ![r] = r]
             /\ UNCHANGED <<shared, oauth2, proxied, incoming, known>>
    <3>1. oauth2[r] \in Txn /\ txnID[r] = None
      BY <2>2 DEF TypeInv, TypeOK, Equipped, Goto, Handling, Holding, Opening
    <3>2. Serialized(oauth2[r], oauth2[r].webOrigin) # None
      BY <3>1, SerializedTyped DEF Txn
    <3>3. \A t \in Requests : session[r][t] = None <=> store[t] = None
      BY <2>2, <3>1 DEF SerialInv, InStep, Opened, Invalidated, InFlight, Goto,
                        Handling
    <3>4. \A t \in Requests : \/ session'[r][t] = None <=> store[t] = None
                              \/ Opened(r, t)'
      BY <2>2, <3>3 DEF Opened, TypeInv, TypeOK
    <3>5. session'[r][r] # None
      BY <2>2, <3>2 DEF TypeInv, TypeOK
    <3> QED BY <1>1, <2>2, <3>4, <3>5, SerialWrites DEF Goto, Handling, shared
  <2> QED BY <1>6, <2>1, <2>2 DEF Store
<1>7. CASE Loads(r)
  BY <1>7, SerialLoads
<1>8. ASSUME NEW from \in Loaded, NEW to \in {"respond", "dialog"},
             Goto(r, from, to), NEW txn, txn # None, NEW o,
             session' = [session EXCEPT ![r][txnID[r]] = txn],
             oauth2' = [oauth2 EXCEPT ![r] = o],
             UNCHANGED <<mount, store, txnID, incoming, answer>>
      PROVE  SerialInv'
  <2>1. pc[r] \in Handling /\ oauth2[r] # None /\ txnID[r] \in Requests
    BY <1>8 DEF TypeInv, TypeOK, Equipped, Goto, Handling, Holding, Loaded
  <2>2. \A t \in Requests : \/ session[r][t] = None <=> store[t] = None
                            \/ Opened(r, t)
    BY <2>1 DEF SerialInv, InStep, InFlight, Invalidated
  <2>3. session'[r][txnID[r]] # None
    BY <1>8, <2>1 DEF TypeInv, TypeOK
  <2>4. \A t \in Requests : \/ session'[r][t] = None <=> store[t] = None
                            \/ Opened(r, t)'
    BY <1>1, <1>8, <2>1, <2>2 DEF Opened, TypeInv, TypeOK
  <2> QED BY <1>1, <1>8, <2>1, <2>3, <2>4, SerialWrites DEF Goto, Handling
<1>9. CASE Settles(r)
  <2>1. PICK from \in {"resume", "decide"}, verdict \in {"allow", "deny"} :
          Goto(r, from, "respond") /\ Settled(r, verdict)
    BY <1>9 DEF Settles
  <2> DEFINE txn == [oauth2[r] EXCEPT !.res = verdict, !.endProxied = TRUE]
  <2>2. /\ session' = [session EXCEPT ![r][txnID[r]] = txn]
        /\ oauth2' = [oauth2 EXCEPT ![r] = txn]
        /\ UNCHANGED <<mount, store, txnID, incoming, answer>>
    BY <2>1 DEF Settled, SetLoaded, shared, given
  <2>3. txn # None
    <3>1. oauth2[r] \in Txn
      BY <2>1 DEF TypeInv, TypeOK, Equipped, Goto, Handling, Holding
    <3>2. txn \in Txn
      BY <3>1 DEF Txn
    <3> QED BY <3>2
  <2> HIDE DEF txn
  <2> QED BY <1>8, <2>1, <2>2, <2>3 DEF Loaded, Handling
<1>10. CASE Update(r)
  <2>1. CASE Fail(r, "update") /\ UNCHANGED <<shared, locals, given>>
    <3>1. \A t \in Requests : ~Invalidated(r, t)
      BY <2>1 DEF Fail, Goto, Invalidated
    <3> QED BY <1>1, <1>2, <2>1, <3>1 DEF Fail, Handling, shared, locals, given
  <2>2. CASE /\ Goto(r, "update", "dialog")
             /\ session' = [session EXCEPT ![r][txnID[r]] =
                              Serialized(oauth2[r], None)]
             /\ UNCHANGED <<shared, given, oauth2, txnID, proxied>>
    <3>1. oauth2[r] \in Txn
      BY <2>2 DEF TypeInv, TypeOK, Equipped, Goto, Handling, Holding
    <3>2. Serialized(oauth2[r], None) # None
      BY <3>1, SerializedTyped
    <3> QED BY <1>1, <1>8, <2>2, <3>2 DEF Loaded, shared, given
  <2> QED BY <1>10, <2>1, <2>2 DEF Update
<1>11. CASE Ends(r)
  BY <1>11, SerialEnds
<1> QED
  BY <1>3, <1>4, <1>5, <1>6, <1>7, <1>9, <1>10, <1>11, StepShape

\* A request is only received when none is in flight.
LEMMA SerialReceives ==
  ASSUME MaxInFlight = 1, TypeInv, SerialInv, NEW r \in Requests,
         NEW in \in Incoming, Receive(r, in)
  PROVE  SerialInv'
<1> USE EndpointAssumption DEF TypeInv, TypeOK
<1>1. InFlight = {}
  <2>1. ASSUME NEW q \in InFlight PROVE FALSE
    <3>1. InFlight = {q}
      BY <2>1 DEF SerialInv, Alone
    <3>2. Cardinality(InFlight) = 1
      BY <3>1, FS_Singleton
    <3> QED BY <3>2 DEF Receive
  <2> QED BY <2>1
<1>2. /\ pc[r] = "idle" /\ session'[r] = store
      /\ \E to \in {"parse", "load"} : pc' = [pc EXCEPT ![r] = to]
      /\ UNCHANGED <<mount, store, oauth2, txnID, answer>>
  BY DEF Receive, Goto
<1>3. InFlight' = {r} /\ r \notin InFlight
  BY <1>1, <1>2 DEF InFlight, Handling
<1>4. \A s \in Requests : txnID[s] = None
  BY <1>1 DEF SerialInv, InHand, InFlight
<1>5. Alone' /\ InStep'
  BY <1>2, <1>3 DEF Alone, InStep
<1>6. InHand'
  BY <1>2, <1>4 DEF SerialInv, InHand
<1>7. Concluded'
  <2>1. \A q \in Requests : answer[q] # None => answer[q].tid \in Requests
    BY DEF Answer
  <2> QED BY <1>2, <2>1 DEF SerialInv, Concluded, Redirected
<1> QED BY <1>5, <1>6, <1>7 DEF SerialInv

LEMMA SerialNext ==
  ASSUME MaxInFlight = 1, OriginInv, Arranged, SerialInv, [Next]_vars
  PROVE  SerialInv'
<1> USE DEF OriginInv
<1>1. ASSUME NEW r \in Requests, NEW in \in Incoming, Receive(r, in)
      PROVE  SerialInv'
  BY <1>1, SerialReceives
<1>2. CASE Crash
  <2>1. /\ pc' = [r \in Requests |-> IF r \in InFlight THEN "lost" ELSE pc[r]]
        /\ oauth2' = [r \in Requests |-> None]
        /\ txnID' = [r \in Requests |-> None]
        /\ UNCHANGED <<mount, store, answer>>
    BY <1>2 DEF Crash, shared
  <2>2. InFlight' = {}
    BY <2>1 DEF InFlight, Handling
  <2>3. Alone' /\ InStep'
    BY <2>2 DEF Alone, InStep
  <2>4. InHand'
    BY <2>1, <2>2 DEF InHand, InFlight, Handling
  <2>5. Concluded'
    <3>1. \A q \in Requests : answer[q] # None => answer[q].tid \in Requests
      BY DEF TypeInv, TypeOK, Answer
    <3>2. \A q \in Requests : pc[q] = "done" => pc'[q] = "done"
      BY <2>1 DEF InFlight, Handling
    <3> QED BY <2>1, <3>1, <3>2 DEF SerialInv, Concluded, Redirected
  <2> QED BY <2>3, <2>4, <2>5 DEF SerialInv
<1>3. CASE UNCHANGED vars \/ \E c \in Clients : Deauthorize(c)
  BY <1>3
     DEF Deauthorize, vars, SerialInv, Alone, InStep, InHand, Concluded, Opened,
         Invalidated, Redirected, InFlight
<1> QED BY <1>1, <1>2, <1>3, SerialStep DEF Next

THEOREM SerialCorrect ==
  ASSUME MaxInFlight = 1
  PROVE  Spec => []SerialInv
<1>1. Init => SerialInv
  BY SerialInit
<1>2. OriginInv /\ Arranged /\ SerialInv /\ [Next]_vars => SerialInv'
  BY SerialNext
<1> QED BY <1>1, <1>2, OriginCorrect, ArrangedCorrect, PTL DEF Spec
-----------------------------------------------------------------------------
(* A transaction is decided once. *)

Decided(q) == Redirected(q) /\ answer[q].kind # "error"

\* Who decides a transaction has it in hand, so nobody has answered for it before.
LEMMA DecidesAnother ==
  ASSUME OriginInv, SerialInv, [Next]_vars, NEW p \in Requests, NEW q \in Requests,
         p # q, pc[p] # "done", Decided(p)', Decided(q)'
  PROVE  answer'[p].tid # answer'[q].tid
<1>1. PICK from \in Handling, removes \in BOOLEAN :
        /\ Finish(p, from, removes, answer'[p])
        /\ answer'[p] = Redirect(p, answer'[p].kind)
  BY RedirectEnds DEF Decided
<1>2. answer'[p].tid = TidOf(p) /\ answer'[q] = answer[q]
  BY <1>1 DEF Redirect, Finish, OriginInv, TypeInv, TypeOK
<1>3. pc[answer[q].tid] = "done" /\ store[answer[q].tid] = None
  BY <1>2 DEF Decided, Redirected, SerialInv, Concluded
<1>4. TidOf(p) = p \/ store[TidOf(p)] # None
  BY DEF TidOf, SerialInv, InHand
<1> QED BY <1>2, <1>3, <1>4

\* What was answered stays answered the same way.
LEMMA AnswerStays ==
  ASSUME OriginInv, [Next]_vars, NEW r \in Requests, pc[r] = "done"
  PROVE  answer'[r] = answer[r]
<1>1. ASSUME NEW s \in Requests, Step(s)
      PROVE  answer'[r] = answer[r]
  <2>1. CASE Ends(s)
    <3>1. PICK ans : pc[s] \in Handling /\ answer' = [answer EXCEPT ![s] = ans]
      BY <2>1 DEF Ends, Finish, Goto
    <3> QED BY <3>1 DEF OriginInv, TypeInv, TypeOK, Handling
  <2>2. CASE UNCHANGED answer
    BY <2>2
  <2> QED
    BY <1>1, <2>1, <2>2, StepShape
       DEF OriginInv, Moves, Validated, Immediated, Store, Loads,
           LoadInvalidated, LoadSucceeds, Settles, Settled, Update, shared
<1> QED BY <1>1 DEF Next, Receive, Crash, Deauthorize, shared, vars

\* Served one at a time, under any error middleware, no transaction is granted or
\* denied twice: once it is, nobody can load it any more.
THEOREM SerialDecidesOnce ==
  ASSUME MaxInFlight = 1
  PROVE  Spec => []DecidedOnce
<1>1. Init => DecidedOnce
  BY DEF Init, DecidedOnce, Redirected
<1>2. OriginInv /\ SerialInv /\ DecidedOnce /\ [Next]_vars => DecidedOnce'
  <2> SUFFICES ASSUME OriginInv, SerialInv, DecidedOnce, [Next]_vars,
                      NEW p \in Requests, NEW q \in Requests, p # q,
                      Decided(p)', Decided(q)', answer'[p].tid = answer'[q].tid
               PROVE  FALSE
    BY DEF DecidedOnce, Decided
  <2>1. pc[p] = "done" /\ pc[q] = "done"
    BY DecidesAnother
  <2>2. answer'[p] = answer[p] /\ answer'[q] = answer[q]
    BY <2>1, AnswerStays
  <2> QED BY <2>2 DEF DecidedOnce, Decided, Redirected
<1> QED BY <1>1, <1>2, SerialCorrect, OriginCorrect, PTL DEF Spec
-----------------------------------------------------------------------------
(* The refinement. *)

\* A step that ends no response and saves nothing changes nothing about the life
\* of a transaction.
LEMMA LifecycleStutters ==
  ASSUME UNCHANGED <<store, answer>>,
         \A t \in Requests : /\ pc'[t] = "done" <=> pc[t] = "done"
                             /\ pc[t] = "done" => origin'[t] = origin[t]
  PROVE  UNCHANGED Lifecycle!vars
<1>1. UNCHANGED answered /\ \A t \in Requests : Answered(t)' <=> Answered(t)
  BY DEF answered, Answered, Redirected
<1>2. UNCHANGED status
  BY <1>1 DEF status
<1> QED BY <1>1, <1>2 DEF Lifecycle!vars

LEMMA StepStutters ==
  ASSUME OriginInv, NEW r \in Requests, Step(r), ~Ends(r)
  PROVE  UNCHANGED Lifecycle!vars
<1> USE DEF OriginInv, TypeInv, TypeOK, shared, given, locals, Goto, Handling
<1>1. UNCHANGED <<store, answer>>
  BY StepShape
     DEF Moves, Validated, Immediated, Store, Loads, LoadInvalidated,
         LoadSucceeds, Settles, Settled, Update, Fail
<1>2. /\ pc[r] # "done"
      /\ \E to \in Handling : pc' = [pc EXCEPT ![r] = to]
  BY StepShape
     DEF Moves, Validated, Immediated, Store, Loads, LoadInvalidated,
         LoadSucceeds, Settles, Update, Fail
<1>3. \A t \in Requests \ {r} : origin'[t] = origin[t]
  BY StepShape
     DEF Moves, Validated, Immediated, Store, Loads, LoadInvalidated,
         LoadSucceeds, Settles, Settled, Update, Fail
<1> QED BY <1>1, <1>2, <1>3, LifecycleStutters

\* What a step that moves the status of one transaction has to do.
LEMMA LifecycleSteps ==
  ASSUME NEW t \in Requests, NEW r \in Requests,
         \A u \in Requests \ {t} : status'[u] = status[u],
         status'[t] # status[t] => status[t] # "closed",
         \/ /\ UNCHANGED answered
            /\ \/ status'[t] \in {status[t], "closed"}
               \/ status[t] = "unborn" /\ status'[t] = "pending"
         \/ /\ answered' = answered \cup {<<t, r>>}
            /\ status[t] # "closed" /\ status'[t] = "closed"
  PROVE  Lifecycle!Next \/ UNCHANGED Lifecycle!vars
<1>1. status' = [status EXCEPT ![t] = status'[t]]
  BY DEF status
<1>2. CASE status'[t] = status[t] /\ UNCHANGED answered
  <2>1. status' = status
    BY <1>1, <1>2 DEF status
  <2> QED BY <1>2, <2>1 DEF Lifecycle!vars
<1>3. CASE /\ status[t] = "unborn" /\ status'[t] = "pending"
           /\ UNCHANGED answered
  BY <1>1, <1>3 DEF Lifecycle!Open, Lifecycle!Next
<1>4. CASE /\ status[t] # "closed" /\ status'[t] = "closed"
           /\ UNCHANGED answered
  BY <1>1, <1>4 DEF Lifecycle!Invalidate, Lifecycle!Next
<1>5. CASE /\ status[t] # "closed" /\ status'[t] = "closed"
           /\ answered' = answered \cup {<<t, r>>}
  BY <1>1, <1>5 DEF Lifecycle!Answer, Lifecycle!Next
<1> QED BY <1>2, <1>3, <1>4, <1>5

LEMMA EndStepsLifecycle ==
  ASSUME OriginInv, Arranged, SerialInv, mount # "indirect",
         NEW r \in Requests, Ends(r)
  PROVE  Lifecycle!Next \/ UNCHANGED Lifecycle!vars
<1> USE EndpointAssumption DEF OriginInv, TypeInv, TypeOK
<1>1. PICK from \in Handling, removes \in BOOLEAN, ans \in Answer :
        /\ Finish(r, from, removes, ans)
        /\ ans.tid = TidOf(r)
        /\ ans.kind \in Redirects => oauth2[r] # None
  BY DEF Ends
<1>2. /\ pc[r] \in Handling /\ pc' = [pc EXCEPT ![r] = "done"]
      /\ answer' = [answer EXCEPT ![r] = ans]
      /\ store' = [t \in Requests |->
                     IF removes /\ t = txnID[r] THEN None ELSE session[r][t]]
      /\ UNCHANGED <<mount, origin>>
  BY <1>1 DEF Finish, Goto
<1>3. pc[r] # "done" /\ answer[r] = None /\ store[r] = None /\ ~Answered(r)
  BY <1>2 DEF Handling, AgreesWithOrigin, SerialInv, Concluded, Answered, Redirected
<1>4. /\ ans.kind \in Redirects =>
           /\ answered' = answered \cup {<<TidOf(r), r>>}
           /\ \A u \in Requests : u = TidOf(r) => Answered(u)'
      /\ ans.kind \notin Redirects => UNCHANGED answered
      /\ \A u \in Requests : u # TidOf(r) \/ ans.kind \notin Redirects
                             => (Answered(u)' <=> Answered(u))
  <2>1. answer'[r] = ans /\ ans # None /\ ~Redirected(r)
    BY <1>2, <1>3, EndpointAssumption DEF Redirected
  <2>2. \A s \in Requests \ {r} : answer'[s] = answer[s]
    BY <1>2
  <2>3. \A s \in Requests : Redirected(s)' <=>
          IF s = r THEN ans.kind \in Redirects ELSE Redirected(s)
    BY <2>1, <2>2 DEF Redirected
  <2>4. \A u \in Requests : u # TidOf(r) \/ ans.kind \notin Redirects
                            => (Answered(u)' <=> Answered(u))
    BY <1>1, <2>1, <2>2, <2>3 DEF Answered
  <2>5. ans.kind \in Redirects => \A u \in Requests : u = TidOf(r) => Answered(u)'
    BY <1>1, <2>1, <2>3 DEF Answered
  <2>6. {s \in Requests : Redirected(s)}' =
          IF ans.kind \in Redirects THEN {s \in Requests : Redirected(s)} \cup {r}
          ELSE {s \in Requests : Redirected(s)}
    BY <2>1, <2>3
  <2>7. /\ ans.kind \in Redirects => answered' = answered \cup {<<TidOf(r), r>>}
        /\ ans.kind \notin Redirects => answered' = answered
    BY <1>1, <2>1, <2>2, <2>6 DEF answered
  <2> QED BY <2>4, <2>5, <2>7
<1>5. \A u \in Requests : u # TidOf(r) /\ (store'[u] = None <=> store[u] = None)
                           => status'[u] = status[u]
  <2>1. origin[r] # None => TidOf(r) = r
    BY <1>2 DEF TidOf, AgreesWithOrigin, Handling
  <2>2. \A u \in Requests : u # TidOf(r) => (Answered(u)' <=> Answered(u))
    BY <1>4
  <2>3. \A u \in Requests : u # r => pc'[u] = pc[u]
    BY <1>2
  <2> QED BY <1>2, <1>3, <2>1, <2>2, <2>3 DEF status, TidOf
<1>6. r \in InFlight /\ pc'[r] = "done" /\ status[r] = "unborn"
  BY <1>2, <1>3 DEF InFlight, status
<1>7. CASE txnID[r] # None
  <2> DEFINE t == txnID[r]
  <2>1. /\ t \in Requests /\ t = TidOf(r) /\ session[r][t] # None
        /\ origin[t] # None /\ pc'[t] = "done"
        /\ status[t] \in {"unborn", "pending"}
    BY <1>2, <1>6, <1>7
       DEF TidOf, SerialInv, InHand, Concluded, AgreesWithOrigin, FromOrigin, status
  <2>2. \A u \in Requests \ {t} : store'[u] = None <=> store[u] = None
    BY <1>2, <1>6, <1>7 DEF SerialInv, InStep, Opened, Invalidated, Equipped
  <2>3. \A u \in Requests \ {t} : status'[u] = status[u]
    BY <1>5, <2>1, <2>2
  <2>4. CASE removes
    <3>1. status'[t] = "closed"
      BY <1>2, <2>1, <2>4 DEF status
    <3> QED BY <1>4, <2>1, <2>3, <3>1, LifecycleSteps
  <2>5. CASE ~removes
    <3>1. store'[t] # None
      BY <1>2, <2>1, <2>5
    <3>2. status'[t] = "pending"
      BY <2>1, <3>1 DEF status
    <3>3. Concluded' /\ answer'[r] = ans
      BY <1>2, SerialEnds DEF SerialInv
    <3>4. ans.kind \notin Redirects
      BY <1>1, <1>2, <2>1, <3>1, <3>3 DEF Concluded, Redirected
    <3> QED BY <1>4, <2>1, <2>3, <3>2, <3>4, LifecycleSteps
  <2> QED BY <2>4, <2>5
<1>8. CASE txnID[r] = None
  <2>1. TidOf(r) = r /\ origin[r] = None
    BY <1>2, <1>8 DEF TidOf, AgreesWithOrigin, Handling
  <2>2. session[r][r] = None
    BY <2>1 DEF AgreesWithOrigin, FromOrigin
  <2>3. store' = session[r]
    BY <1>2, <1>8
  <2>4. CASE \A u \in Requests : session[r][u] = None <=> store[u] = None
    <3>1. \A u \in Requests \ {r} : status'[u] = status[u]
      BY <1>5, <2>1, <2>3, <2>4
    <3>2. CASE ans.kind \in Redirects
      <4>1. status'[r] = "closed"
        BY <1>4, <2>1, <2>2, <2>3, <3>2 DEF status
      <4> QED BY <1>4, <1>6, <2>1, <3>1, <3>2, <4>1, LifecycleSteps
    <3>3. CASE ans.kind \notin Redirects
      <4>1. ~Answered(r)'
        BY <1>3, <1>4, <3>3
      <4>2. status'[r] = "unborn"
        BY <1>2, <2>1, <2>2, <2>3, <4>1 DEF status
      <4> QED BY <1>4, <1>6, <3>1, <3>3, <4>2, LifecycleSteps
    <3> QED BY <3>2, <3>3
  <2>5. ASSUME NEW t \in Requests, ~(session[r][t] = None <=> store[t] = None)
        PROVE  Lifecycle!Next \/ UNCHANGED Lifecycle!vars
    <3>1. Invalidated(r, t)
      BY <1>6, <1>8, <2>5 DEF SerialInv, InStep, Opened
    <3>2. \A u \in Requests \ {t} : session[r][u] = None <=> store[u] = None
      BY <1>6, <1>8, <3>1 DEF SerialInv, InStep, Opened, Invalidated
    <3>3. ans.kind \notin Redirects /\ UNCHANGED answered
      BY <1>1, <1>4, <3>1 DEF Invalidated
    <3>4. store'[t] = None /\ store[t] # None
      BY <2>3, <2>5, <3>1 DEF Invalidated
    <3>5. t # r /\ pc[t] = "done" /\ origin[t] # None
      BY <1>3, <3>4 DEF SerialInv, Concluded, AgreesWithOrigin, FromOrigin
    <3>6. status[t] = "pending" /\ status'[t] = "closed"
      BY <1>2, <3>4, <3>5 DEF status
    <3>7. status'[r] = "unborn"
      <4>1. ~Answered(r)'
        BY <1>3, <1>4, <3>3
      <4> QED BY <1>2, <2>1, <2>2, <2>3, <4>1 DEF status
    <3>8. \A u \in Requests \ {t} : status'[u] = status[u]
      BY <1>5, <1>6, <2>1, <2>3, <3>2, <3>7
    <3> QED BY <3>3, <3>6, <3>8, LifecycleSteps
  <2> QED BY <2>4, <2>5
<1> QED BY <1>7, <1>8

LEMMA NextStepsLifecycle ==
  ASSUME OriginInv, Arranged, SerialInv, mount # "indirect", [Next]_vars
  PROVE  [Lifecycle!Next]_(Lifecycle!vars)
<1>1. ASSUME NEW r \in Requests, Step(r)
      PROVE  [Lifecycle!Next]_(Lifecycle!vars)
  BY <1>1, EndStepsLifecycle, StepStutters
<1>2. ASSUME NEW r \in Requests, NEW in \in Incoming, Receive(r, in)
      PROVE  UNCHANGED Lifecycle!vars
  <2>1. /\ UNCHANGED <<store, answer, origin>> /\ pc[r] = "idle"
        /\ \E to \in {"parse", "load"} : pc' = [pc EXCEPT ![r] = to]
    BY <1>2 DEF Receive, Goto
  <2> QED BY <2>1, LifecycleStutters DEF OriginInv, TypeInv, TypeOK
<1>3. CASE Crash
  <2>1. /\ UNCHANGED <<store, answer, origin>>
        /\ pc' = [s \in Requests |-> IF s \in InFlight THEN "lost" ELSE pc[s]]
    BY <1>3 DEF Crash, shared
  <2> QED BY <2>1, LifecycleStutters DEF InFlight, Handling
<1>4. CASE UNCHANGED vars \/ \E c \in Clients : Deauthorize(c)
  <2>1. UNCHANGED <<store, answer, origin, pc>>
    BY <1>4 DEF Deauthorize, vars
  <2> QED BY <2>1, LifecycleStutters
<1> QED BY <1>1, <1>2, <1>3, <1>4 DEF Next

\* Served one request at a time, with the library's own error handler or none,
\* the endpoint keeps its promise: each end of a response opens, answers or
\* invalidates one transaction, which is then closed for good.
THEOREM SerialImplementsLifecycle ==
  ASSUME MaxInFlight = 1, "indirect" \notin ErrorMounts
  PROVE  Spec => ImplementsLifecycle
<1>1. Init => Lifecycle!Init
  BY DEF Init, Lifecycle!Init, status, answered, Answered, Redirected, NoTxns
<1>2. OriginInv /\ Arranged /\ SerialInv /\ [Next]_vars
        => [Lifecycle!Next]_(Lifecycle!vars)
  BY NextStepsLifecycle DEF OriginInv, TypeInv, TypeOK
<1> QED
  BY <1>1, <1>2, SerialCorrect, OriginCorrect, ArrangedCorrect, PTL
     DEF Spec, ImplementsLifecycle, Lifecycle!Spec
-----------------------------------------------------------------------------
(* What the life cycle promises. *)

\* Only a transaction that is not closed is answered, and it stays closed.
LEMMA LifecycleKeeps ==
  ASSUME Lifecycle!TypeOK, Lifecycle!AnsweredOnce, [Lifecycle!Next]_(Lifecycle!vars)
  PROVE  Lifecycle!TypeOK' /\ Lifecycle!AnsweredOnce'
<1> USE DEF Lifecycle!TypeOK, Lifecycle!AnsweredOnce
<1>1. CASE UNCHANGED Lifecycle!vars
  BY <1>1 DEF Lifecycle!vars
<1>2. ASSUME NEW t \in Requests, Lifecycle!Open(t) \/ Lifecycle!Invalidate(t)
      PROVE  Lifecycle!TypeOK' /\ Lifecycle!AnsweredOnce'
  BY <1>2 DEF Lifecycle!Open, Lifecycle!Invalidate
<1>3. ASSUME NEW t \in Requests, NEW r \in Requests, Lifecycle!Answer(t, r)
      PROVE  Lifecycle!TypeOK' /\ Lifecycle!AnsweredOnce'
  <2>1. /\ status[t] # "closed" /\ status' = [status EXCEPT ![t] = "closed"]
        /\ answered' = answered \cup {<<t, r>>}
    BY <1>3 DEF Lifecycle!Answer
  <2>2. \A a \in answered : a[1] # t
    BY <2>1
  <2> QED BY <2>1, <2>2
<1> QED BY <1>1, <1>2, <1>3 DEF Lifecycle!Next

\* So the client of a transaction gets one response, be it a grant, a denial or an
\* error, and afterwards no session has the transaction any more.
THEOREM SerialAnswersOnce ==
  ASSUME MaxInFlight = 1, "indirect" \notin ErrorMounts
  PROVE  Spec => []Lifecycle!AnsweredOnce
<1>1. Lifecycle!Init => Lifecycle!TypeOK /\ Lifecycle!AnsweredOnce
  BY DEF Lifecycle!Init, Lifecycle!TypeOK, Lifecycle!AnsweredOnce
<1>2. Spec => Lifecycle!Spec
  BY SerialImplementsLifecycle DEF ImplementsLifecycle
<1> QED BY <1>1, <1>2, LifecycleKeeps, PTL DEF Lifecycle!Spec
=============================================================================
