------------------------ MODULE PluggableStoreProofs ------------------------
(***************************************************************************)
(* For every number of requests and updates: over a pluggable store the    *)
(* removal of a transaction is on its way before its client is answered;   *)
(* and over a reliable one, requests that overlap but act on different     *)
(* transactions implement the life of a transaction.                       *)
(***************************************************************************)
EXTENDS PluggableStore, FiniteSetTheorems, TLAPS

\* What a request has by the time it is at a stage.  From the moment it has a
\* mark, res.end is wrapped.
Staged ==
  \A r \in Requests :
    /\ pc[r] \in {"idle", "validate", "load"} => oauth2[r] = None
    /\ pc[r] \in {"idle", "validate", "load", "store"} => txnID[r] = None
    /\ pc[r] \in {"store", "resume", "decide", "update", "dialog"} =>
         oauth2[r] # None /\ ~oauth2[r].endProxied
    /\ pc[r] \in {"resume", "decide", "update", "dialog"} => txnID[r] # None
    /\ pc[r] = "respond" =>
         /\ oauth2[r] # None
         /\ txnID[r] # None \/ oauth2[r].endProxied => proxied[r]
    /\ pc[r] \in {"error", "errorRespond"} =>
         IF oauth2[r] = None THEN txnID[r] = None
         ELSE oauth2[r].endProxied => proxied[r]
    /\ proxied[r] => txnID[r] # None

\* What the store has, a request holds or an answer names is a handle the store has
\* given out, to a transaction that was stored: one that an update gives out for
\* the first time was never answered for.
Held ==
  /\ \A h \in Handles : store[h] # None => h \in given
  /\ \A r \in Requests :
       /\ txnID[r] # None => txnID[r] \in given
       /\ presented[r] # None => presented[r] \in given
       /\ answer[r] # None /\ answer[r].handle # None => answer[r].handle \in given

Born(h) == pc[h[1]] \notin {"idle", "validate", "store"}
HandlesBorn == \A h \in given : Born(h)

Inv == /\ TypeOK /\ StoredUnmarked /\ Staged /\ Held /\ HandlesBorn
       /\ RemovalArranged
-----------------------------------------------------------------------------
LEMMA InitInv == Init => Inv
  BY StoreAssumption
     DEF Init, Inv, TypeOK, StoredUnmarked, Staged, Held, HandlesBorn, Born,
         RemovalArranged, Kinds

LEMMA HandleParts ==
  /\ \A h \in Handles : /\ h[1] \in Requests /\ h[2] \in 0..MaxUpdates
                       /\ h = <<h[1], h[2]>> /\ h # None
  /\ \A t \in Requests, n \in 0..MaxUpdates :
       <<t, n>> \in Handles /\ <<t, n>>[1] = t /\ <<t, n>>[2] = n
  BY StoreAssumption DEF Handles

\* A step that touches no handle: the request goes from one stage to another
\* and may be given a transaction that has no mark.
LEMMA Quiet ==
  ASSUME Inv, NEW r \in Requests, NEW q \in Stages,
         pc' = [pc EXCEPT ![r] = q],
         q \in {"validate", "store"} => pc[r] \in {"idle", "validate"},
         UNCHANGED <<mount, outside, carried, txnID, answer>>,
         oauth2' \in [Requests -> Txn \cup {None}],
         proxied' \in [Requests -> BOOLEAN],
         \A p \in Requests \ {r} : oauth2'[p] = oauth2[p] /\ proxied'[p] = proxied[p],
         Staged'
  PROVE  Inv'
<1> USE DEF Inv, TypeOK, outside, carried
<1>1. TypeOK'
  OBVIOUS
<1>2. StoredUnmarked'
  BY DEF StoredUnmarked
<1>3. Held'
  BY DEF Held
<1>4. HandlesBorn'
  <2>1. \A t \in Requests : pc[t] \notin {"idle", "validate", "store"} =>
                            pc'[t] \notin {"idle", "validate", "store"}
    BY DEF Stages
  <2> QED
    BY <2>1, HandleParts DEF HandlesBorn, Born
<1>5. RemovalArranged'
  BY DEF RemovalArranged
<1> QED
  BY <1>1, <1>2, <1>3, <1>4, <1>5

LEMMA ReceiveInv ==
  ASSUME Inv, NEW r \in Requests, NEW k \in Kinds,
         NEW h \in Handles \cup {None}, Receive(r, k, h)
  PROVE  Inv'
<1> USE StoreAssumption DEF Inv, Receive, Goto, outside, own
<1>1. TypeOK'
  BY DEF TypeOK, Stages
<1>2. StoredUnmarked'
  BY DEF StoredUnmarked
<1>3. Staged'
  BY DEF Staged
<1>4. Held'
  BY DEF Held, TypeOK
<1>5. HandlesBorn'
  BY HandleParts DEF HandlesBorn, Born, TypeOK
<1>6. RemovalArranged'
  BY DEF RemovalArranged
<1> QED
  BY <1>1, <1>2, <1>3, <1>4, <1>5, <1>6

\* A response ends: a removal it needs is sent first.
LEMMA FinishInv ==
  ASSUME Inv, NEW r \in Requests, NEW from \in Stages, NEW removes \in BOOLEAN,
         NEW k \in {"decided", "error", "dialog", "page"},
         Finish(r, from, removes, k),
         from \notin {"validate", "store"},
         removes => txnID[r] # None,
         k \in {"decided", "error"} /\ txnID[r] # None => removes
  PROVE  Inv'
<1> USE StoreAssumption DEF Inv, Finish, Goto, carried, own
<1>1. TypeOK'
  BY DEF TypeOK, Answer, Txn
<1>2. StoredUnmarked'
  BY DEF StoredUnmarked
<1>3. Staged'
  BY DEF Staged, TypeOK, Stages
<1>4. Held'
  BY DEF Held, TypeOK
<1>5. HandlesBorn'
  BY HandleParts DEF HandlesBorn, Born, TypeOK
<1>6. RemovalArranged'
  BY DEF RemovalArranged, TypeOK
<1> QED
  BY <1>1, <1>2, <1>3, <1>4, <1>5, <1>6

\* A stage for a stage: Staged only depends on the request that moves.
LEMMA StagedStep ==
  ASSUME Inv, NEW r \in Requests, NEW q \in Stages, pc' = [pc EXCEPT ![r] = q],
         UNCHANGED txnID,
         \A p \in Requests \ {r} : oauth2'[p] = oauth2[p] /\ proxied'[p] = proxied[p],
         q \in {"error", "update", "errorRespond", "store", "respond"},
         q \in {"store", "update"} => oauth2'[r] # None /\ ~oauth2'[r].endProxied,
         q = "store" => txnID[r] = None,
         q = "update" => txnID[r] # None,
         q = "respond" => /\ oauth2'[r] # None
                          /\ txnID[r] # None \/ oauth2'[r].endProxied => proxied'[r],
         q \in {"error", "errorRespond"} =>
           IF oauth2'[r] = None THEN txnID[r] = None
           ELSE oauth2'[r].endProxied => proxied'[r],
         proxied'[r] => txnID[r] # None
  PROVE  Staged'
<1> USE DEF Inv, TypeOK
<1>1. pc'[r] = q /\ \A p \in Requests \ {r} : pc'[p] = pc[p]
  OBVIOUS
<1>2. ASSUME NEW p \in Requests, p # r
      PROVE  /\ pc'[p] = pc[p] /\ oauth2'[p] = oauth2[p]
             /\ proxied'[p] = proxied[p] /\ txnID'[p] = txnID[p]
  BY <1>1, <1>2
<1> QED
  BY <1>1, <1>2 DEF Staged

\* The steps that touch neither the store nor a handle.
LEMMA ValidatedInv == ASSUME Inv, NEW r \in Requests, Validated(r) PROVE Inv'
<1> DEFINE txn == [opener |-> r, endProxied |-> FALSE]
<1> USE DEF Inv, TypeOK
<1>1. pc[r] = "validate" /\ txnID[r] = None /\ oauth2[r] = None /\ ~proxied[r]
  BY DEF Validated, Only, Goto, Staged
<1>2. CASE Only(r, "validate", "error")
  <2>1. Staged'
    BY <1>1, <1>2, StagedStep DEF Only, Goto, own, Stages
  <2> QED
    BY <1>2, <2>1, Quiet DEF Only, Goto, own, Stages
<1>3. CASE ~Only(r, "validate", "error")
  <2>1. PICK to \in {"error", "store", "respond"} : pc' = [pc EXCEPT ![r] = to]
    BY <1>3 DEF Validated, Goto
  <2>2. txn \in Txn /\ ~txn.endProxied
    BY DEF Txn
  <2>3. /\ oauth2' = [oauth2 EXCEPT ![r] = txn] /\ txnID' = txnID /\ proxied' = proxied
        /\ UNCHANGED <<mount, outside, carried, answer>>
    BY <1>3 DEF Validated
  <2> HIDE DEF txn
  <2>4. /\ oauth2'[r] = txn /\ oauth2' \in [Requests -> Txn \cup {None}] /\ txn # None
        /\ \A p \in Requests \ {r} : oauth2'[p] = oauth2[p]
    BY <2>2, <2>3, StoreAssumption
  <2>5. Staged'
    BY <1>1, <2>1, <2>2, <2>3, <2>4, StagedStep DEF Stages
  <2> QED
    BY <1>1, <2>1, <2>3, <2>4, <2>5, Quiet DEF Stages
<1> QED
  BY <1>2, <1>3

LEMMA SettleInv ==
  ASSUME Inv, NEW r \in Requests, NEW from \in {"resume", "decide"}, Settle(r, from)
  PROVE  Inv'
<1> DEFINE txn == [oauth2[r] EXCEPT !.endProxied = TRUE]
<1> USE DEF Inv, TypeOK
<1>1. /\ pc[r] = from /\ pc' = [pc EXCEPT ![r] = "respond"]
      /\ oauth2' = [oauth2 EXCEPT ![r] = txn]
      /\ proxied' = [proxied EXCEPT ![r] = TRUE] /\ txnID' = txnID
      /\ UNCHANGED <<mount, outside, carried, answer>>
  BY DEF Settle, Goto, Mark
<1>2. oauth2[r] # None /\ oauth2[r] \in Txn /\ txnID[r] # None
  BY <1>1 DEF Staged
<1>3. txn \in Txn /\ txn # None
  BY <1>2, StoreAssumption DEF Txn
<1> HIDE DEF txn
<1>4. /\ oauth2'[r] = txn /\ oauth2' \in [Requests -> Txn \cup {None}]
      /\ proxied'[r] = TRUE /\ proxied' \in [Requests -> BOOLEAN]
      /\ \A p \in Requests \ {r} : oauth2'[p] = oauth2[p] /\ proxied'[p] = proxied[p]
  BY <1>1, <1>3
<1>5. Staged'
  BY <1>1, <1>2, <1>3, <1>4, StagedStep DEF Stages
<1> QED
  BY <1>1, <1>4, <1>5, Quiet DEF Stages

LEMMA OnlyInv ==
  ASSUME Inv, NEW r \in Requests, NEW from \in Stages \ {"validate", "load"},
         NEW to \in {"error", "update", "errorRespond"}, Only(r, from, to),
         to = "update" => from = "resume", to = "errorRespond" => from = "error"
  PROVE  Inv'
<1> USE StoreAssumption DEF Inv, TypeOK, Only, Goto, own
<1>1. /\ to = "update" => oauth2[r] # None /\ ~oauth2[r].endProxied /\ txnID[r] # None
      /\ proxied[r] => txnID[r] # None
      /\ IF oauth2[r] = None THEN txnID[r] = None
         ELSE to \in {"error", "errorRespond"} /\ oauth2[r].endProxied => proxied[r]
  <2>1. CASE from = "respond"
    BY <2>1 DEF Staged
  <2>2. CASE from \in {"error", "errorRespond"}
    BY <2>2 DEF Staged
  <2>3. CASE from \in {"store", "resume", "decide", "update", "dialog"}
    BY <2>3 DEF Staged
  <2> QED
    BY <2>1, <2>2, <2>3 DEF Stages
<1>2. pc[r] \in Stages /\ oauth2' = oauth2 /\ proxied' = proxied
  OBVIOUS
<1>3. Staged'
  BY <1>1, <1>2, StagedStep DEF Stages
<1> QED
  BY <1>2, <1>3, Quiet DEF Stages

LEMMA LoadErrorInv ==
  ASSUME Inv, NEW r \in Requests, Only(r, "load", "error")
  PROVE  Inv'
<1> USE StoreAssumption DEF Inv, TypeOK, Only, Goto, own
<1>1. oauth2[r] = None /\ txnID[r] = None /\ ~proxied[r]
  BY DEF Staged
<1>2. Staged'
  BY <1>1, StagedStep DEF Stages
<1> QED
  BY <1>2, Quiet DEF Stages

LEMMA LoadSucceedsInv ==
  ASSUME Inv, NEW r \in Requests, NEW from \in {"load", "error"},
         NEW to \in {"resume", "decide", "errorRespond"},
         LoadSucceeds(r, from, to), oauth2[r] = None
  PROVE  Inv'
<1> USE StoreAssumption DEF Inv, LoadSucceeds, Goto, outside, carried
<1>1. TypeOK'
  BY DEF TypeOK, Stages, Txn
<1>2. StoredUnmarked'
  BY DEF StoredUnmarked
<1>3. Staged'
  BY DEF Staged, StoredUnmarked, TypeOK
<1>4. Held'
  BY DEF Held, TypeOK
<1>5. HandlesBorn'
  BY HandleParts DEF HandlesBorn, Born, TypeOK, Stages
<1>6. RemovalArranged'
  BY DEF RemovalArranged
<1> QED
  BY <1>1, <1>2, <1>3, <1>4, <1>5, <1>6

\* A transaction is stored under its first handle, which nobody holds yet.
LEMMA StoreInv ==
  ASSUME Inv, NEW r \in Requests, Store(r)
  PROVE  Inv'
<1> DEFINE h == <<r, 0>>
<1>1. CASE Only(r, "store", "error")
  BY <1>1, OnlyInv DEF Stages
<1>2. CASE ~Only(r, "store", "error")
  <2> USE DEF Inv
  <2>1. /\ pc[r] = "store" /\ pc' = [pc EXCEPT ![r] = "dialog"]
        /\ store' = [store EXCEPT ![h] = oauth2[r]]
        /\ txnID' = [txnID EXCEPT ![r] = h]
        /\ given' = given \cup {h}
        /\ UNCHANGED <<mount, removing, failed, revived, kind, presented, oauth2,
                       proxied, answer>>
    BY <1>2 DEF Store, Goto, carried
  <2>2. h \in Handles /\ h[1] = r /\ h[2] = 0 /\ h # None
    BY HandleParts, StoreAssumption
  <2> HIDE DEF h
  <2>3. oauth2[r] \in Txn /\ oauth2[r] # None /\ ~oauth2[r].endProxied
        /\ txnID[r] = None /\ ~proxied[r]
    BY <2>1 DEF Staged, TypeOK
  <2>4. TypeOK'
    BY <2>1, <2>2, <2>3 DEF TypeOK, Stages
  <2>5. /\ store'[h] = oauth2[r] /\ \A g \in Handles \ {h} : store'[g] = store[g]
        /\ txnID'[r] = h /\ \A p \in Requests \ {r} : txnID'[p] = txnID[p]
        /\ pc'[r] = "dialog" /\ \A p \in Requests \ {r} : pc'[p] = pc[p]
    BY <2>1, <2>2 DEF TypeOK
  <2>6. StoredUnmarked'
    BY <2>3, <2>5 DEF StoredUnmarked
  <2>7. Staged'
    BY <2>1, <2>2, <2>3, <2>5 DEF Staged
  <2>8. \A p \in Requests : answer[p] # None => answer[p].handle \in Handles \cup {None}
    BY DEF TypeOK, Answer
  <2>9. h \notin given
    BY <2>1, <2>2 DEF HandlesBorn, Born
  <2>10. Held'
    BY <2>1, <2>2, <2>5 DEF Held, TypeOK
  <2>11. HandlesBorn'
    BY <2>1, <2>2, <2>5, HandleParts DEF HandlesBorn, Born, TypeOK
  <2>12. RemovalArranged'
    <3>1. ASSUME NEW p \in Requests, answer[p] # None, answer[p].handle # None,
                 answer[p].kind \in {"decided", "error"}
          PROVE  \/ store'[answer[p].handle] = None
                 \/ answer[p].handle \in removing \cup failed \cup revived
      BY <3>1, <2>5, <2>8, <2>9 DEF RemovalArranged, Held
    <3> QED
      BY <3>1, <2>1 DEF RemovalArranged
  <2> QED
    BY <2>4, <2>6, <2>7, <2>10, <2>11, <2>12
<1> QED
  BY <1>1, <1>2

\* The steps that end a response: each sends the removal it owes.
LEMMA EndInv ==
  ASSUME Inv, NEW r \in Requests,
         \/ Finish(r, "dialog", proxied[r], "dialog")
         \/ Finish(r, "respond", proxied[r], "decided")
         \/ UnhandledError(r) \/ RespondError(r)
  PROVE  Inv'
<1> USE DEF Inv, TypeOK
<1>1. proxied[r] \in BOOLEAN /\ (proxied[r] => txnID[r] # None)
  BY DEF Staged
<1>2. CASE Finish(r, "dialog", proxied[r], "dialog")
  BY <1>1, <1>2, FinishInv DEF Stages
<1>3. CASE Finish(r, "respond", proxied[r], "decided")
  <2>1. txnID[r] # None => proxied[r]
    BY <1>3 DEF Finish, Goto, Staged
  <2> QED
    BY <1>1, <1>3, <2>1, FinishInv DEF Stages
<1>4. CASE UnhandledError(r)
  BY <1>1, <1>4, FinishInv DEF UnhandledError, Stages
<1>5. CASE RespondError(r)
  <2> DEFINE removes == proxied[r] \/ (oauth2[r] # None /\ txnID[r] # None
                                       /\ ~oauth2[r].endProxied)
  <2>1. PICK k \in {"page"} \cup (IF oauth2[r] = None THEN {} ELSE {"error"}) :
          Finish(r, "errorRespond", removes, k)
    BY <1>5 DEF RespondError
  <2>2. removes => txnID[r] # None
    BY <1>1
  <2>3. k \in {"decided", "error"} /\ txnID[r] # None => removes
    BY <2>1 DEF Finish, Goto, Staged
  <2>4. removes \in BOOLEAN
    BY <1>1
  <2>5. k \in {"decided", "error", "dialog", "page"}
    BY <2>1
  <2> HIDE DEF removes
  <2> QED
    BY <2>1, <2>2, <2>3, <2>4, <2>5, FinishInv DEF Stages
<1> QED
  BY <1>2, <1>3, <1>4, <1>5

\* The store forgets a transaction, under a handle that nobody needs any more,
\* and perhaps the process stops: neither gives a handle out.
LEMMA StoreSideInv ==
  ASSUME Inv, TypeOK', UNCHANGED <<mount, kind, presented, oauth2, txnID, proxied, answer>>,
         \A h \in Handles : store'[h] \in {store[h], None},
         given' = given,
         \A h \in removing \cup failed \cup revived :
           h \in removing' \cup failed' \cup revived' \/ store'[h] = None,
         \A r \in Requests : pc'[r] \in {pc[r], "lost"}
  PROVE  Inv'
<1> USE DEF Inv
<1>1. \A p \in Requests : answer[p] # None => answer[p].handle \in Handles \cup {None}
  BY DEF TypeOK, Answer
<1>2. StoredUnmarked'
  <2>1. ASSUME NEW h \in Handles, store'[h] # None PROVE store'[h] = store[h]
    BY <2>1
  <2> QED
    BY <2>1 DEF StoredUnmarked
<1>3. Staged'
  BY DEF Staged
<1>4. Held'
  BY DEF Held
<1>5. HandlesBorn'
  BY HandleParts DEF HandlesBorn, Born, TypeOK
<1>6. RemovalArranged'
  BY <1>1 DEF RemovalArranged
<1> QED
  BY <1>2, <1>3, <1>4, <1>5, <1>6

LEMMA OutsideInv ==
  ASSUME Inv,
         \/ \E h \in Handles : Removed(h) \/ RemovalFails(h)
         \/ \E lost \in SUBSET removing : Crash(lost)
  PROVE  Inv'
<1> USE DEF Inv
<1>1. ASSUME NEW h \in Handles, Removed(h) PROVE Inv'
  <2>1. TypeOK'
    BY <1>1 DEF Removed, carried, own, TypeOK
  <2> QED
    BY <1>1, <2>1, StoreSideInv DEF Removed, carried, own, TypeOK
<1>2. ASSUME NEW h \in Handles, RemovalFails(h) PROVE Inv'
  <2>1. TypeOK'
    BY <1>2 DEF RemovalFails, carried, own, TypeOK
  <2> QED
    BY <1>2, <2>1, StoreSideInv DEF RemovalFails, carried, own, TypeOK
<1>3. ASSUME NEW lost \in SUBSET removing, Crash(lost) PROVE Inv'
  <2>1. TypeOK'
    BY <1>3 DEF Crash, carried, own, TypeOK
  <2> QED
    BY <1>3, <2>1, StoreSideInv DEF Crash, carried, own, TypeOK
<1> QED
  BY <1>1, <1>2, <1>3

\* An update leaves the transaction under its handle, and if the store no longer had
\* it this is a revival; or it gives it one that no answer can name.
LEMMA UpdateInv ==
  ASSUME Inv, NEW r \in Requests, Update(r)
  PROVE  Inv'
<1> DEFINE t == txnID[r]
<1>1. CASE Only(r, "update", "error")
  BY <1>1, OnlyInv DEF Stages
<1>2. CASE ~Only(r, "update", "error")
  <2> USE DEF Inv
  <2>1. PICK h \in {t} \cup (({t[1]} \X (0..MaxUpdates)) \ given) :
          /\ store' = [store EXCEPT ![t] = None, ![h] = oauth2[r]]
          /\ given' = given \cup {h}
          /\ revived' = IF store[t] = None THEN revived \cup {h} ELSE revived
          /\ txnID' = [txnID EXCEPT ![r] = h]
    BY <1>2 DEF Update
  <2>2. /\ pc[r] = "update" /\ pc' = [pc EXCEPT ![r] = "dialog"]
        /\ UNCHANGED <<mount, removing, failed, kind, presented, oauth2, proxied,
                       answer>>
    BY <1>2 DEF Update, Goto, carried
  <2>3. oauth2[r] \in Txn /\ oauth2[r] # None /\ ~oauth2[r].endProxied
        /\ t \in Handles /\ t \in given
    BY <2>2 DEF Staged, TypeOK, Held
  <2>4. h \in Handles /\ h[1] = t[1] /\ h # None /\ t[1] \in Requests
        /\ (h = t \/ h \notin given)
    BY <2>1, <2>3, HandleParts DEF Handles
  <2> HIDE DEF t
  <2>5. /\ store'[h] = oauth2[r]
        /\ \A g \in Handles \ {h} : store'[g] # None => store'[g] = store[g]
        /\ txnID'[r] = h /\ \A p \in Requests \ {r} : txnID'[p] = txnID[p]
        /\ pc'[r] = "dialog" /\ \A p \in Requests \ {r} : pc'[p] = pc[p]
    BY <2>1, <2>2, <2>3, <2>4 DEF TypeOK
  <2>6. TypeOK'
    BY <2>1, <2>2, <2>3, <2>4 DEF TypeOK, Stages
  <2>7. StoredUnmarked'
    BY <2>3, <2>5 DEF StoredUnmarked
  <2>8. Staged'
    BY <2>2, <2>3, <2>4, <2>5 DEF Staged
  <2>9. Held'
    BY <2>1, <2>2, <2>4, <2>5 DEF Held, TypeOK
  <2>10. HandlesBorn'
    <3>1. ASSUME NEW f \in Handles, Born(f) PROVE Born(f)'
      BY <3>1, <2>2, <2>5, HandleParts DEF Born
    <3>2. Born(t)
      BY <2>3 DEF HandlesBorn
    <3>3. Born(h)'
      BY <3>1, <3>2, <2>3, <2>4 DEF Born
    <3> QED
      BY <3>1, <3>3, <2>1 DEF HandlesBorn, TypeOK
  <2>11. RemovalArranged'
    <3>1. ASSUME NEW p \in Requests, answer[p] # None, answer[p].handle # None,
                 answer[p].kind \in {"decided", "error"},
                 store'[answer[p].handle] # None
          PROVE  answer[p].handle \in removing \cup failed \cup revived'
      <4> DEFINE a == answer[p].handle
      <4>1. /\ a \in Handles /\ a \in given
            /\ store[a] # None => a \in removing \cup failed \cup revived
        BY <3>1 DEF RemovalArranged, Held, TypeOK
      <4>2. CASE a = h
        BY <4>1, <4>2, <2>1, <2>4
      <4>3. CASE a # h
        BY <4>1, <4>3, <3>1, <2>1, <2>5
      <4> QED
        BY <4>2, <4>3
    <3> QED
      BY <3>1, <2>2 DEF RemovalArranged
  <2> QED
    BY <2>6, <2>7, <2>8, <2>9, <2>10, <2>11
<1> QED
  BY <1>1, <1>2

LEMMA LoadInv ==
  ASSUME Inv, NEW r \in Requests, Load(r) \/ ReloadForError(r)
  PROVE  Inv'
<1>1. CASE LoadFails(r, "load", "error")
  BY <1>1, LoadErrorInv DEF LoadFails
<1>2. CASE LoadSucceeds(r, "load", IF kind[r] = "resume" THEN "resume" ELSE "decide")
  <2>1. oauth2[r] = None
    BY <1>2 DEF LoadSucceeds, Goto, Inv, Staged
  <2> QED
    BY <1>2, <2>1, LoadSucceedsInv
<1>3. CASE ReloadForError(r)
  <2>1. CASE Only(r, "error", "errorRespond") \/ LoadFails(r, "error", "errorRespond")
    BY <2>1, OnlyInv DEF LoadFails, Stages
  <2>2. CASE oauth2[r] = None /\ LoadSucceeds(r, "error", "errorRespond")
    BY <2>2, LoadSucceedsInv
  <2> QED
    BY <1>3, <2>1, <2>2 DEF ReloadForError
<1> QED
  BY <1>1, <1>2, <1>3 DEF Load

LEMMA StepInv == Inv /\ [Next]_vars => Inv'
<1> SUFFICES ASSUME Inv, [Next]_vars PROVE Inv'
  OBVIOUS
<1>1. ASSUME NEW r \in Requests, Step(r) PROVE Inv'
  <2>1. CASE Validated(r) \/ Store(r) \/ Load(r) \/ ReloadForError(r) \/ Update(r)
    BY <2>1, ValidatedInv, StoreInv, LoadInv, UpdateInv
  <2>2. CASE Dialog(r) \/ Respond(r)
    <3>1. CASE Only(r, "dialog", "error")
      BY <3>1, OnlyInv DEF Stages
    <3>2. CASE Only(r, "respond", "error")
      BY <3>2, OnlyInv DEF Stages
    <3> QED
      BY <2>2, <3>1, <3>2, EndInv DEF Dialog, Respond
  <2>3. CASE Resume(r) \/ Decide(r)
    <3>1. ASSUME NEW to \in {"error", "update"}, Only(r, "resume", to) PROVE Inv'
      BY <3>1, OnlyInv DEF Stages
    <3>2. CASE Only(r, "decide", "error")
      BY <3>2, OnlyInv DEF Stages
    <3> QED
      BY <2>3, <3>1, <3>2, SettleInv DEF Resume, Decide
  <2>4. CASE UnhandledError(r) \/ RespondError(r)
    BY <2>4, EndInv
  <2> QED
    BY <1>1, <2>1, <2>2, <2>3, <2>4 DEF Step
<1>2. CASE UNCHANGED vars
  BY <1>2 DEF vars, outside, carried, own, Inv, TypeOK, StoredUnmarked, Staged,
              Held, HandlesBorn, Born, RemovalArranged
<1> QED
  BY <1>1, <1>2, ReceiveInv, OutsideInv DEF Next

\* The types, for any number of requests and updates.
THEOREM StoreTypesKept == Spec => []TypeOK
<1>1. Spec => []Inv
  BY InitInv, StepInv, PTL DEF Spec
<1> QED
  BY <1>1, PTL DEF Inv

\* What the store is handed by authorization.js and resume.js never carries the
\* mark that authorizationErrorHandler.js:9 takes for a removal under way.
THEOREM MarkNeverStored == Spec => []StoredUnmarked
<1>1. Spec => []Inv
  BY InitInv, StepInv, PTL DEF Spec
<1> QED
  BY <1>1, PTL DEF Inv

\* However requests overlap and wherever the process stops, the removal has been
\* sent before the answer of decision.js:103-115, resume.js:40-52 or the error
\* handler, and what is gone comes back by one way alone: the update of resume.js:86
\* that the store carries out on a transaction it no longer has.
THEOREM RemovalPrecedesAnswer == Spec => []RemovalArranged
<1>1. Spec => []Inv
  BY InitInv, StepInv, PTL DEF Spec
<1> QED
  BY <1>1, PTL DEF Inv
-----------------------------------------------------------------------------
(* Over a reliable store that carries out a removal before later loads, the    *)
(* endpoint implements TransactionLifecycle, as long as requests that overlap  *)
(* act on different transactions; let alone when they do not overlap.          *)

\* A handle tells which transaction it stands for, and a transaction that is in
\* the store, or was answered, is one that its own request has opened.
Openers ==
  /\ \A h \in Handles :
       store[h] # None => /\ store[h].opener = h[1]
                          /\ txnID[h[1]] # None /\ kind[h[1]] = "authorization"
  /\ \A h \in removing : Born(h)
  /\ \A r \in Requests :
       /\ oauth2[r] # None =>
            oauth2[r].opener = IF txnID[r] = None THEN r ELSE txnID[r][1]
       /\ kind[r] = "authorization" => presented[r] = None
       /\ pc[r] \in {"validate", "store"} => kind[r] = "authorization"
       /\ answer[r] # None => pc[r] = "done"
  /\ \A t \in Requests : Answered(t) => pc[t] = "done" \/ txnID[t] # None

\* The store has the transaction a request has in hand, which is the one it acts
\* on, and nobody is about to remove it.
InHand ==
  \A r \in InFlight :
    txnID[r] # None => /\ txnID[r][1] = ActsOn(r)
                       /\ store[txnID[r]] # None
                       /\ \A h \in removing : h[1] # txnID[r][1]

\* The store has a transaction under one handle only.
OneHandle ==
  \A g, h \in Handles :
    store[g] # None /\ store[h] # None /\ g[1] = h[1] => g = h

ApartInv == Openers /\ InHand /\ OneHandle

LEMMA ApartInit == Init => ApartInv
  BY StoreAssumption
     DEF Init, ApartInv, Openers, InHand, OneHandle, InFlight, Stages, Answered,
         ToClient, Born

\* The request that is being served goes on with what it has.
LEMMA ApartMoves ==
  ASSUME Inv, ApartInv, NEW r \in Requests, NEW q \in Stages, pc[r] \in Stages,
         pc' = [pc EXCEPT ![r] = q],
         q \in {"validate", "store"} => pc[r] = "validate",
         UNCHANGED <<store, removing, kind, presented, txnID, answer>>,
         \A p \in Requests \ {r} : oauth2'[p] = oauth2[p],
         oauth2'[r] # None =>
           oauth2'[r].opener = IF txnID[r] = None THEN r ELSE txnID[r][1]
  PROVE  ApartInv'
<1> USE DEF Inv, TypeOK
<1>1. InFlight' = InFlight
  BY DEF InFlight
<1>2. /\ \A t \in Requests : /\ pc'[t] \in {"validate", "store"} =>
                                  kind[t] = "authorization"
                             /\ pc[t] = "done" => pc'[t] = "done"
      /\ \A h \in Handles : Born(h) => Born(h)'
  BY HandleParts DEF ApartInv, Openers, Stages, Born
<1>3. Openers'
  <2>1. \A t \in Requests : Answered(t)' <=> Answered(t)
    BY DEF Answered, ToClient
  <2> QED BY <1>2, <2>1 DEF ApartInv, Openers
<1> QED BY <1>1, <1>3 DEF ApartInv, InHand, OneHandle, ActsOn

\* It gets a transaction in its hands, under a handle that nobody is removing.
LEMMA ApartHolds ==
  ASSUME Inv, Apart, ApartInv, NEW r \in Requests, pc[r] \in Stages,
         NEW q \in Stages \ {"validate", "store"}, pc' = [pc EXCEPT ![r] = q],
         NEW h \in Handles, txnID' = [txnID EXCEPT ![r] = h],
         store'[h] # None, store'[h].opener = h[1],
         kind[h[1]] = "authorization", h[1] = r \/ txnID[h[1]] # None,
         h[1] = ActsOn(r),
         \A g \in Handles \ {h} :
           IF g[1] = h[1] THEN store'[g] = None ELSE store'[g] = store[g],
         \A g \in removing : g[1] # h[1],
         oauth2'[r].opener = h[1],
         \A p \in Requests \ {r} : oauth2'[p] = oauth2[p],
         UNCHANGED <<removing, kind, presented, answer>>
  PROVE  ApartInv'
<1> USE DEF Inv, TypeOK
<1>1. InFlight' = InFlight /\ h # None
  BY HandleParts DEF InFlight
<1>2. /\ \A t \in Requests : /\ pc'[t] \in {"validate", "store"} =>
                                  kind[t] = "authorization"
                             /\ pc[t] = "done" => pc'[t] = "done"
      /\ \A g \in Handles : Born(g) => Born(g)'
  BY HandleParts DEF ApartInv, Openers, Stages, Born
<1>3. Openers'
  <2>1. \A t \in Requests : Answered(t)' <=> Answered(t)
    BY DEF Answered, ToClient
  <2>2. \A t \in Requests : txnID[t] # None \/ t = r => txnID'[t] # None
    BY <1>1
  <2>3. \A g \in Handles :
          store'[g] # None => /\ store'[g].opener = g[1]
                              /\ txnID'[g[1]] # None
                              /\ kind[g[1]] = "authorization"
    BY <2>2, HandleParts DEF ApartInv, Openers
  <2>4. \A p \in Requests :
          oauth2'[p] # None =>
            oauth2'[p].opener = IF txnID'[p] = None THEN p ELSE txnID'[p][1]
    BY <1>1 DEF ApartInv, Openers
  <2>5. \A p \in Requests :
          /\ kind[p] = "authorization" => presented[p] = None
          /\ answer[p] # None => pc'[p] = "done"
    BY <1>2 DEF ApartInv, Openers
  <2>6. \A t \in Requests : Answered(t) => pc'[t] = "done" \/ txnID'[t] # None
    BY <1>2, <2>2 DEF ApartInv, Openers
  <2>7. \A g \in removing : Born(g)'
    BY <1>2 DEF ApartInv, Openers
  <2> QED BY <1>2, <2>1, <2>3, <2>4, <2>5, <2>6, <2>7 DEF Openers
<1>4. InHand'
  <2>1. \A p \in Requests : ActsOn(p)' = ActsOn(p)
    BY DEF ActsOn
  <2>2. ASSUME NEW p \in InFlight \ {r}, txnID[p] # None
        PROVE  /\ txnID[p][1] = ActsOn(p) /\ store'[txnID[p]] # None
               /\ \A g \in removing : g[1] # txnID[p][1]
    <3>1. p \in Requests /\ r \in InFlight /\ txnID[p] \in Handles
      BY <2>2 DEF InFlight
    <3>2. /\ txnID[p][1] = ActsOn(p) /\ store[txnID[p]] # None
          /\ \A g \in removing : g[1] # txnID[p][1]
      BY <2>2 DEF ApartInv, InHand
    <3>3. txnID[p][1] # h[1]
      BY <2>2, <3>1, <3>2 DEF Apart
    <3> QED BY <3>1, <3>2, <3>3
  <2>3. /\ txnID'[r] = h /\ h[1] = ActsOn(r)
        /\ \A p \in Requests \ {r} : txnID'[p] = txnID[p]
    OBVIOUS
  <2> QED BY <1>1, <2>1, <2>2, <2>3 DEF InHand, InFlight
<1>5. OneHandle'
  BY DEF ApartInv, OneHandle
<1> QED BY <1>3, <1>4, <1>5 DEF ApartInv

LEMMA ApartStores ==
  ASSUME Inv, Apart, ApartInv, NEW r \in Requests, Store(r)
  PROVE  ApartInv'
<1> USE DEF Inv, TypeOK
<1>1. CASE Only(r, "store", "error")
  BY <1>1, ApartMoves DEF Only, Goto, Stages, outside, carried, own, ApartInv, Openers
<1>2. CASE ~Only(r, "store", "error")
  <2> DEFINE h == <<r, 0>>
  <2>1. /\ pc[r] = "store" /\ pc' = [pc EXCEPT ![r] = "dialog"]
        /\ store' = [store EXCEPT ![h] = oauth2[r]]
        /\ txnID' = [txnID EXCEPT ![r] = h]
        /\ UNCHANGED <<removing, kind, presented, oauth2, answer>>
    BY <1>2 DEF Store, Goto, carried
  <2>2. h \in Handles /\ h[1] = r
    BY HandleParts, StoreAssumption
  <2>3. oauth2[r] # None /\ txnID[r] = None
    BY <2>1 DEF Staged
  <2>4. oauth2[r].opener = r /\ kind[r] = "authorization" /\ ActsOn(r) = r
    BY <2>1, <2>3 DEF ApartInv, Openers, ActsOn
  <2>5. \A g \in removing : g[1] # r
    BY <2>1, HandleParts DEF ApartInv, Openers, Born
  <2> HIDE DEF h
  <2>6. store'[h] = oauth2[r] /\ \A g \in Handles \ {h} : store'[g] = store[g]
    BY <2>1, <2>2
  <2> HIDE DEF Inv, TypeOK
  <2>7. store'[h] # None /\ store'[h].opener = h[1] /\ h[1] = ActsOn(r)
    BY <2>2, <2>3, <2>4, <2>6
  <2>8. kind[h[1]] = "authorization" /\ oauth2'[r].opener = h[1]
    BY <2>1, <2>2, <2>4
  <2>9. /\ pc[r] \in Stages /\ "dialog" \in Stages \ {"validate", "store"}
        /\ \A g \in removing : g[1] # h[1]
        /\ \A p \in Requests \ {r} : oauth2'[p] = oauth2[p]
    BY <2>1, <2>2, <2>5, <2>6 DEF Stages
  <2>10. \A g \in Handles \ {h} :
           IF g[1] = h[1] THEN store'[g] = None ELSE store'[g] = store[g]
    BY <2>1, <2>2, <2>6 DEF Inv, Held, HandlesBorn, Born
  <2> QED BY <2>1, <2>2, <2>7, <2>8, <2>9, <2>10, ApartHolds
<1> QED BY <1>1, <1>2

LEMMA ApartUpdates ==
  ASSUME Inv, Apart, ApartInv, NEW r \in Requests, Update(r)
  PROVE  ApartInv'
<1> USE DEF Inv, TypeOK
<1>1. CASE Only(r, "update", "error")
  BY <1>1, ApartMoves DEF Only, Goto, Stages, outside, carried, own, ApartInv, Openers
<1>2. CASE ~Only(r, "update", "error")
  <2>1. PICK h \in {txnID[r]} \cup ({txnID[r][1]} \X (0..MaxUpdates)) :
          /\ store' = [store EXCEPT ![txnID[r]] = None, ![h] = oauth2[r]]
          /\ txnID' = [txnID EXCEPT ![r] = h]
    BY <1>2 DEF Update
  <2>2. /\ pc[r] = "update" /\ pc' = [pc EXCEPT ![r] = "dialog"]
        /\ UNCHANGED <<removing, kind, presented, oauth2, answer>>
    BY <1>2 DEF Update, Goto, carried
  <2>3. oauth2[r] # None /\ txnID[r] \in Handles /\ txnID[r] # None
    BY <2>2 DEF Staged
  <2>4. h \in Handles /\ h[1] = txnID[r][1]
    BY <2>1, <2>3, HandleParts DEF Handles
  <2>5. /\ oauth2[r].opener = h[1] /\ store[txnID[r]] # None /\ h[1] = ActsOn(r)
        /\ kind[h[1]] = "authorization" /\ txnID[h[1]] # None
        /\ \A g \in removing : g[1] # h[1]
    BY <2>2, <2>3, <2>4 DEF ApartInv, Openers, InHand, InFlight, Stages
  <2>6. /\ store'[h] = oauth2[r]
        /\ \A g \in Handles \ {h} :
             IF g[1] = h[1] THEN store'[g] = None ELSE store'[g] = store[g]
    BY <2>1, <2>3, <2>4, <2>5 DEF ApartInv, OneHandle
  <2> HIDE DEF Inv, TypeOK
  <2>7. /\ store'[h] # None /\ store'[h].opener = h[1]
        /\ oauth2'[r].opener = h[1]
        /\ \A p \in Requests \ {r} : oauth2'[p] = oauth2[p]
    BY <2>2, <2>3, <2>5, <2>6
  <2>8. pc[r] \in Stages /\ "dialog" \in Stages \ {"validate", "store"}
    BY <2>2 DEF Stages
  <2> QED BY <2>1, <2>2, <2>4, <2>5, <2>6, <2>7, <2>8, ApartHolds
<1> QED BY <1>1, <1>2

\* Only what a resume or a decision presents is loaded, and never while a removal
\* is under way.
LEMMA ApartLoads ==
  ASSUME Ordered, Inv, Apart, ApartInv, NEW r \in Requests,
         NEW from \in {"load", "error"},
         NEW to \in {"resume", "decide", "errorRespond"}, LoadSucceeds(r, from, to)
  PROVE  ApartInv'
<1> USE DEF Inv, TypeOK
<1>1. /\ pc[r] = from /\ pc' = [pc EXCEPT ![r] = to]
      /\ presented[r] # None /\ store[presented[r]] # None
      /\ removing = {}
      /\ oauth2' = [oauth2 EXCEPT ![r] = store[presented[r]]]
      /\ txnID' = [txnID EXCEPT ![r] = presented[r]]
      /\ UNCHANGED <<store, removing, kind, presented, answer>>
  BY DEF LoadSucceeds, Goto, outside, carried
<1>2. presented[r] \in Handles
  BY <1>1
<1>3. /\ store[presented[r]].opener = presented[r][1]
      /\ kind[presented[r][1]] = "authorization" /\ txnID[presented[r][1]] # None
  BY <1>1, <1>2 DEF ApartInv, Openers
<1>4. oauth2'[r] = store[presented[r]] /\ \A p \in Requests \ {r} : oauth2'[p] = oauth2[p]
  BY <1>1
<1>5. presented[r][1] = ActsOn(r)
  BY <1>1 DEF ActsOn
<1> DEFINE h == presented[r]
<1>6. h \in Handles /\ txnID' = [txnID EXCEPT ![r] = h] /\ h[1] = ActsOn(r)
  BY <1>1, <1>2, <1>5
<1>7. /\ store'[h] # None /\ store'[h].opener = h[1]
      /\ oauth2'[r].opener = h[1]
      /\ kind[h[1]] = "authorization" /\ txnID[h[1]] # None
      /\ \A g \in Handles \ {h} :
           IF g[1] = h[1] THEN store'[g] = None ELSE store'[g] = store[g]
      /\ \A g \in removing : g[1] # h[1]
  BY <1>1, <1>2, <1>3, <1>4 DEF ApartInv, OneHandle
<1>8. pc[r] \in Stages /\ to \in Stages \ {"validate", "store"}
  BY <1>1 DEF Stages
<1> HIDE DEF Inv, TypeOK, h
<1> QED BY <1>1, <1>4, <1>6, <1>7, <1>8, ApartHolds

\* What the end of a response answers for, and what it removes.
Concludes(r, removes, k) ==
  /\ pc[r] \in Stages \ {"validate", "store", "load"}
  /\ pc' = [pc EXCEPT ![r] = "done"]
  /\ removing' = IF removes THEN removing \cup {txnID[r]} ELSE removing
  /\ UNCHANGED <<store, kind, presented, oauth2, txnID>>
  /\ removes => txnID[r] # None
  /\ k \in {"decided", "error"} => oauth2[r] # None /\ (txnID[r] # None => removes)
  /\ answer'[r] # None /\ \A q \in Requests \ {r} : answer'[q] = answer[q]
  /\ answered' = answered \cup
       (IF k \in {"decided", "error"} THEN {<<oauth2[r].opener, r>>} ELSE {})
  /\ \A t \in Requests :
       Answered(t)' <=>
           Answered(t) \/ (k \in {"decided", "error"} /\ t = oauth2[r].opener)

LEMMA FinishConcludes ==
  ASSUME Inv, ApartInv, NEW r \in Requests,
         NEW from \in Stages \ {"validate", "store", "load"}, NEW removes,
         NEW k \in {"decided", "error", "dialog", "page"},
         Finish(r, from, removes, k),
         removes => txnID[r] # None,
         k \in {"decided", "error"} => oauth2[r] # None /\ (txnID[r] # None => removes)
  PROVE  Concludes(r, removes, k)
<1> DEFINE ans == [kind |-> k, handle |-> txnID[r],
                   opener |-> IF oauth2[r] = None THEN None ELSE oauth2[r].opener]
<1> USE DEF Inv, TypeOK
<1>1. /\ pc[r] = from /\ pc' = [pc EXCEPT ![r] = "done"]
      /\ answer' = [answer EXCEPT ![r] = ans]
      /\ removing' = IF removes THEN removing \cup {txnID[r]} ELSE removing
      /\ UNCHANGED <<store, kind, presented, oauth2, txnID>>
  BY DEF Finish, Goto, carried, own
<1>2. ans # None
  BY StoreAssumption DEF Answer, Txn
<1>3. answer[r] = None
  BY <1>1 DEF ApartInv, Openers, Stages
<1>4. ans.kind = k /\ ans.opener = IF oauth2[r] = None THEN None ELSE oauth2[r].opener
  OBVIOUS
<1> HIDE DEF ans
<1>5. answer'[r] = ans /\ \A q \in Requests \ {r} : answer'[q] = answer[q]
  BY <1>1
<1>6. \A q \in Requests : ToClient(q)' <=>
        IF q = r THEN k \in {"decided", "error"} ELSE ToClient(q)
  BY <1>2, <1>4, <1>5 DEF ToClient
<1>7. {q \in Requests : ToClient(q)}' =
        {q \in Requests : ToClient(q)} \cup (IF k \in {"decided", "error"} THEN {r} ELSE {})
  BY <1>3, <1>6 DEF ToClient
<1>8. answered' = answered \cup
        (IF k \in {"decided", "error"} THEN {<<oauth2[r].opener, r>>} ELSE {})
  <2>1. CASE k \in {"decided", "error"}
    BY <1>3, <1>4, <1>5, <1>7, <2>1 DEF answered, ToClient
  <2>2. CASE k \notin {"decided", "error"}
    BY <1>3, <1>5, <1>7, <2>2 DEF answered, ToClient
  <2> QED BY <2>1, <2>2
<1>9. \A t \in Requests :
        Answered(t)' <=>
           Answered(t) \/ (k \in {"decided", "error"} /\ t = oauth2[r].opener)
  BY <1>3, <1>4, <1>5, <1>6 DEF Answered, ToClient
<1> QED BY <1>1, <1>2, <1>5, <1>8, <1>9 DEF Concludes

Ends(r) ==
  \E removes \in BOOLEAN, k \in {"decided", "error", "dialog", "page"} :
    Concludes(r, removes, k)

LEMMA EndConcludes ==
  ASSUME Inv, ApartInv, NEW r \in Requests,
         \/ Finish(r, "dialog", proxied[r], "dialog")
         \/ Finish(r, "respond", proxied[r], "decided")
         \/ UnhandledError(r) \/ RespondError(r)
  PROVE  Ends(r)
<1> USE DEF Inv, TypeOK
<1>1. proxied[r] \in BOOLEAN /\ (proxied[r] => txnID[r] # None)
  BY DEF Staged
<1>2. CASE Finish(r, "dialog", proxied[r], "dialog")
  BY <1>1, <1>2, FinishConcludes DEF Stages, Ends
<1>3. CASE Finish(r, "respond", proxied[r], "decided")
  <2>1. oauth2[r] # None /\ (txnID[r] # None => proxied[r])
    BY <1>3 DEF Finish, Goto, Staged
  <2> QED BY <1>1, <1>3, <2>1, FinishConcludes DEF Stages, Ends
<1>4. CASE UnhandledError(r)
  BY <1>1, <1>4, FinishConcludes DEF UnhandledError, Stages, Ends
<1>5. CASE RespondError(r)
  <2> DEFINE removes == proxied[r] \/ (oauth2[r] # None /\ txnID[r] # None
                                       /\ ~oauth2[r].endProxied)
  <2>1. PICK k \in {"page"} \cup (IF oauth2[r] = None THEN {} ELSE {"error"}) :
          Finish(r, "errorRespond", removes, k)
    BY <1>5 DEF RespondError
  <2>2. k \in {"decided", "error"} => oauth2[r] # None /\ (txnID[r] # None => removes)
    BY <2>1 DEF Finish, Goto, Staged
  <2>3. /\ removes \in BOOLEAN /\ (removes => txnID[r] # None)
        /\ k \in {"decided", "error", "dialog", "page"}
    BY <1>1, <2>1
  <2> HIDE DEF removes
  <2> QED BY <2>1, <2>2, <2>3, FinishConcludes DEF Stages, Ends
<1> QED BY <1>2, <1>3, <1>4, <1>5

LEMMA ApartEnds ==
  ASSUME Inv, Apart, ApartInv, NEW r \in Requests, Ends(r)
  PROVE  ApartInv'
<1> USE DEF Inv, TypeOK
<1>1. PICK removes \in BOOLEAN, k \in {"decided", "error", "dialog", "page"} :
        Concludes(r, removes, k)
  BY DEF Ends
<1>2. r \in InFlight /\ InFlight' = InFlight \ {r}
  BY <1>1 DEF Concludes, InFlight, Stages
<1>3. /\ pc'[r] = "done" /\ \A t \in Requests : pc'[t] \in {pc[t], "done"}
      /\ \A t \in Requests : pc[t] = "done" => pc'[t] = "done"
      /\ \A h \in Handles : Born(h) => Born(h)'
  BY <1>1, HandleParts DEF Concludes, Born
<1>4. Openers'
  <2>1. \A h \in removing' : Born(h)'
    BY <1>1, <1>3, HandleParts DEF Concludes, HandlesBorn, Held, ApartInv, Openers
  <2>2. \A t \in Requests : Answered(t)' => pc'[t] = "done" \/ txnID'[t] # None
    <3>1. ASSUME NEW t, k \in {"decided", "error"}, t = oauth2[r].opener
          PROVE  pc'[t] = "done" \/ txnID'[t] # None
      <4>1. CASE txnID[r] = None
        BY <1>1, <1>3, <3>1, <4>1 DEF Concludes, ApartInv, Openers
      <4>2. CASE txnID[r] # None
        <5>1. t = txnID[r][1] /\ store[txnID[r]] # None
          BY <1>1, <3>1, <4>2
             DEF Concludes, ApartInv, Openers, InHand, InFlight
        <5> QED BY <1>1, <4>2, <5>1 DEF Concludes, ApartInv, Openers
      <4> QED BY <4>1, <4>2
    <3> QED BY <1>1, <1>3, <3>1 DEF Concludes, ApartInv, Openers
  <2> QED BY <1>1, <1>3, <2>1, <2>2 DEF Concludes, ApartInv, Openers
<1>5. InHand'
  <2> SUFFICES ASSUME NEW p \in InFlight \ {r}, txnID[p] # None
               PROVE  /\ txnID[p][1] = ActsOn(p) /\ store[txnID[p]] # None
                      /\ \A g \in removing' : g[1] # txnID[p][1]
    BY <1>1, <1>2 DEF InHand, Concludes, ActsOn
  <2>1. /\ txnID[p][1] = ActsOn(p) /\ store[txnID[p]] # None
        /\ \A g \in removing : g[1] # txnID[p][1]
    BY DEF ApartInv, InHand
  <2>2. txnID[r] # None => txnID[r][1] # txnID[p][1]
    BY <1>2, <2>1 DEF ApartInv, InHand, Apart
  <2> QED BY <1>1, <2>1, <2>2 DEF Concludes
<1>6. OneHandle'
  BY <1>1 DEF Concludes, ApartInv, OneHandle
<1> QED BY <1>4, <1>5, <1>6 DEF ApartInv

\* Every step of a request keeps the invariant.  But for Ends, it does not touch
\* the answers or the removals.
LEMMA ApartStep ==
  ASSUME Ordered, Inv, Apart, ApartInv, NEW r \in Requests, Step(r)
  PROVE  ApartInv' /\ (Ends(r) \/ UNCHANGED <<removing, kind, answer>>)
<1> USE DEF Inv, TypeOK
<1>1. ASSUME NEW from \in Stages, NEW to \in Stages \ {"validate", "store"},
             Only(r, from, to)
      PROVE  ApartInv' /\ UNCHANGED <<removing, kind, answer>>
  <2>1. /\ pc[r] = from /\ pc' = [pc EXCEPT ![r] = to]
        /\ UNCHANGED <<store, removing, kind, presented, oauth2, txnID, answer>>
    BY <1>1 DEF Only, Goto, outside, carried, own
  <2> QED BY <2>1, ApartMoves DEF ApartInv, Openers
<1>2. CASE Validated(r) /\ ~Only(r, "validate", "error")
  <2> DEFINE txn == [opener |-> r, endProxied |-> FALSE]
  <2>1. /\ pc[r] = "validate" /\ oauth2' = [oauth2 EXCEPT ![r] = txn]
        /\ UNCHANGED <<store, removing, kind, presented, txnID, answer>>
    BY <1>2 DEF Validated, Goto, outside, carried
  <2>2. PICK to \in {"error", "store", "respond"} : pc' = [pc EXCEPT ![r] = to]
    BY <1>2 DEF Validated, Goto
  <2>3. txnID[r] = None /\ txn.opener = r
    BY <2>1 DEF Staged
  <2> HIDE DEF txn
  <2>4. oauth2'[r] = txn /\ \A p \in Requests \ {r} : oauth2'[p] = oauth2[p]
    BY <2>1
  <2>5. pc[r] \in Stages /\ to \in Stages
    BY <2>1 DEF Stages
  <2> HIDE DEF Inv, TypeOK
  <2>6. /\ oauth2'[r] # None =>
             oauth2'[r].opener = IF txnID[r] = None THEN r ELSE txnID[r][1]
        /\ to \in {"validate", "store"} => pc[r] = "validate"
        /\ \A p \in Requests \ {r} : oauth2'[p] = oauth2[p]
    BY <2>1, <2>3, <2>4
  <2>7. ApartInv'
    BY <2>1, <2>2, <2>5, <2>6, ApartMoves
  <2> QED BY <2>1, <2>7
<1>3. ASSUME NEW from \in {"resume", "decide"}, Settle(r, from)
      PROVE  ApartInv' /\ UNCHANGED <<removing, kind, answer>>
  <2>1. /\ pc[r] = from /\ pc' = [pc EXCEPT ![r] = "respond"]
        /\ oauth2' = [oauth2 EXCEPT ![r] = [@ EXCEPT !.endProxied = TRUE]]
        /\ UNCHANGED <<store, removing, kind, presented, txnID, answer>>
    BY <1>3 DEF Settle, Goto, Mark, outside, carried
  <2>2. oauth2[r] # None /\ oauth2[r] \in Txn
    BY <2>1 DEF Staged
  <2>3. /\ oauth2'[r].opener = oauth2[r].opener
        /\ \A p \in Requests \ {r} : oauth2'[p] = oauth2[p]
    BY <2>1, <2>2 DEF Txn
  <2>4. oauth2[r].opener = IF txnID[r] = None THEN r ELSE txnID[r][1]
    BY <2>2 DEF ApartInv, Openers
  <2> HIDE DEF Inv, TypeOK
  <2> QED BY <2>1, <2>3, <2>4, ApartMoves DEF Stages
<1>4. CASE Store(r)
  BY <1>4, ApartStores DEF Store, Only, outside, carried
<1>5. CASE Update(r)
  BY <1>5, ApartUpdates DEF Update, Only, outside, carried
<1>6. ASSUME NEW from \in {"load", "error"},
             NEW to \in {"resume", "decide", "errorRespond"}, LoadSucceeds(r, from, to)
      PROVE  ApartInv' /\ UNCHANGED <<removing, kind, answer>>
  BY <1>6, ApartLoads DEF LoadSucceeds, outside, carried
<1>7. CASE Dialog(r) \/ Respond(r) \/ UnhandledError(r) \/ RespondError(r)
  <2>1. ASSUME Ends(r) PROVE ApartInv'
    BY <2>1, ApartEnds
  <2> QED BY <1>1, <1>7, <2>1, EndConcludes DEF Dialog, Respond, Stages
<1>8. CASE Load(r) \/ ReloadForError(r)
  <2>1. CASE \E to \in {"error", "errorRespond"}, from \in {"load", "error"} :
               LoadFails(r, from, to) \/ Only(r, from, to)
    BY <1>1, <2>1 DEF LoadFails, Stages
  <2>2. CASE \E from \in {"load", "error"}, to \in {"resume", "decide", "errorRespond"} :
               LoadSucceeds(r, from, to)
    BY <1>6, <2>2
  <2> QED BY <1>8, <2>1, <2>2 DEF Load, ReloadForError
<1>9. CASE Resume(r) \/ Decide(r)
  BY <1>1, <1>3, <1>9 DEF Resume, Decide, Stages
<1>10. CASE Only(r, "validate", "error")
  BY <1>1, <1>10 DEF Stages
<1> QED BY <1>2, <1>4, <1>5, <1>7, <1>8, <1>9, <1>10 DEF Step

\* A request that is received has nothing in hand.
LEMMA ApartReceives ==
  ASSUME Inv, ApartInv, NEW r \in Requests, NEW k \in Kinds,
         NEW h \in Handles \cup {None}, Receive(r, k, h)
  PROVE  ApartInv'
<1> USE DEF Inv, TypeOK
<1>2. /\ pc[r] = "idle"
      /\ pc' = [pc EXCEPT ![r] = IF k = "authorization" THEN "validate" ELSE "load"]
      /\ kind' = [kind EXCEPT ![r] = k] /\ presented' = [presented EXCEPT ![r] = h]
      /\ k = "authorization" => h = None
      /\ UNCHANGED <<store, removing, oauth2, txnID, answer>>
  BY DEF Receive, Goto, outside, own
<1>3. InFlight' = InFlight \cup {r} /\ txnID[r] = None
  BY <1>2 DEF InFlight, Stages, Staged
<1>4. \A g \in Handles : store[g] # None \/ Born(g) => g[1] # r
  BY <1>2, HandleParts DEF HandlesBorn, Held, Born
<1>5. \A g \in Handles : Born(g) => Born(g)'
  BY <1>2, <1>4, HandleParts DEF Born
<1>6. Openers'
  <2>1. \A t \in Requests : Answered(t)' <=> Answered(t)
    BY <1>2 DEF Answered, ToClient
  <2>2. \A t \in Requests : pc[t] = "done" => pc'[t] = "done"
    BY <1>2
  <2>3. \A g \in Handles :
          store'[g] # None => /\ store'[g].opener = g[1]
                              /\ txnID'[g[1]] # None /\ kind'[g[1]] = "authorization"
    BY <1>2, <1>4, HandleParts DEF ApartInv, Openers
  <2>4. \A p \in Requests :
          /\ kind'[p] = "authorization" => presented'[p] = None
          /\ pc'[p] \in {"validate", "store"} => kind'[p] = "authorization"
    BY <1>2 DEF ApartInv, Openers
  <2> QED BY <1>2, <1>5, <2>1, <2>2, <2>3, <2>4 DEF ApartInv, Openers
<1> QED BY <1>2, <1>3, <1>6 DEF ApartInv, InHand, OneHandle, InFlight, ActsOn

\* What the store and the process do on their own takes nothing out of the hands
\* of the request that is being served.
LEMMA ApartOutside ==
  ASSUME Reliable, Inv, ApartInv,
         \/ \E h \in Handles : Removed(h) \/ RemovalFails(h)
         \/ \E lost \in SUBSET removing : Crash(lost)
  PROVE  ApartInv' /\ UNCHANGED Lifecycle!vars
<1> USE DEF Inv, TypeOK
<1>1. ASSUME NEW h \in Handles, Removed(h)
      PROVE  ApartInv' /\ UNCHANGED Lifecycle!vars
  <2>1. /\ h \in removing /\ removing' = removing \ {h}
        /\ store' = [store EXCEPT ![h] = None]
        /\ UNCHANGED <<pc, kind, presented, oauth2, txnID, answer>>
    BY <1>1 DEF Removed, carried, own
  <2>2. /\ answered' = answered /\ InFlight' = InFlight
        /\ \A t \in Requests : Answered(t)' <=> Answered(t)
    BY <2>1 DEF answered, Answered, ToClient, InFlight
  <2>3. Openers'
    <3>1. \A g \in Handles : store'[g] # None => store[g] # None /\ store'[g] = store[g]
      BY <2>1
    <3>2. \A g \in Handles : Born(g) => Born(g)'
      BY <2>1 DEF Born
    <3> QED BY <2>1, <2>2, <3>1, <3>2 DEF ApartInv, Openers
  <2>4. InHand'
    BY <2>1, <2>2 DEF ApartInv, InHand, InFlight, ActsOn
  <2>5. OneHandle'
    BY <2>1 DEF ApartInv, OneHandle
  <2>6. status' = status
    <3>1. \A t \in Requests : Pending(t)' <=> Pending(t)
      BY <2>1 DEF Pending
    <3> QED BY <2>1, <2>2, <3>1 DEF status
  <2> QED BY <2>2, <2>3, <2>4, <2>5, <2>6 DEF ApartInv, Lifecycle!vars
<1>2. ASSUME NEW lost \in SUBSET removing, Crash(lost)
      PROVE  ApartInv' /\ UNCHANGED Lifecycle!vars
  <2>1. /\ pc' = [r \in Requests |-> IF r \in InFlight THEN "lost" ELSE pc[r]]
        /\ UNCHANGED <<store, removing, kind, presented, oauth2, txnID, answer>>
    BY <1>2 DEF Crash, carried, own
  <2>2. /\ answered' = answered /\ InFlight' = {}
        /\ \A t \in Requests : Answered(t)' <=> Answered(t)
    BY <2>1 DEF answered, Answered, ToClient, InFlight, Stages
  <2>3. Openers'
    <3>1. \A g \in Handles : Born(g) => Born(g)'
      BY <2>1, HandleParts DEF Born
    <3>2. \A t \in Requests : /\ pc[t] = "done" => pc'[t] = "done"
                              /\ pc'[t] \in {pc[t], "lost"}
      BY <2>1 DEF InFlight, Stages
    <3> QED BY <2>1, <2>2, <3>1, <3>2 DEF ApartInv, Openers
  <2>4. status' = status
    <3>1. \A t \in Requests : Pending(t)' <=> Pending(t)
      BY <2>1 DEF Pending
    <3> QED BY <2>1, <2>2, <3>1 DEF status
  <2> QED BY <2>1, <2>2, <2>3, <2>4 DEF ApartInv, InHand, OneHandle, Lifecycle!vars
<1> QED BY <1>1, <1>2 DEF RemovalFails

LEMMA ApartNext ==
  ASSUME Reliable, Ordered, Inv, Apart, ApartInv, [Next]_vars
  PROVE  ApartInv'
<1>1. CASE UNCHANGED vars
  BY <1>1
     DEF vars, ApartInv, Openers, InHand, OneHandle, ActsOn, InFlight, Answered,
         ToClient, Born
<1> QED BY <1>1, ApartStep, ApartReceives, ApartOutside DEF Next

\* When requests that overlap act on different transactions, the store is reliable
\* and carries out removals before later loads, a request has in its hands what the
\* store has: nobody else updates or removes it, and what it loads is not about to go.
THEOREM ApartCorrect ==
  ASSUME Reliable, Ordered
  PROVE  ApartSpec => [](Inv /\ Apart /\ ApartInv)
<1>1. Init => Inv /\ Apart /\ ApartInv
  BY InitInv, ApartInit DEF Init, Apart, InFlight, Stages
<1>2. ASSUME Inv, Apart, ApartInv, [Next /\ Apart']_vars
      PROVE  (Inv /\ Apart /\ ApartInv)'
  <2>1. [Next]_vars
    BY <1>2
  <2>2. Apart'
    BY <1>2 DEF vars, carried, Apart, InFlight, ActsOn
  <2> QED BY <1>2, <2>1, <2>2, StepInv, ApartNext
<1> QED BY <1>1, <1>2, PTL DEF ApartSpec

\* What the status of a transaction depends on.
LEMMA StatusKept ==
  ASSUME NEW t \in Requests,
         \A h \in Handles : h[1] = t =>
           (store'[h] # None /\ h \notin removing' <=> store[h] # None /\ h \notin removing),
         Answered(t)' <=> Answered(t),
         txnID'[t] # None /\ kind'[t] = "authorization"
           <=> txnID[t] # None /\ kind[t] = "authorization"
  PROVE  status'[t] = status[t]
<1>1. Pending(t)' <=> Pending(t)
  BY DEF Pending
<1> QED BY <1>1 DEF status

\* What a step that moves the status of one transaction has to do.
LEMMA LifecycleSteps ==
  ASSUME NEW t \in Requests, NEW r \in Requests,
         \A u \in Requests \ {t} : status'[u] = status[u],
         status'[t] # status[t] => status[t] # "closed",
         \/ /\ UNCHANGED answered
            /\ \/ status'[t] \in {status[t], "closed"}
               \/ status[t] = "unborn" /\ status'[t] = "pending"
         \/ /\ answered' = answered \cup {<<t, r>>}
            /\ status[t] # "closed" /\ status'[t] = "closed"
  PROVE  Lifecycle!Next \/ UNCHANGED Lifecycle!vars
<1>1. status' = [status EXCEPT ![t] = status'[t]]
  BY DEF status
<1>2. CASE status'[t] = status[t] /\ UNCHANGED answered
  <2>1. status' = status
    BY <1>1, <1>2 DEF status
  <2> QED BY <1>2, <2>1 DEF Lifecycle!vars
<1>3. CASE /\ status[t] = "unborn" /\ status'[t] = "pending"
           /\ UNCHANGED answered
  BY <1>1, <1>3 DEF Lifecycle!Open, Lifecycle!Next
<1>4. CASE /\ status[t] # "closed" /\ status'[t] = "closed"
           /\ UNCHANGED answered
  BY <1>1, <1>4 DEF Lifecycle!Invalidate, Lifecycle!Next
<1>5. CASE /\ status[t] # "closed" /\ status'[t] = "closed"
           /\ answered' = answered \cup {<<t, r>>}
  BY <1>1, <1>5 DEF Lifecycle!Answer, Lifecycle!Next
<1> QED BY <1>2, <1>3, <1>4, <1>5

\* A transaction is opened when it is stored, under its first handle.
LEMMA StoreOpens ==
  ASSUME Inv, ApartInv, NEW r \in Requests, Store(r)
  PROVE  Lifecycle!Next \/ UNCHANGED Lifecycle!vars
<1> USE DEF Inv, TypeOK
<1> DEFINE h == <<r, 0>>
<1>1. /\ pc[r] = "store" /\ UNCHANGED <<kind, removing, answer>>
      /\ \/ UNCHANGED <<store, txnID>>
         \/ /\ store' = [store EXCEPT ![h] = oauth2[r]]
            /\ txnID' = [txnID EXCEPT ![r] = h]
  BY DEF Store, Only, Goto, outside, carried, own
<1>2. h \in Handles /\ h[1] = r /\ h # None
  BY HandleParts, StoreAssumption
<1>3. oauth2[r] # None /\ txnID[r] = None
  BY <1>1 DEF Staged
<1>4. answered' = answered /\ \A t \in Requests : Answered(t)' <=> Answered(t)
  BY <1>1 DEF answered, Answered, ToClient
<1> HIDE DEF h
<1>5. \A t \in Requests \ {r} : status'[t] = status[t]
  <2> SUFFICES ASSUME NEW t \in Requests \ {r} PROVE status'[t] = status[t]
    OBVIOUS
  <2>1. txnID'[t] = txnID[t]
    BY <1>1
  <2>2. \A g \in Handles : g[1] = t => store'[g] = store[g]
    BY <1>1, <1>2
  <2> QED BY <1>1, <1>4, <2>1, <2>2, StatusKept
<1>6. status[r] = "unborn"
  <2>1. ~Pending(r)
    BY <1>3 DEF Pending, ApartInv, Openers
  <2>2. ~Answered(r)
    BY <1>1, <1>3 DEF ApartInv, Openers
  <2> QED BY <1>3, <2>1, <2>2 DEF status
<1>7. CASE UNCHANGED <<store, txnID>>
  <2>1. status'[r] = status[r]
    BY <1>1, <1>4, <1>7, StatusKept
  <2> QED BY <1>4, <1>5, <2>1, LifecycleSteps
<1>8. CASE store' = [store EXCEPT ![h] = oauth2[r]]
  <2>1. store'[h] # None
    BY <1>2, <1>3, <1>8
  <2>2. h \notin removing
    BY <1>1, <1>2 DEF ApartInv, Openers, Born
  <2>3. status'[r] = "pending"
    BY <1>1, <1>2, <2>1, <2>2 DEF status, Pending
  <2> QED BY <1>4, <1>5, <1>6, <2>3, LifecycleSteps
<1> QED BY <1>1, <1>7, <1>8

\* A new handle is the same transaction.
LEMMA UpdateStutters ==
  ASSUME Inv, ApartInv, NEW r \in Requests, Update(r)
  PROVE  UNCHANGED Lifecycle!vars
<1> USE DEF Inv, TypeOK
<1>1. CASE Only(r, "update", "error")
  BY <1>1 DEF Only, outside, carried, own, Lifecycle!vars, status, answered, Answered,
         ToClient, Pending
<1>2. CASE ~Only(r, "update", "error")
  <2> DEFINE h == txnID[r]
  <2>1. pc[r] = "update" /\ UNCHANGED <<kind, removing, answer, oauth2>>
    BY <1>2 DEF Update, Goto, carried
  <2>2. PICK g \in {h} \cup ({h[1]} \X (0..MaxUpdates)) :
          /\ store' = [store EXCEPT ![h] = None, ![g] = oauth2[r]]
          /\ txnID' = [txnID EXCEPT ![r] = g]
    BY <1>2 DEF Update
  <2>3. h \in Handles /\ oauth2[r] # None /\ store[h] # None
    BY <2>1 DEF Staged, ApartInv, InHand, InFlight, Stages
  <2>4. h[1] \in Requests /\ g \in Handles /\ g[1] = h[1] /\ g # None /\ h # None
    BY <2>2, <2>3, HandleParts DEF Handles
  <2>5. \A f \in removing : f[1] # h[1]
    BY <2>1, <2>4 DEF ApartInv, InHand, InFlight, Stages
  <2>6. answered' = answered /\ \A t \in Requests : Answered(t)' <=> Answered(t)
    BY <2>1 DEF answered, Answered, ToClient
  <2>7. ASSUME NEW t \in Requests PROVE status'[t] = status[t]
    <3>1. txnID'[t] # None <=> txnID[t] # None
      BY <2>3, <2>4, <2>2
    <3>2. CASE t # h[1]
      <4>1. \A f \in Handles : f[1] = t => store'[f] = store[f]
        BY <2>3, <2>4, <2>2, <3>2
      <4> QED BY <2>1, <2>6, <3>1, <4>1, StatusKept
    <3>3. CASE t = h[1]
      <4>1. store'[g] # None /\ g \notin removing' /\ h \notin removing
        BY <2>1, <2>3, <2>4, <2>5, <2>2
      <4>2. Pending(t) /\ Pending(t)'
        BY <2>1, <2>3, <2>4, <3>3, <4>1 DEF Pending
      <4> QED BY <4>2 DEF status
    <3> QED BY <3>2, <3>3
  <2> QED BY <2>6, <2>7 DEF Lifecycle!vars, status
<1> QED BY <1>1, <1>2

\* The end of a response answers for the transaction in hand, or drops it.
LEMMA EndStepsLifecycle ==
  ASSUME Inv, ApartInv, NEW r \in Requests, Ends(r)
  PROVE  Lifecycle!Next \/ UNCHANGED Lifecycle!vars
<1> USE DEF Inv, TypeOK
<1>1. PICK removes \in BOOLEAN, k \in {"decided", "error", "dialog", "page"} :
        Concludes(r, removes, k)
  BY DEF Ends
<1>2. /\ r \in InFlight /\ UNCHANGED <<store, kind, txnID>>
      /\ removing' = IF removes THEN removing \cup {txnID[r]} ELSE removing
      /\ removes => txnID[r] # None
      /\ k \in {"decided", "error"} => oauth2[r] # None /\ (txnID[r] # None => removes)
      /\ answered' = answered \cup
           (IF k \in {"decided", "error"} THEN {<<oauth2[r].opener, r>>} ELSE {})
      /\ \A u \in Requests :
           Answered(u)' <=>
           Answered(u) \/ (k \in {"decided", "error"} /\ u = oauth2[r].opener)
  BY <1>1 DEF Concludes, InFlight
<1>3. CASE txnID[r] # None
  <2> DEFINE h == txnID[r]
             t == h[1]
  <2>1. h \in Handles /\ t \in Requests
    BY <1>3, HandleParts
  <2>2. store[h] # None /\ h \notin removing
    BY <1>2, <1>3, <2>1 DEF ApartInv, InHand
  <2>3. txnID[t] # None /\ kind[t] = "authorization"
    BY <2>1, <2>2 DEF ApartInv, Openers
  <2>4. k \in {"decided", "error"} => removes /\ oauth2[r].opener = t
    BY <1>2, <1>3 DEF ApartInv, Openers
  <2>5. \A g \in Handles \ {h} : g \in removing' <=> g \in removing
    BY <1>2
  <2>6. \A u \in Requests \ {t} : status'[u] = status[u]
    <3> SUFFICES ASSUME NEW u \in Requests \ {t} PROVE status'[u] = status[u]
      OBVIOUS
    <3>1. \A g \in Handles : g[1] = u => g # h
      OBVIOUS
    <3>2. Answered(u)' <=> Answered(u)
      BY <1>2, <2>4
    <3> QED BY <1>2, <2>5, <3>1, <3>2, StatusKept
  <2>7. status[t] = "pending"
    BY <2>1, <2>2 DEF status, Pending
  <2>8. CASE removes
    <3>1. ~Pending(t)'
      BY <1>2, <2>1, <2>2, <2>8 DEF Pending, ApartInv, OneHandle
    <3>2. status'[t] = "closed"
      BY <1>2, <2>1, <2>3, <3>1 DEF status
    <3>3. answered' = answered \/ answered' = answered \cup {<<t, r>>}
      BY <1>2, <2>4
    <3> HIDE DEF h, t, Inv, TypeOK
    <3> QED BY <2>1, <2>6, <2>7, <3>2, <3>3, LifecycleSteps
  <2>9. CASE ~removes
    <3>1. /\ answered' = answered /\ removing' = removing
          /\ Answered(t)' <=> Answered(t)
      BY <1>2, <2>1, <2>4, <2>9
    <3>2. status'[t] = status[t]
      BY <1>2, <2>1, <3>1, StatusKept
    <3> HIDE DEF h, t, Inv, TypeOK
    <3> QED BY <2>1, <2>6, <3>1, <3>2, LifecycleSteps
  <2> QED BY <2>8, <2>9
<1>4. CASE txnID[r] = None
  <2>1. removing' = removing /\ (k \in {"decided", "error"} => oauth2[r].opener = r)
    BY <1>2, <1>4 DEF ApartInv, Openers
  <2>2. \A u \in Requests \ {r} : Answered(u)' <=> Answered(u)
    BY <1>2, <2>1
  <2>3. \A u \in Requests \ {r} : status'[u] = status[u]
    <3> SUFFICES ASSUME NEW u \in Requests \ {r} PROVE status'[u] = status[u]
      OBVIOUS
    <3> QED BY <1>2, <2>1, <2>2, StatusKept
  <2>4. ~Pending(r)
    BY <1>4 DEF Pending, ApartInv, Openers
  <2>5. ~Answered(r)
    BY <1>2, <1>4 DEF ApartInv, Openers, InFlight, Stages
  <2>6. status[r] = "unborn"
    BY <1>4, <2>4, <2>5 DEF status
  <2>7. ~Pending(r)'
    BY <1>2, <2>1, <2>4 DEF Pending
  <2>8. CASE k \in {"decided", "error"}
    <3>1. answered' = answered \cup {<<r, r>>} /\ Answered(r)'
      BY <1>2, <2>1, <2>8
    <3>2. status'[r] = "closed"
      BY <2>7, <3>1 DEF status
    <3> QED BY <2>3, <2>6, <3>1, <3>2, LifecycleSteps
  <2>9. CASE k \notin {"decided", "error"}
    <3>1. answered' = answered /\ (Answered(r)' <=> Answered(r))
      BY <1>2, <2>9
    <3>2. status'[r] = status[r]
      BY <1>2, <2>1, <3>1, StatusKept
    <3> QED BY <2>3, <3>1, <3>2, LifecycleSteps
  <2> QED BY <2>8, <2>9
<1> QED BY <1>3, <1>4

\* What neither saves nor removes, and gives no transaction to an opening request,
\* changes nothing about the life of a transaction.
LEMMA LifecycleStutters ==
  ASSUME UNCHANGED <<store, removing, answer>>,
         \A t \in Requests : txnID'[t] # None /\ kind'[t] = "authorization"
                               <=> txnID[t] # None /\ kind[t] = "authorization"
  PROVE  UNCHANGED Lifecycle!vars
<1>1. answered' = answered /\ \A t \in Requests : Answered(t)' <=> Answered(t)
  BY DEF answered, Answered, ToClient
<1>2. \A t \in Requests : status'[t] = status[t]
  BY <1>1, StatusKept
<1> QED BY <1>1, <1>2 DEF status, Lifecycle!vars

LEMMA StepLifecycle ==
  ASSUME Inv, ApartInv, NEW r \in Requests, Step(r)
  PROVE  Lifecycle!Next \/ UNCHANGED Lifecycle!vars
<1> USE DEF outside, carried, own
<1>1. ASSUME NEW from, NEW to, Only(r, from, to)
      PROVE  UNCHANGED Lifecycle!vars
  BY <1>1, LifecycleStutters DEF Only
<1>2. ASSUME NEW from, NEW to, LoadSucceeds(r, from, to)
      PROVE  UNCHANGED Lifecycle!vars
  <2>1. kind[r] # "authorization"
    BY <1>2 DEF LoadSucceeds, ApartInv, Openers
  <2>2. /\ UNCHANGED <<store, removing, answer, kind>>
        /\ \A t \in Requests \ {r} : txnID'[t] = txnID[t]
    BY <1>2 DEF LoadSucceeds, Inv, TypeOK
  <2> QED BY <2>1, <2>2, LifecycleStutters
<1>3. CASE Validated(r) \/ \E from \in {"resume", "decide"} : Settle(r, from)
  <2>1. UNCHANGED <<store, removing, answer, kind, txnID>>
    BY <1>3 DEF Validated, Only, Settle
  <2> QED BY <2>1, LifecycleStutters
<1>4. CASE Dialog(r) \/ Respond(r) \/ UnhandledError(r) \/ RespondError(r)
  BY <1>1, <1>4, EndConcludes, EndStepsLifecycle DEF Dialog, Respond
<1>5. CASE Load(r) \/ ReloadForError(r)
  BY <1>1, <1>2, <1>5 DEF Load, LoadFails, ReloadForError
<1>6. CASE Resume(r) \/ Decide(r)
  BY <1>1, <1>3, <1>6 DEF Resume, Decide
<1> QED BY <1>3, <1>4, <1>5, <1>6, StoreOpens, UpdateStutters DEF Step

LEMMA NextLifecycle ==
  ASSUME Reliable, Inv, ApartInv, [Next]_vars
  PROVE  [Lifecycle!Next]_(Lifecycle!vars)
<1>1. ASSUME NEW r \in Requests, NEW k \in Kinds, NEW h \in Handles \cup {None},
             Receive(r, k, h)
      PROVE  UNCHANGED Lifecycle!vars
  <2>1. /\ UNCHANGED <<store, removing, answer, txnID>> /\ pc[r] = "idle"
        /\ \A t \in Requests \ {r} : kind'[t] = kind[t]
    BY <1>1 DEF Receive, Goto, outside, own, Inv, TypeOK
  <2>2. txnID[r] = None
    BY <2>1 DEF Inv, Staged
  <2> QED BY <2>1, <2>2, LifecycleStutters
<1>2. CASE UNCHANGED vars
  BY <1>2, LifecycleStutters DEF vars
<1> QED BY <1>1, <1>2, StepLifecycle, ApartOutside DEF Next

\* Over a reliable store that carries out removals before later loads, the endpoint
\* keeps its promise whatever handles the store gives out, and however many requests
\* overlap, as long as they act on different transactions: a transaction is answered
\* at most once, and never comes back.
THEOREM ApartImplementsLifecycle ==
  ASSUME Reliable, Ordered
  PROVE  ApartSpec => ImplementsLifecycle
<1>1. Init => Lifecycle!Init
  BY DEF Init, Lifecycle!Init, status, answered, Answered, ToClient, Pending
<1>2. Inv /\ ApartInv /\ [Next /\ Apart']_vars => [Lifecycle!Next]_(Lifecycle!vars)
  BY NextLifecycle
<1> QED
  BY <1>1, <1>2, ApartCorrect, PTL
     DEF ApartSpec, ImplementsLifecycle, Lifecycle!Spec

\* At most one request is in flight.
Alone == \A q, r \in InFlight : q = r

LEMMA AloneNext ==
  ASSUME MaxInFlight = 1, Inv, Alone, [Next]_vars
  PROVE  Alone'
<1> USE DEF Inv, TypeOK
<1>1. ASSUME NEW r \in Requests, NEW k \in Kinds, NEW h \in Handles \cup {None},
             Receive(r, k, h)
      PROVE  Alone'
  <2>1. InFlight = {}
    <3>1. SUFFICES ASSUME NEW q \in InFlight PROVE FALSE
      OBVIOUS
    <3>2. InFlight = {q}
      BY DEF Alone
    <3>3. Cardinality(InFlight) = 1
      BY <3>2, FS_Singleton
    <3> QED BY <1>1, <3>3 DEF Receive
  <2>2. \A q \in Requests \ {r} : pc'[q] = pc[q]
    BY <1>1 DEF Receive, Goto
  <2> QED BY <2>1, <2>2 DEF Alone, InFlight
<1>2. ASSUME NEW r \in Requests, pc[r] \in Stages,
             \A q \in Requests \ {r} : pc'[q] = pc[q]
      PROVE  Alone'
  BY <1>2 DEF Alone, InFlight
<1>3. ASSUME NEW r \in Requests, Step(r)
      PROVE  Alone'
  <2>1. \E from \in Stages, to \in Stages \cup {"done"} : Goto(r, from, to)
    BY <1>3
       DEF Step, Validated, Store, Dialog, Load, Resume, Update, Decide, Respond,
           UnhandledError, ReloadForError, RespondError, LoadFails, LoadSucceeds,
           Settle, Finish, Only, Stages
  <2> QED BY <1>2, <2>1 DEF Goto
<1>4. ASSUME NEW h \in Handles, Removed(h) \/ RemovalFails(h)
      PROVE  Alone'
  BY <1>4 DEF Removed, RemovalFails, Alone, InFlight
<1>5. ASSUME NEW lost \in SUBSET removing, Crash(lost)
      PROVE  Alone'
  BY <1>5 DEF Crash, Alone, InFlight, Stages
<1>6. CASE UNCHANGED vars
  BY <1>6 DEF vars, Alone, InFlight
<1> QED BY <1>1, <1>3, <1>4, <1>5, <1>6 DEF Next

\* In particular when requests do not overlap.
THEOREM SerialImplementsLifecycle ==
  ASSUME MaxInFlight = 1, Reliable, Ordered
  PROVE  Spec => ImplementsLifecycle
<1>1. Spec => []Inv
  BY InitInv, StepInv, PTL DEF Spec
<1>2. Init => Alone
  BY DEF Init, Alone, InFlight, Stages
<1>3. Inv /\ Alone /\ [Next]_vars => Alone'
  BY AloneNext
<1>4. Alone' /\ [Next]_vars => [Next /\ Apart']_vars
  BY DEF Alone, Apart
<1>5. Spec => ApartSpec
  BY <1>1, <1>2, <1>3, <1>4, PTL DEF Spec, ApartSpec
<1> QED BY <1>5, ApartImplementsLifecycle
-----------------------------------------------------------------------------
(* What the life cycle promises. *)

\* Only a transaction that is not closed is answered, and it stays closed.
LEMMA LifecycleKeeps ==
  ASSUME Lifecycle!TypeOK, Lifecycle!AnsweredOnce, [Lifecycle!Next]_(Lifecycle!vars)
  PROVE  Lifecycle!TypeOK' /\ Lifecycle!AnsweredOnce'
<1> USE DEF Lifecycle!TypeOK, Lifecycle!AnsweredOnce
<1>1. CASE UNCHANGED Lifecycle!vars
  BY <1>1 DEF Lifecycle!vars
<1>2. ASSUME NEW t \in Requests, Lifecycle!Open(t) \/ Lifecycle!Invalidate(t)
      PROVE  Lifecycle!TypeOK' /\ Lifecycle!AnsweredOnce'
  BY <1>2 DEF Lifecycle!Open, Lifecycle!Invalidate
<1>3. ASSUME NEW t \in Requests, NEW r \in Requests, Lifecycle!Answer(t, r)
      PROVE  Lifecycle!TypeOK' /\ Lifecycle!AnsweredOnce'
  <2>1. /\ status[t] # "closed" /\ status' = [status EXCEPT ![t] = "closed"]
        /\ answered' = answered \cup {<<t, r>>}
    BY <1>3 DEF Lifecycle!Answer
  <2>2. \A a \in answered : a[1] # t
    BY <2>1
  <2> QED BY <2>1, <2>2
<1> QED BY <1>1, <1>2, <1>3 DEF Lifecycle!Next

\* So the client of a transaction gets one response, be it a grant, a denial or an
\* error, and afterwards the store has the transaction no more, under no handle,
\* or is about to remove it.
THEOREM ApartAnswersOnce ==
  ASSUME Reliable, Ordered
  PROVE  ApartSpec => []Lifecycle!AnsweredOnce
<1>1. Lifecycle!Init => Lifecycle!TypeOK /\ Lifecycle!AnsweredOnce
  BY DEF Lifecycle!Init, Lifecycle!TypeOK, Lifecycle!AnsweredOnce
<1>2. ApartSpec => Lifecycle!Spec
  BY ApartImplementsLifecycle DEF ImplementsLifecycle
<1> QED BY <1>1, <1>2, LifecycleKeeps, PTL DEF Lifecycle!Spec
=============================================================================
