--------------------------- MODULE PluggableStore ---------------------------
(***************************************************************************)
(* The authorization endpoint over a transaction store of the              *)
(* application's (the branches of lib/middleware for a store that is not   *)
(* `legacy').  The store (external) is elsewhere: it answers later, may    *)
(* fail, keeps copies of what it is given, and names transactions by       *)
(* handles, of which an update may return a new one.  An update may put    *)
(* back what has been removed in the meantime: nothing tells the store not *)
(* to.  A removal is sent when a response ends, and nobody waits for it:   *)
(* it is carried out later, fails, or is lost in a crash.                  *)
(*                                                                         *)
(* What AuthorizationEndpoint has in detail (parsing, clients, grants) is  *)
(* a choice of outcomes here.                                              *)
(***************************************************************************)
EXTENDS FiniteSets, Naturals

CONSTANTS Requests,      \* HTTP requests, used once each
          ErrorMounts,   \* error middleware: "none" or "authorizationError"
          Reliable,      \* every removal is carried out, crash or not
          Ordered,       \* the store carries out a removal before later loads
          MaxUpdates,    \* bound: new handles a transaction may be given
          MaxInFlight,   \* bound: requests handled at the same time
          None

\* The handles of a transaction: the request that opened it and a number.
Handles == Requests \X (0..MaxUpdates)
Kinds == {"authorization", "resume", "decision"}

\* A transaction, in the store or as req.oauth2, with the mark that res.end has
\* been wrapped; and how a response ended.
Txn == [opener: Requests, endProxied: BOOLEAN]
Answer == [kind: {"decided", "error", "dialog", "page"},
           opener: Requests \cup {None}, handle: Handles \cup {None}]

ASSUME StoreAssumption ==
  /\ ErrorMounts \subseteq {"none", "authorizationError"}
  /\ Reliable \in BOOLEAN /\ Ordered \in BOOLEAN
  /\ MaxUpdates \in Nat /\ MaxInFlight \in Nat
  /\ None \notin Requests /\ None \notin Handles
  /\ None \notin Txn /\ None \notin Answer

VARIABLES mount,          \* the error middleware the application mounts
          store,          \* the transactions the store has
          given,          \* the handles it has given out
          removing,       \* removals that have been sent
          failed,         \* history: handles whose removal failed or was lost
          revived,        \* history: handles an update has put back, since removed
          pc, kind,       \* where each request is, and what it is
          presented,      \* the handle it carries
          oauth2, txnID,  \* req.oauth2, req.oauth2.transactionID
          proxied,        \* res.end sends the removal
          answer          \* how it was answered

vars == <<mount, store, given, removing, failed, revived, pc, kind, presented,
          oauth2, txnID, proxied, answer>>
outside == <<store, given, removing, failed, revived>>
carried == <<kind, presented>>
own == <<oauth2, txnID, proxied>>

Stages == {"validate", "store", "dialog", "load", "resume", "update", "decide",
           "respond", "error", "errorRespond"}
InFlight == {r \in Requests : pc[r] \in Stages}

Init ==
  /\ mount \in ErrorMounts
  /\ store = [h \in Handles |-> None]
  /\ given = {} /\ removing = {} /\ failed = {} /\ revived = {}
  /\ pc = [r \in Requests |-> "idle"]
  /\ kind = [r \in Requests |-> "authorization"]
  /\ presented = [r \in Requests |-> None]
  /\ oauth2 = [r \in Requests |-> None]
  /\ txnID = [r \in Requests |-> None]
  /\ proxied = [r \in Requests |-> FALSE]
  /\ answer = [r \in Requests |-> None]

Goto(r, from, to) == pc[r] = from /\ pc' = [pc EXCEPT ![r] = to]
Only(r, from, to) ==
  Goto(r, from, to) /\ UNCHANGED <<mount, outside, carried, own, answer>>

\* A handle that is presented has been given to the user in a dialog.
Receive(r, k, h) ==
  /\ Cardinality(InFlight) < MaxInFlight
  /\ IF k = "authorization" THEN h = None
     ELSE \E q \in Requests :
            answer[q] # None /\ answer[q].kind = "dialog" /\ answer[q].handle = h
  /\ Goto(r, "idle", IF k = "authorization" THEN "validate" ELSE "load")
  /\ kind' = [kind EXCEPT ![r] = k]
  /\ presented' = [presented EXCEPT ![r] = h]
  /\ UNCHANGED <<mount, outside, own, answer>>

\* Mutant of Finish: a removal is sent without a transaction.
FinishRemovingAny(r, from, removes, k) ==
  /\ Goto(r, from, "done")
  /\ removing' = IF removes \/ k = "error" THEN removing \cup {txnID[r]} ELSE removing
  /\ answer' = [answer EXCEPT ![r] =
       [kind |-> k, handle |-> txnID[r],
        opener |-> IF oauth2[r] = None THEN None ELSE oauth2[r].opener]]
  /\ UNCHANGED <<mount, store, given, failed, revived, carried, own>>

\* res.end: the wrapped one sends the removal and goes on.
Finish(r, from, removes, k) ==
  /\ Goto(r, from, "done")
  /\ removing' = IF removes THEN removing \cup {txnID[r]} ELSE removing
  /\ answer' = [answer EXCEPT ![r] =
       [kind |-> k, handle |-> txnID[r],
        opener |-> IF oauth2[r] = None THEN None ELSE oauth2[r].opener]]
  /\ UNCHANGED <<mount, store, given, failed, revived, carried, own>>
-----------------------------------------------------------------------------
(* authorization *)

\* A request that cannot be parsed, and one whose validation throws, fails without
\* req.oauth2; every other answer of the validation leaves one.
Validated(r) ==
  \/ Only(r, "validate", "error")
  \/ /\ \E to \in {"error", "store", "respond"} : Goto(r, "validate", to)
     /\ oauth2' = [oauth2 EXCEPT ![r] = [opener |-> r, endProxied |-> FALSE]]
     /\ UNCHANGED <<mount, outside, carried, txnID, proxied, answer>>

Store(r) ==
  \/ Only(r, "store", "error")
  \/ /\ Goto(r, "store", "dialog")
     /\ store' = [store EXCEPT ![<<r, 0>>] = oauth2[r]]
     /\ txnID' = [txnID EXCEPT ![r] = <<r, 0>>]
     /\ given' = given \cup {<<r, 0>>}
     /\ UNCHANGED <<mount, removing, failed, revived, carried, oauth2, proxied,
                    answer>>

Dialog(r) == \/ Only(r, "dialog", "error")
             \/ Finish(r, "dialog", proxied[r], "dialog")

(* loading: the transaction, nothing, or an error ----------------------------- *)

LoadFails(r, from, to) == Only(r, from, to)

LoadSucceeds(r, from, to) ==
  /\ presented[r] # None /\ store[presented[r]] # None
  /\ Ordered => removing = {}
  /\ Goto(r, from, to)
  /\ oauth2' = [oauth2 EXCEPT ![r] = store[presented[r]]]
  /\ txnID' = [txnID EXCEPT ![r] = presented[r]]
  /\ UNCHANGED <<mount, outside, carried, proxied, answer>>

Load(r) ==
  \/ LoadFails(r, "load", "error")
  \/ LoadSucceeds(r, "load", IF kind[r] = "resume" THEN "resume" ELSE "decide")

(* resume and decision --------------------------------------------------------- *)

Mark(r) == oauth2' = [oauth2 EXCEPT ![r] = [@ EXCEPT !.endProxied = TRUE]]

\* Mutant of Settle: res.end is not wrapped.
SettleUnwrapped(r, from) ==
  /\ Goto(r, from, "respond")
  /\ Mark(r)
  /\ UNCHANGED <<mount, outside, carried, txnID, proxied, answer>>

\* A verdict is taken: res.end is wrapped, and the transaction marked.
Settle(r, from) ==
  /\ Goto(r, from, "respond")
  /\ Mark(r)
  /\ proxied' = [proxied EXCEPT ![r] = TRUE]
  /\ UNCHANGED <<mount, outside, carried, txnID, answer>>

\* Mutant of Resume: the mark is set before it is known whether to ask again.
ResumeMarkingFirst(r) ==
  /\ \E to \in {"error", "update", "respond"} : Goto(r, "resume", to)
  /\ Mark(r)
  /\ proxied' = [proxied EXCEPT ![r] = TRUE]
  /\ UNCHANGED <<mount, outside, carried, txnID, answer>>

Resume(r) ==
  Settle(r, "resume") \/ \E to \in {"error", "update"} : Only(r, "resume", to)

\* The store is handed req.oauth2 and returns the handle to use from now on, the
\* same or one it has never given out.  Resume does not ask whether the store still
\* has the transaction, and the store may refuse it or put it back.
Update(r) ==
  \/ Only(r, "update", "error")
  \/ /\ Goto(r, "update", "dialog")
     /\ \E h \in {txnID[r]} \cup (({txnID[r][1]} \X (0..MaxUpdates)) \ given) :
          /\ store' = [store EXCEPT ![txnID[r]] = None, ![h] = oauth2[r]]
          /\ given' = given \cup {h}
          /\ revived' = IF store[txnID[r]] = None THEN revived \cup {h} ELSE revived
          /\ txnID' = [txnID EXCEPT ![r] = h]
     /\ UNCHANGED <<mount, removing, failed, carried, oauth2, proxied, answer>>

Decide(r) == Only(r, "decide", "error") \/ Settle(r, "decide")

\* The grant redirects, after the application has issued what it issues.
Respond(r) == \/ Only(r, "respond", "error")
              \/ Finish(r, "respond", proxied[r], "decided")
-----------------------------------------------------------------------------
(* errors *)

UnhandledError(r) ==
  mount = "none" /\ Finish(r, "error", proxied[r], "page")

ReloadForError(r) ==
  /\ mount = "authorizationError"
  /\ \/ oauth2[r] # None /\ Only(r, "error", "errorRespond")
     \/ oauth2[r] = None /\ \/ LoadFails(r, "error", "errorRespond")
                            \/ LoadSucceeds(r, "error", "errorRespond")

\* Mutant of RespondError: the removal is left to decision and resume.
RespondErrorWithoutRemoval(r) ==
  \E k \in {"page"} \cup (IF oauth2[r] = None THEN {} ELSE {"error"}) :
    Finish(r, "errorRespond", proxied[r], k)

\* authorizationErrorHandler wraps res.end unless the mark says it was done; a
\* grant's error handler may redirect, or pass the error on to a page.
RespondError(r) ==
  \E k \in {"page"} \cup (IF oauth2[r] = None THEN {} ELSE {"error"}) :
    Finish(r, "errorRespond",
           proxied[r] \/ (oauth2[r] # None /\ txnID[r] # None
                          /\ ~oauth2[r].endProxied), k)
-----------------------------------------------------------------------------
(* the store and the process ---------------------------------------------------- *)

Removed(h) ==
  /\ h \in removing
  /\ removing' = removing \ {h}
  /\ store' = [store EXCEPT ![h] = None]
  /\ revived' = revived \ {h}
  /\ UNCHANGED <<mount, given, failed, pc, carried, own, answer>>

\* The callback of a removal ignores the error it is given.
RemovalFails(h) ==
  /\ h \in removing /\ ~Reliable
  /\ removing' = removing \ {h}
  /\ failed' = failed \cup {h}
  /\ UNCHANGED <<mount, store, given, revived, pc, carried, own, answer>>

\* The process stops, and with it removals it has not got rid of yet.
Crash(lost) ==
  /\ lost \subseteq removing
  /\ Reliable => lost = {}
  /\ InFlight \cup lost # {}
  /\ pc' = [r \in Requests |-> IF r \in InFlight THEN "lost" ELSE pc[r]]
  /\ removing' = removing \ lost
  /\ failed' = failed \cup lost
  /\ UNCHANGED <<mount, store, given, revived, carried, own, answer>>

Step(r) ==
  \/ Validated(r) \/ Store(r) \/ Dialog(r) \/ Load(r) \/ Resume(r)
  \/ Update(r) \/ Decide(r) \/ Respond(r)
  \/ UnhandledError(r) \/ ReloadForError(r) \/ RespondError(r)

Next ==
  \/ \E r \in Requests, k \in Kinds, h \in Handles \cup {None} : Receive(r, k, h)
  \/ \E r \in Requests : Step(r)
  \/ \E h \in Handles : Removed(h) \/ RemovalFails(h)
  \/ \E lost \in SUBSET removing : Crash(lost)

Spec == Init /\ [][Next]_vars

\* The transaction a request acts on: its own, or the one it presents.
ActsOn(r) == IF presented[r] = None THEN r ELSE presented[r][1]

\* Requests overlap only when they act on different transactions.
Apart == \A q, r \in InFlight : ActsOn(q) = ActsOn(r) => q = r
ApartSpec == Init /\ [][Next /\ Apart']_vars

\* The store carries out what it is sent, unless it reports a failure.
FairSpec == Spec /\ \A h \in Handles : WF_vars(Removed(h) \/ RemovalFails(h))
-----------------------------------------------------------------------------
TypeOK ==
  /\ mount \in ErrorMounts
  /\ store \in [Handles -> Txn \cup {None}]
  /\ given \subseteq Handles /\ removing \subseteq Handles
  /\ failed \subseteq Handles /\ revived \subseteq Handles
  /\ pc \in [Requests -> Stages \cup {"idle", "done", "lost"}]
  /\ kind \in [Requests -> Kinds]
  /\ presented \in [Requests -> Handles \cup {None}]
  /\ oauth2 \in [Requests -> Txn \cup {None}]
  /\ txnID \in [Requests -> Handles \cup {None}]
  /\ proxied \in [Requests -> BOOLEAN]
  /\ answer \in [Requests -> Answer \cup {None}]

\* The answer does not wait for the removal, but the removal is on its way
\* before the answer: a handle whose transaction was decided, and behind
\* authorizationErrorHandler one whose client was told of an error, is gone, or
\* about to go, or the store has failed to remove it.  Once gone, one thing only
\* brings it back: an update that was under way (resume.js:86) and that the store
\* carries out although it no longer has the transaction.
RemovalArranged ==
  \A r \in Requests :
    LET a == answer[r]
    IN a # None /\ a.handle # None /\ a.kind \in {"decided", "error"} =>
         \/ store[a.handle] = None
         \/ a.handle \in removing \cup failed \cup revived

\* The store never holds the mark that the removal was arranged for, which
\* would switch it off for a later request.
StoredUnmarked == \A h \in Handles : store[h] # None => ~store[h].endProxied

\* What was decided is gone in the end and stays away, unless the store has
\* failed to remove it, or has let a late update put it back.
DecidedIsGone ==
  \A r \in Requests, h \in Handles :
    answer[r] # None /\ answer[r].kind = "decided" /\ answer[r].handle = h
      ~> [](store[h] = None \/ h \in failed \cup revived)

\* A transaction is pending while the store has it and no removal was sent.
ToClient(r) == answer[r] # None /\ answer[r].kind \in {"decided", "error"}
answered == {<<answer[r].opener, r>> : r \in {r \in Requests : ToClient(r)}}
Answered(t) == \E r \in Requests : ToClient(r) /\ answer[r].opener = t
Pending(t) == \E h \in Handles : h[1] = t /\ store[h] # None /\ h \notin removing
status == [t \in Requests |->
             IF Pending(t) THEN "pending"
             ELSE IF Answered(t) \/ (txnID[t] # None /\ kind[t] = "authorization")
                    THEN "closed" ELSE "unborn"]

Lifecycle == INSTANCE TransactionLifecycle WITH Transactions <- Requests,
                                                Responses <- Requests

\* When requests that overlap act on different transactions, a reliable store that
\* carries out removals before later loads is enough for the life cycle: answered
\* at most once, and never back.  (Over a session it is not: a request that saves
\* its copy late brings back what others have removed.)
ImplementsLifecycle == Lifecycle!Spec
=============================================================================
