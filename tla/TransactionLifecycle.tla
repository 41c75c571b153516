------------------------ MODULE TransactionLifecycle ------------------------
(***************************************************************************)
(* What the authorization endpoint promises about a transaction, whatever  *)
(* middleware serves it: it is opened at most once, it stays pending in    *)
(* the session while the user decides, it is answered to the client at     *)
(* most once, and with that answer, or when it is invalidated, it is gone  *)
(* for good.                                                               *)
(***************************************************************************)
CONSTANTS Transactions, Responses

VARIABLES status,   \* "unborn", "pending" in the session, or "closed"
          answered  \* the pairs of a transaction and a response to its client

vars == <<status, answered>>

TypeOK == /\ status \in [Transactions -> {"unborn", "pending", "closed"}]
          /\ answered \subseteq Transactions \X Responses

Init == /\ status = [t \in Transactions |-> "unborn"]
        /\ answered = {}

\* authorization stores the transaction and the dialog is shown.
Open(t) == /\ status[t] = "unborn"
           /\ status' = [status EXCEPT ![t] = "pending"]
           /\ UNCHANGED answered

\* The client gets its redirect: at once, after a decision, or with an error.
Answer(t, r) == /\ status[t] # "closed"
                /\ status' = [status EXCEPT ![t] = "closed"]
                /\ answered' = answered \cup {<<t, r>>}

\* The transaction is dropped and no response will be sent to the client: its
\* client is no longer known, or an error could not be redirected.
Invalidate(t) == /\ status[t] # "closed"
                 /\ status' = [status EXCEPT ![t] = "closed"]
                 /\ UNCHANGED answered

Next == \E t \in Transactions : \/ Open(t) \/ Invalidate(t)
                                 \/ \E r \in Responses : Answer(t, r)

Spec == Init /\ [][Next]_vars

\* The client of a transaction gets one response, and then the session has the
\* transaction no more.
AnsweredOnce ==
  /\ \A a, b \in answered : a[1] = b[1] => a[2] = b[2]
  /\ \A a \in answered : status[a[1]] = "closed"
=============================================================================
