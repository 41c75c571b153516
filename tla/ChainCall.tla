------------------------------ MODULE ChainCall ------------------------------
(***************************************************************************)
(* What the endpoints take a call of a handler chain for, whatever number  *)
(* of handlers is behind it: one step with one outcome, of the kinds the   *)
(* chain has, or no outcome because a handler has ended the response.      *)
(* When the callback throws it is called once more, with what it threw.    *)
(* Only a handler that throws after it has called back can make it more.   *)
(***************************************************************************)
EXTENDS Sequences

\* What each chain of lib/server.js may call back with.
Outcomes == [parse |-> {"error", "value", "exception"},
             respond |-> {"error", "nothing", "exception"},
             respondError |-> {"error", "nothing", "exception"},
             exchange |-> {"error", "nothing", "exception"},
             serialize |-> {"error", "value", "failed", "exception"},
             deserialize |-> {"error", "value", "false", "failed", "exception"}]

\* The chains whose handlers may end the response.
Ending == {"respond", "respondError", "exchange"}

VARIABLES chain,     \* which of the chains is called
          troubles,  \* what may throw, but for handlers being called
          calls,     \* what it has called back with, call by call
          answered   \* a handler has ended the response

vars == <<chain, troubles, calls, answered>>

Init == /\ chain \in DOMAIN Outcomes
        /\ troubles \in SUBSET {"callback throws", "handlers throw late"}
        /\ calls = <<>> /\ answered = FALSE

\* An outcome that may be called back with now.
Due(r) == \/ calls = <<>> /\ ~answered
          \/ calls # <<>> /\ "callback throws" \in troubles /\ r = "exception"
          \/ "handlers throw late" \in troubles

CallBack == \E r \in Outcomes[chain] : /\ Due(r)
                                       /\ calls' = Append(calls, r)
                                       /\ UNCHANGED <<chain, troubles, answered>>

Answer == /\ chain \in Ending /\ ~answered
          /\ calls = <<>> \/ "handlers throw late" \in troubles
          /\ answered' = TRUE
          /\ UNCHANGED <<chain, troubles, calls>>

Next == CallBack \/ Answer

Spec == Init /\ [][Next]_vars
=============================================================================
