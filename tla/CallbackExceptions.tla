------------------------- MODULE CallbackExceptions -------------------------
(***************************************************************************)
(* Where an exception of an application's function ends up.  The           *)
(* authorization endpoint calls one such function from the callback of     *)
(* another.  A function that calls back before it returns has the rest of  *)
(* the request run inside its own call, with the try blocks around it; one *)
(* that calls back later does so from the event loop, with none.           *)
(*                                                                         *)
(* A function calls back once or throws; one that has called back may still*)
(* throw before it returns.  Loading the transaction comes before, and     *)
(* Express calls each middleware in a try block of its own.                *)
(***************************************************************************)
EXTENDS FiniteSets, Naturals, SequencesExt

\* `store' stands for update too, on resume, and both for those of a custom store;
\* behind the session store it is a serializer that is called.
Functions == {"parse", "validate", "immediate", "serialize", "store", "issue",
              "extend", "complete"}
Routes == {"authorization", "resume", "decision"}

\* A function that was called has returned without calling back ("waiting"), or has
\* called back or thrown and not returned ("spent"), or has left the stack ("left").
\* One that was waiting calls back from the event loop ("late").
Stages == {"called", "waiting", "spent", "late", "left"}

VARIABLES route,      \* the middleware that handles the request
          grant,      \* the grant that responds, if any: "code" or "token"
          txnStore,   \* where transactions are kept: "session" or "custom"
          calls,      \* the functions called so far, each from the last one's callback
          exception,  \* the call whose exception is under way, or 0
          caught,     \* the calls whose exceptions were caught
          lost,       \* the calls whose exceptions left the stack
          overdue,    \* the calls that threw after they had called back
          passes      \* how often the request was answered or passed on

vars == <<route, grant, txnStore, calls, exception, caught, lost, overdue, passes>>
fixed == <<route, grant, txnStore>>
thrown == <<exception, caught, lost, overdue>>

Called(f) == [f |-> f, stage |-> "called"]
First == CASE route = "authorization" -> "validate"
           [] route = "resume" -> "immediate"
           [] route = "decision" -> "parse"

Init ==
  /\ route \in Routes /\ grant \in {"code", "token"} /\ txnStore \in {"session", "custom"}
  /\ calls = <<Called(First)>>
  /\ exception = 0 /\ caught = {} /\ lost = {} /\ overdue = {}
  /\ passes = 0

OnStack(i) == calls[i].stage \in {"called", "spent"}
Top(i) == OnStack(i) /\ \A j \in DOMAIN calls : j > i => ~OnStack(j)

\* The function last called calls back: before it returns, or from the event loop.
At(f) ==
  /\ Last(calls).f = f /\ exception = 0
  /\ \/ Last(calls).stage = "called"
     \/ Last(calls).stage = "waiting" /\ \A i \in DOMAIN calls : ~OnStack(i)

Spoken == [calls EXCEPT ![Len(calls)].stage = IF @ = "called" THEN "spent" ELSE "late"]

\* next(), next(err) or a redirect.
PassOn ==
  /\ calls' = Spoken /\ passes' = passes + 1
  /\ UNCHANGED <<fixed, thrown>>

\* Mutant of Call: the caller has not called back.
CallUnspoken(f) ==
  /\ calls' = Append(calls, Called(f))
  /\ UNCHANGED <<fixed, thrown, passes>>

Call(f) ==
  /\ calls' = Append(Spoken, Called(f))
  /\ UNCHANGED <<fixed, thrown, passes>>
-----------------------------------------------------------------------------
(* the callbacks of the library *)

\* Server._respond and the grant's response: no grant, a mode it does not
\* support or a denial end the request, else it is issued.
Response == PassOn \/ Call("issue")

Validated == At("validate") /\ (PassOn \/ Call("immediate"))

Immediated ==
  /\ At("immediate")
  /\ PassOn \/ Call(IF txnStore = "session" THEN "serialize" ELSE "store") \/ Response

Stored == (At("serialize") \/ At("store")) /\ PassOn

Parsed == At("parse") /\ (PassOn \/ Response)

\* Mutant of CodeIssued: a code that is not truthy is forgotten about.
CodeIssuedSilently ==
  /\ At("issue") /\ grant = "code"
  /\ \/ Call("extend")
     \/ calls' = Spoken /\ UNCHANGED <<fixed, thrown, passes>>

CodeIssued == At("issue") /\ grant = "code" /\ (PassOn \/ Call("extend"))

Extended == At("extend") /\ (PassOn \/ Call("complete"))

TokenIssued == At("issue") /\ grant = "token" /\ (PassOn \/ Call("complete"))

Completed == At("complete") /\ PassOn

CallsBack == \/ Validated \/ Immediated \/ Stored \/ Parsed
             \/ CodeIssued \/ Extended \/ TokenIssued \/ Completed
-----------------------------------------------------------------------------
(* what a function does besides *)

Goes(i, stage) == calls' = [calls EXCEPT ![i].stage = stage]
Running == exception = 0 /\ Last(calls).stage = "called"

\* The function returns, and will call back later.
ReturnsFirst ==
  /\ Running /\ Goes(Len(calls), "waiting")
  /\ UNCHANGED <<fixed, thrown, passes>>

Throws ==
  /\ Running /\ Goes(Len(calls), "spent")
  /\ exception' = Len(calls)
  /\ UNCHANGED <<fixed, caught, lost, overdue, passes>>

\* A function whose callback has returned does so too, or throws.
Returns(i) ==
  /\ exception = 0 /\ Top(i) /\ calls[i].stage = "spent"
  /\ Goes(i, "left")
  /\ UNCHANGED <<fixed, thrown, passes>>

ThrowsLate(i) ==
  /\ exception = 0 /\ Top(i) /\ calls[i].stage = "spent"
  /\ exception' = i /\ overdue' = overdue \cup {i}
  /\ UNCHANGED <<fixed, calls, caught, lost, passes>>
-----------------------------------------------------------------------------
(* an exception goes down the stack *)

\* Mutant of Guarded: immediate is guarded however it comes to be called.
GuardedAlways(f) == f \in {"parse", "validate", "immediate", "serialize", "issue"}

\* The functions that are called in a try block of their own; parse in Express's.
Guarded(f) ==
  \/ f \in {"parse", "validate", "serialize", "issue"}
  \/ f = "immediate" /\ route = "resume"

\* Mutant of Catches: what was caught is thrown again.
CatchesAndRethrows(i) ==
  /\ exception # 0 /\ Top(i) /\ Guarded(calls[i].f)
  /\ Goes(i, "left")
  /\ caught' = caught \cup {exception} /\ passes' = passes + 1
  /\ UNCHANGED <<fixed, exception, lost, overdue>>

\* Every catch block passes the exception on and returns.
Catches(i) ==
  /\ exception # 0 /\ Top(i) /\ Guarded(calls[i].f)
  /\ Goes(i, "left")
  /\ exception' = 0
  /\ caught' = caught \cup {exception} /\ passes' = passes + 1
  /\ UNCHANGED <<fixed, lost, overdue>>

\* A call without a try block falls with the exception, the last one to the event loop.
Escapes(i) ==
  /\ exception # 0 /\ Top(i) /\ ~Guarded(calls[i].f)
  /\ Goes(i, "left")
  /\ IF \E j \in DOMAIN calls \ {i} : OnStack(j)
       THEN UNCHANGED <<exception, lost>>
       ELSE exception' = 0 /\ lost' = lost \cup {exception}
  /\ UNCHANGED <<fixed, caught, overdue, passes>>

Next ==
  \/ CallsBack \/ ReturnsFirst \/ Throws
  \/ \E i \in DOMAIN calls : Returns(i) \/ ThrowsLate(i) \/ Catches(i) \/ Escapes(i)

\* The code of the library runs on, and a function that returned calls back.
Spec == Init /\ [][Next]_vars /\ WF_vars(Next)
-----------------------------------------------------------------------------
\* The types; and only the function last called has not called back yet.
TypeOK ==
  /\ route \in Routes /\ grant \in {"code", "token"} /\ txnStore \in {"session", "custom"}
  /\ calls \in Seq([f: Functions, stage: Stages]) /\ calls # <<>>
  /\ \A i \in DOMAIN calls : calls[i].stage \in {"called", "waiting"} => i = Len(calls)
  /\ exception \in {0} \cup DOMAIN calls
  /\ caught \cup lost \cup overdue \subseteq DOMAIN calls
  /\ passes \in Nat

\* The catch blocks nest (code.js:194 in server.js:368 in resume.js:106, say), yet an
\* exception goes through one of them: a request is answered or passed on once, and
\* once more for each function that throws although it has called back.
PassedOnOnce == passes <= 1 + Cardinality(overdue)

\* Functions that are called without regard to exceptions.  What guards them is
\* a try block around a function before them, if that called back at once.
Unguarded == {"store", "extend", "complete"} \cup
             (IF route = "resume" THEN {} ELSE {"immediate"})

\* An exception is lost exactly when its function is called unguarded, from the
\* event loop: some function before it called back later, and all since are
\* unguarded.  Those of parse, validate, the serializers and issue, and on resume of
\* immediate, are never lost.
Exposed(k) == \E i \in 1..(k - 1) : /\ calls[i].stage = "late"
                                   /\ \A j \in (i + 1)..k : calls[j].f \in Unguarded

LostBehindLaterCallback == \A k \in caught \cup lost : k \in lost <=> Exposed(k)

\* Unless an exception is lost, the request is answered or passed on.
PassedOnOrLost == <>(passes > 0 \/ lost # {})
=============================================================================
