---------------------------- MODULE HandlerChain ----------------------------
(***************************************************************************)
(* The chains of lib/server.js: request parsers, response, error and       *)
(* exchange handlers, client serializers and deserializers.  A chain goes  *)
(* through its layers in the order of their registration, leaves out those *)
(* registered for another type, and calls back with what comes of it.      *)
(*                                                                         *)
(* A handler may call back before it returns, so that the chain goes on    *)
(* inside the handler's own call, or later, or throw, or (response, error  *)
(* and exchange handlers) end the response and never call back.  `tries'   *)
(* is the set of layers whose try block is on the call stack: whatever is  *)
(* thrown above is caught by the highest of them, which calls back.        *)
(***************************************************************************)
EXTENDS Naturals, Sequences

CONSTANT N  \* the number of layers

ASSUME ChainAssumption == N \in Nat

Layers == 1..N

Chains == {"parse", "respond", "respondError", "exchange",
           "serialize", "deserialize"}

\* What a handler may call back with: an error, the 'pass' that stands for
\* none, a value, false for a client that was deauthorized, or nothing.
Gives == [parse |-> {"error", "value"},
          respond |-> {"error", "nothing"},
          respondError |-> {"error", "nothing"},
          exchange |-> {"error", "nothing"},
          serialize |-> {"error", "pass", "value", "nothing"},
          deserialize |-> {"error", "pass", "value", "false", "nothing"}]

\* Mutant of Settles: a chain consults the next layer after an error.
SettledByValue(c, result) ==
  result \in [parse |-> {}, respond |-> {}, respondError |-> {},
              exchange |-> {}, serialize |-> {"value"},
              deserialize |-> {"value", "false"}][c]

\* The results with which a chain calls back at once.
Settles(c, result) ==
  result \in [parse |-> {"error"}, respond |-> {"error"}, respondError |-> {},
              exchange |-> {"error"}, serialize |-> {"error", "value"},
              deserialize |-> {"error", "value", "false"}][c]

\* The result of a chain that has run out of layers.
Exhausted(c, result) ==
  CASE c = "parse" -> "value"
    [] c \in {"respond", "exchange"} -> "nothing"
    [] c = "respondError" -> result
    [] OTHER -> "failed"

\* Handlers that may end the response instead of calling back.
Answering == {"respond", "respondError", "exchange"}

Results == {"error", "pass", "value", "false", "nothing", "failed", "exception"}

\* What may throw besides handlers that are being called: the callback of the
\* chain, and a handler that has called back.
Troubles == {"callback throws", "handlers throw late"}

VARIABLES chain,     \* which of the chains this is
          matching,  \* the layers whose type is that of the request, or any
          troubles,  \* those of Troubles that may happen
          at,        \* what is running; "loop" when nothing of the chain is
          layer,     \* the layer a pass is at, or whose handler runs
          result,    \* what a pass was told, or is about to be called back
          tries,     \* the layers whose try block is on the stack
          waiting,   \* handlers that have neither called back nor answered
          said,      \* history: what each handler did
          calls,     \* what the chain called back with, call by call
          answered   \* a handler ended the response

vars == <<chain, matching, troubles, at, layer, result, tries, waiting, said,
          calls, answered>>
fixed == <<chain, matching, troubles>>

Init ==
  /\ chain \in Chains
  /\ matching \in SUBSET Layers
  /\ chain \in {"serialize", "deserialize"} => matching = Layers
  /\ troubles \in SUBSET Troubles
  /\ at = "pass" /\ layer = 1
  /\ result = IF chain = "respondError" THEN "error" ELSE "nothing"
  /\ tries = {} /\ waiting = {}
  /\ said = [i \in Layers |-> "none"]
  /\ calls = <<>> /\ answered = FALSE

Innermost(i) == i \in tries /\ \A j \in tries : j <= i

Unchanged == UNCHANGED <<fixed, waiting, said, calls, answered>>

\* Mutants of PassEnds: the chain goes on after calling back with an error, and
\* it does not call back when it has run out of layers.
PassEndsGoingOn ==
  /\ at = "pass"
  /\ \/ /\ Settles(chain, result)
        /\ calls' = Append(calls, result)
        /\ result' = "nothing" /\ UNCHANGED at
     \/ /\ ~Settles(chain, result) /\ layer = N + 1
        /\ result' = Exhausted(chain, result)
        /\ at' = "callback" /\ UNCHANGED calls
  /\ UNCHANGED <<fixed, waiting, said, answered, layer, tries>>
PassEndsSilently ==
  /\ at = "pass"
  /\ \/ Settles(chain, result) /\ at' = "callback"
     \/ ~Settles(chain, result) /\ layer = N + 1 /\ at' = "return"
  /\ Unchanged /\ UNCHANGED <<layer, result, tries>>

\* pass or next with a result that settles the chain, or without a layer left.
PassEnds ==
  /\ at = "pass"
  /\ \/ Settles(chain, result) /\ UNCHANGED result
     \/ /\ ~Settles(chain, result) /\ layer = N + 1
        /\ result' = Exhausted(chain, result)
  /\ at' = "callback"
  /\ Unchanged /\ UNCHANGED <<layer, tries>>

\* Mutant of PassSkips: the end of the layers is not noticed.
PassSkipsPast ==
  /\ at = "pass" /\ ~Settles(chain, result) /\ layer \notin matching
  /\ layer' = layer + 1
  /\ result' = IF chain = "respondError" THEN result ELSE "nothing"
  /\ tries' = tries \cup {layer}
  /\ Unchanged /\ UNCHANGED at

\* A layer of another type is left out; only an error handler passes the result
\* on.  Its pass is on the stack all the same.
PassSkips ==
  /\ at = "pass" /\ ~Settles(chain, result) /\ layer \in Layers \ matching
  /\ layer' = layer + 1
  /\ result' = IF chain = "respondError" THEN result ELSE "nothing"
  /\ tries' = tries \cup {layer}
  /\ Unchanged /\ UNCHANGED at

\* Mutant of PassCalls: the index is not moved past the layers it has seen.
PassCallsFirst ==
  /\ at = "pass" /\ ~Settles(chain, result) /\ layer \in matching
  /\ at' = "handler"
  /\ tries' = tries \cup {layer}
  /\ waiting' = waiting \cup {layer}
  /\ layer' = CHOOSE i \in matching : \A j \in matching : i <= j
  /\ UNCHANGED <<fixed, result, said, calls, answered>>

PassCalls ==
  /\ at = "pass" /\ ~Settles(chain, result) /\ layer \in matching
  /\ at' = "handler"
  /\ tries' = tries \cup {layer}
  /\ waiting' = waiting \cup {layer}
  /\ UNCHANGED <<fixed, layer, result, said, calls, answered>>

\* The handler of layer i calls back: the chain goes on at the next layer.
CallsBack(i) ==
  \E r \in Gives[chain] :
    /\ waiting' = waiting \ {i}
    /\ said' = [said EXCEPT ![i] = r]
    /\ at' = "pass" /\ layer' = i + 1 /\ result' = r
    /\ UNCHANGED <<fixed, tries, calls, answered>>

\* It ends the response instead.
Answers(i) ==
  /\ chain \in Answering
  /\ waiting' = waiting \ {i}
  /\ said' = [said EXCEPT ![i] = "answer"]
  /\ answered' = TRUE
  /\ at' = IF at = "handler" THEN "return" ELSE at
  /\ UNCHANGED <<fixed, layer, result, tries, calls>>

\* A handler that was just called.
Handle ==
  /\ at = "handler"
  /\ \/ CallsBack(layer)
     \/ Answers(layer)
     \/ /\ at' = "throw"
        /\ waiting' = waiting \ {layer}
        /\ said' = [said EXCEPT ![layer] = "exception"]
        /\ UNCHANGED <<fixed, layer, result, tries, calls, answered>>
     \/ at' = "return" /\ Unchanged /\ UNCHANGED <<layer, result, tries>>

\* A handler that returned without calling back does so from the event loop.
HandleLater ==
  /\ at = "loop"
  /\ \E i \in waiting : CallsBack(i) \/ Answers(i)

\* The callback of the chain runs, to its end or to an exception.
Callback ==
  /\ at = "callback"
  /\ calls' = Append(calls, result)
  /\ \/ at' = "return"
     \/ "callback throws" \in troubles /\ at' = "throw"
  /\ UNCHANGED <<fixed, layer, result, tries, waiting, said, answered>>

\* The calls on the stack return, the innermost first; the handler that made a
\* call, or ended the response, may throw then.  (A request parser that returns
\* its value cannot, the chain goes on after it has returned: for it this is
\* more than can happen.)
Return ==
  /\ at = "return"
  /\ \/ tries = {} /\ at' = "loop" /\ UNCHANGED tries
     \/ \E i \in tries : /\ Innermost(i)
                         /\ tries' = tries \ {i}
                         /\ UNCHANGED at
     \/ /\ "handlers throw late" \in troubles
        /\ \E i \in tries :
             Innermost(i) /\ said[i] \in Gives[chain] \cup {"answer"}
        /\ at' = "throw" /\ UNCHANGED tries
  /\ Unchanged /\ UNCHANGED <<layer, result>>

\* Mutant of Catch: the catch block is inside another try block of its layer.
CatchStaying ==
  /\ at = "throw"
  /\ \/ /\ tries = {}
        /\ at' = "loop" /\ UNCHANGED <<tries, result>>
     \/ \E i \in tries : /\ Innermost(i)
                         /\ at' = "callback" /\ result' = "exception"
                         /\ UNCHANGED tries
  /\ Unchanged /\ UNCHANGED layer

\* Another: what is caught is passed on to the next layer, not called back.
CatchPassingOn ==
  /\ at = "throw"
  /\ \/ /\ tries = {}
        /\ at' = "loop" /\ UNCHANGED <<tries, result, layer>>
     \/ \E i \in tries : /\ Innermost(i)
                         /\ tries' = tries \ {i}
                         /\ at' = "pass" /\ result' = "exception" /\ layer' = i + 1
  /\ Unchanged

\* The innermost try block catches what is thrown and calls back with it; with
\* none on the stack it is left to the caller.
Catch ==
  /\ at = "throw"
  /\ \/ /\ tries = {}
        /\ at' = "loop" /\ UNCHANGED <<tries, result>>
     \/ \E i \in tries : /\ Innermost(i)
                         /\ tries' = tries \ {i}
                         /\ at' = "callback" /\ result' = "exception"
  /\ Unchanged /\ UNCHANGED layer

Next == \/ PassEnds \/ PassSkips \/ PassCalls \/ Handle \/ HandleLater
        \/ Callback \/ Return \/ Catch

\* The code runs to its end, and a handler that has been called answers or
\* calls back in time.
Spec == Init /\ [][Next]_vars /\ WF_vars(Next)
-----------------------------------------------------------------------------
TypeOK ==
  /\ chain \in Chains /\ matching \subseteq Layers
  /\ troubles \subseteq Troubles
  /\ at \in {"pass", "handler", "callback", "return", "throw", "loop"}
  /\ layer \in 1..(N + 1)
  /\ at = "handler" => layer \in waiting
  /\ result \in Results
  /\ tries \subseteq Layers /\ waiting \subseteq Layers
  /\ said \in [Layers -> Results \cup {"none", "answer"}]
  /\ calls \in Seq(Results) /\ answered \in BOOLEAN

\* However handlers mix calling back at once, later, throwing and answering, the
\* chain calls back or leaves the response to a handler, once and never both.
CalledBackOnce ==
  troubles = {} =>
    Len(calls) + (IF answered THEN 1 ELSE 0) <= 1

Asked == {i \in Layers : said[i] # "none"}
LastSaid == said[CHOOSE i \in Asked : \A j \in Asked : j <= i]

\* What a handler says is final: it throws, reports an error (an error handler
\* passes it on instead), or finds what a serializer is asked for.
Final(i) == \/ said[i] \in {"exception", "false"}
            \/ said[i] = "error" /\ chain # "respondError"
            \/ said[i] = "value" /\ chain \in {"serialize", "deserialize"}

\* What the callback gets when no handler had anything final to say.
Unsettled(r) ==
  CASE chain = "respondError" -> r = (IF Asked = {} THEN "error" ELSE LastSaid)
    [] chain \in {"serialize", "deserialize"} -> r = "failed"
    [] OTHER -> r \in {"value", "nothing"}

\* The first outcome is what counts: the callback gets what the first handler
\* with something final to say gave, and the matching handlers up to that one,
\* no other, have been asked; without such a handler all of them have been.
\* This is so even if the callback throws, and is called again.
FirstOutcomeReported ==
  "handlers throw late" \notin troubles /\ calls # <<>> =>
    IF \E i \in Asked : Final(i)
      THEN \E i \in Asked : /\ Final(i) /\ calls[1] = said[i]
                            /\ Asked = {j \in matching : j <= i}
                            /\ \A j \in Asked \ {i} : ~Final(j)
      ELSE Asked = matching /\ Unsettled(calls[1])

\* The callback runs inside the try blocks of the chain.  When it throws, or a
\* handler throws after it has called back, it is called again, but each layer
\* catches no more than one exception.
CaughtOncePerLayer == Len(calls) <= N + 1

\* Even so, the handlers are asked in the order they were registered in, and
\* none is asked twice.
AskedInOrder ==
  [][\A i \in Layers : said'[i] # said[i] => \A j \in Asked : j < i]_vars

Call == INSTANCE ChainCall

\* To its caller a chain is one call with one outcome, however its handlers mix
\* calling back at once, later, throwing and answering.  When only its callback
\* throws, every further call hands it an exception, never another result.
ImplementsCall == Call!Spec

\* The chain comes to rest, having called back unless the response was ended.
ChainConcludes ==
  <>[](at = "loop" /\ waiting = {} /\ (calls # <<>> \/ answered))
=============================================================================
