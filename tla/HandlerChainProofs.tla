------------------------- MODULE HandlerChainProofs -------------------------
(***************************************************************************)
(* A chain of any length calls back, or leaves the response to a handler,  *)
(* once: whatever is to happen, it is exactly one thing at a time.         *)
(* What it calls back with is the first outcome, and so its caller may     *)
(* take it for the one call that ChainCall describes.                      *)
(***************************************************************************)
EXTENDS HandlerChain, FiniteSetTheorems, TLAPS

Orderly == troubles = {}
Open == calls = <<>> /\ ~answered

\* One thing carries the chain on: the code that runs, or one handler that has
\* yet to call back.  Once the chain has concluded, nothing does.
OneCarrier ==
  /\ at \in {"pass", "callback", "throw"} => Open /\ waiting = {}
  /\ at = "handler" => Open /\ waiting = {layer}
  /\ at = "loop" => tries = {}
  /\ ~Open => waiting = {}
  /\ \A i, j \in waiting : i = j
  /\ calls = <<>> \/ ~answered
  /\ Len(calls) <= 1

ChainInv == TypeOK /\ (Orderly => OneCarrier)

-----------------------------------------------------------------------------
\* What the functions on results return.
LEMMA ResultTypes ==
  ASSUME NEW c \in Chains, NEW r \in Results
  PROVE  /\ Settles(c, r) \in BOOLEAN
         /\ Exhausted(c, r) \in Results
         /\ Gives[c] \subseteq Results
BY DEF Chains, Results, Settles, Exhausted, Gives

LEMMA ChainInit == Init => ChainInv
<1> SUFFICES ASSUME Init PROVE ChainInv
  OBVIOUS
<1> USE ChainAssumption DEF Init, Layers
<1>0. layer \in 1..(N + 1) /\ tries \subseteq Layers /\ waiting \subseteq Layers
  OBVIOUS
<1>1. calls \in Seq(Results) /\ said \in [Layers -> Results \cup {"none", "answer"}]
  BY SMT
<1>2. result \in Results
  BY DEF Results
<1>3. TypeOK
  BY <1>0, <1>1, <1>2 DEF TypeOK
<1>4. OneCarrier
  BY DEF OneCarrier, Open
<1> QED BY <1>3, <1>4 DEF ChainInv

\* A handler calls back or answers, from the stack or from the event loop.
LEMMA HandlerConcludes ==
  ASSUME ChainInv, NEW i \in waiting, at \in {"handler", "loop"},
         CallsBack(i) \/ Answers(i)
  PROVE  ChainInv'
<1> USE ChainAssumption DEF ChainInv, Layers
<1>0. Orderly' => Orderly
  BY DEF CallsBack, Answers, fixed, Orderly
<1>1. i \in Layers
  BY DEF TypeOK
<1>2. CASE CallsBack(i)
  <2>1. PICK r \in Gives[chain] :
          /\ waiting' = waiting \ {i}
          /\ said' = [said EXCEPT ![i] = r]
          /\ at' = "pass" /\ layer' = i + 1 /\ result' = r
          /\ UNCHANGED <<fixed, tries, calls, answered>>
    BY <1>2 DEF CallsBack
  <2>2. r \in Results
    BY ResultTypes DEF TypeOK, Results
  <2>3. said' \in [Layers -> Results \cup {"none", "answer"}] /\ layer' \in 1..(N + 1)
    <3>1. said \in [Layers -> Results \cup {"none", "answer"}]
      BY DEF TypeOK
    <3> QED BY <1>1, <2>1, <2>2, <3>1
  <2>4. waiting' \subseteq Layers /\ result' \in Results
    BY <2>1, <2>2 DEF TypeOK
  <2>5. TypeOK'
    BY <2>1, <2>3, <2>4, Zenon DEF TypeOK, fixed
  <2>6. Orderly => OneCarrier'
    BY <2>1 DEF OneCarrier, Open
  <2> QED BY <1>0, <2>5, <2>6
<1>3. CASE Answers(i)
  <2>1. TypeOK'
    BY <1>1, <1>3 DEF TypeOK, Answers, fixed
  <2>2. Orderly => OneCarrier'
    BY <1>3 DEF OneCarrier, Open, Answers
  <2> QED BY <1>0, <2>1, <2>2
<1> QED BY <1>2, <1>3

LEMMA ChainNext ==
  ASSUME ChainInv, [Next]_vars
  PROVE  ChainInv'
<1> USE ChainAssumption DEF ChainInv, Layers
<1>0. Orderly' => Orderly
  BY DEF Next, PassEnds, PassSkips, PassCalls, Handle, HandleLater, CallsBack,
         Answers, Callback, Return, Catch, Unchanged, vars, fixed, Orderly
<1>1. CASE PassEnds
  <2>1. result' \in Results
    BY <1>1, ResultTypes DEF PassEnds, TypeOK
  <2>2. TypeOK'
    BY <1>1, <2>1 DEF PassEnds, Unchanged, fixed, TypeOK
  <2>3. Orderly => OneCarrier'
    BY <1>1 DEF PassEnds, Unchanged, OneCarrier, Open
  <2> QED BY <1>0, <2>2, <2>3
<1>2. CASE PassSkips
  <2>1. TypeOK'
    BY <1>2 DEF PassSkips, Unchanged, fixed, TypeOK, Results
  <2>2. Orderly => OneCarrier'
    BY <1>2 DEF PassSkips, Unchanged, OneCarrier, Open
  <2> QED BY <1>0, <2>1, <2>2
<1>3. CASE PassCalls
  <2>1. TypeOK'
    BY <1>3 DEF PassCalls, fixed, TypeOK
  <2>2. Orderly => OneCarrier'
    BY <1>3 DEF PassCalls, OneCarrier, Open
  <2> QED BY <1>0, <2>1, <2>2
<1>4. CASE Handle
  <2>1. at = "handler" /\ layer \in waiting
    BY <1>4 DEF Handle, TypeOK
  <2>2. CASE CallsBack(layer) \/ Answers(layer)
    BY <2>1, <2>2, HandlerConcludes
  <2>3. CASE /\ at' = "throw"
             /\ waiting' = waiting \ {layer}
             /\ said' = [said EXCEPT ![layer] = "exception"]
             /\ UNCHANGED <<fixed, layer, result, tries, calls, answered>>
    <3>1. TypeOK'
      BY <2>3 DEF TypeOK, fixed, Results
    <3>2. Orderly => OneCarrier'
      BY <2>1, <2>3 DEF OneCarrier, Open
    <3> QED BY <1>0, <3>1, <3>2
  <2>4. CASE at' = "return" /\ Unchanged /\ UNCHANGED <<layer, result, tries>>
    <3>1. TypeOK'
      BY <2>4 DEF TypeOK, Unchanged, fixed
    <3>2. Orderly => OneCarrier'
      BY <2>1, <2>4 DEF OneCarrier, Open, Unchanged
    <3> QED BY <1>0, <3>1, <3>2
  <2> QED BY <1>4, <2>2, <2>3, <2>4 DEF Handle
<1>5. CASE HandleLater
  BY <1>5, HandlerConcludes DEF HandleLater
<1>6. CASE Callback
  <2>0. calls \in Seq(Results) /\ result \in Results /\ calls' = Append(calls, result)
    BY <1>6 DEF Callback, TypeOK
  <2>1. Len(calls') = Len(calls) + 1 /\ calls' \in Seq(Results)
    BY <2>0
  <2>2. TypeOK'
    BY <1>6, <2>1 DEF Callback, fixed, TypeOK
  <2>3. Orderly => OneCarrier'
    BY <1>6, <2>1 DEF Callback, OneCarrier, Open, Orderly
  <2> QED BY <1>0, <2>2, <2>3
<1>7. CASE Return
  <2>1. TypeOK'
    BY <1>7 DEF Return, Unchanged, fixed, TypeOK
  <2>2. Orderly => OneCarrier'
    BY <1>7 DEF Return, Unchanged, OneCarrier, Open, Orderly
  <2> QED BY <1>0, <2>1, <2>2
<1>8. CASE Catch
  <2>1. TypeOK'
    BY <1>8 DEF Catch, Unchanged, fixed, TypeOK, Results
  <2>2. Orderly => OneCarrier'
    BY <1>8 DEF Catch, Unchanged, OneCarrier, Open
  <2> QED BY <1>0, <2>1, <2>2
<1>9. CASE UNCHANGED vars
  <2>1. TypeOK' /\ (Orderly => OneCarrier')
    BY <1>9 DEF vars, fixed, TypeOK, OneCarrier, Open
  <2> QED BY <1>0, <2>1
<1> QED
  BY <1>1, <1>2, <1>3, <1>4, <1>5, <1>6, <1>7, <1>8, <1>9 DEF Next

-----------------------------------------------------------------------------
THEOREM ChainCorrect == Spec => []ChainInv
BY ChainInit, ChainNext, PTL DEF Spec

\* The chains of server.js, however many handlers are registered and however
\* they mix calling back at once, later, throwing and answering, never call back
\* twice, nor after a handler has ended the response.
THEOREM ChainCallsBackOnce == Spec => []CalledBackOnce
<1>1. ChainInv => CalledBackOnce
  BY DEF ChainInv, Orderly, OneCarrier, Open, CalledBackOnce, TypeOK
<1> QED BY <1>1, ChainCorrect, PTL

\* The variables of a chain keep their types; for one, whatever is called back is
\* a result of the chain, and no layer is asked that was not registered.
THEOREM ChainTypesKept == Spec => []TypeOK
<1>1. ChainInv => TypeOK
  BY DEF ChainInv
<1> QED BY <1>1, ChainCorrect, PTL
-----------------------------------------------------------------------------
(* How often a chain calls back when it is not orderly. *)

\* The calls to come before an exception is thrown: one, and one for every try
\* block the pass may still open.
Ahead == IF at = "pass" THEN N + 2 - layer
         ELSE IF waiting # {} THEN N + 1 - layer ELSE 0

\* Every try block on the stack stands for a call that an exception may cause.
Budget ==
  /\ at = "pass" => waiting = {}
  /\ waiting \subseteq {layer}
  /\ Len(calls) + (IF at = "callback" THEN 1 ELSE 0) + Cardinality(tries) + Ahead
       <= N + 1

LEMMA LayerCounts ==
  ASSUME NEW T \in SUBSET Layers, NEW i \in Layers
  PROVE  /\ Cardinality(T) \in Nat
         /\ Cardinality(T \cup {i}) \in Nat /\ Cardinality(T \ {i}) \in Nat
         /\ Cardinality(T \cup {i}) <= Cardinality(T) + 1
         /\ i \in T => Cardinality(T \ {i}) = Cardinality(T) - 1
<1>1. IsFiniteSet(Layers)
  BY FS_Interval, ChainAssumption DEF Layers
<1>2. IsFiniteSet(T)
  BY <1>1, FS_Subset
<1>3. IsFiniteSet(T \cup {i}) /\ IsFiniteSet(T \ {i})
  BY <1>2, FS_AddElement, FS_RemoveElement
<1>4. /\ Cardinality(T) \in Nat
      /\ Cardinality(T \cup {i}) \in Nat /\ Cardinality(T \ {i}) \in Nat
  BY <1>2, <1>3, FS_CardinalityType
<1>5. Cardinality(T \cup {i}) <= Cardinality(T) + 1
  BY <1>2, <1>4, FS_AddElement
<1>6. i \in T => Cardinality(T \ {i}) = Cardinality(T) - 1
  BY <1>2, FS_RemoveElement
<1> QED BY <1>4, <1>5, <1>6

LEMMA Counted ==
  ASSUME TypeOK
  PROVE  /\ Len(calls) \in Nat /\ layer \in 1..(N + 1) /\ tries \in SUBSET Layers
         /\ Cardinality(tries) \in Nat
<1>1. calls \in Seq(Results) /\ layer \in 1..(N + 1) /\ tries \subseteq Layers
  BY DEF TypeOK
<1>2. Len(calls) \in Nat
  BY <1>1
<1>3. IsFiniteSet(1..N)
  BY FS_Interval, ChainAssumption
<1>4. Cardinality(tries) \in Nat
  BY <1>1, <1>3, FS_Subset, FS_CardinalityType DEF Layers
<1> QED BY <1>1, <1>2, <1>4

LEMMA BudgetInit == Init => Budget
BY ChainAssumption, FS_EmptySet DEF Init, Budget, Ahead

\* A handler calls back or answers: what it had ahead, the chain has.
LEMMA BudgetHandler ==
  ASSUME TypeOK, Budget, NEW i \in waiting, at \in {"handler", "loop"},
         CallsBack(i) \/ Answers(i)
  PROVE  Budget'
<1> USE ChainAssumption
<1>1. i = layer /\ layer \in 1..N /\ waiting' = {}
  BY DEF Budget, TypeOK, Layers, CallsBack, Answers
<1>2. Len(calls) \in Nat /\ Cardinality(tries) \in Nat
  BY Counted
<1>3. UNCHANGED <<calls, tries>>
  BY DEF CallsBack, Answers
<1>4. CASE CallsBack(i)
  <2>1. at' = "pass" /\ layer' = i + 1
    BY <1>4 DEF CallsBack
  <2> QED BY <1>1, <1>2, <1>3, <2>1 DEF Budget, Ahead
<1>5. CASE Answers(i)
  <2>1. at' \in {"return", "loop"} /\ layer' = layer
    BY <1>5 DEF Answers
  <2> QED BY <1>1, <1>2, <1>3, <2>1 DEF Budget, Ahead
<1> QED BY <1>4, <1>5

LEMMA BudgetNext ==
  ASSUME TypeOK, Budget, [Next]_vars
  PROVE  Budget'
<1> USE ChainAssumption
<1>0. Len(calls) \in Nat /\ layer \in 1..(N + 1) /\ tries \in SUBSET Layers
  BY Counted
<1>1. Cardinality(tries) \in Nat
  BY Counted
<1>2. CASE PassEnds
  BY <1>0, <1>1, <1>2 DEF PassEnds, Unchanged, fixed, Budget, Ahead
<1>3. CASE PassSkips \/ PassCalls
  <2>1. layer \in Layers /\ tries' = tries \cup {layer} /\ UNCHANGED calls
    BY <1>3 DEF PassSkips, PassCalls, Unchanged, TypeOK
  <2>2. Cardinality(tries') \in Nat /\ Cardinality(tries') <= Cardinality(tries) + 1
    BY <1>0, <2>1, LayerCounts
  <2>3. CASE PassSkips
    <3>1. at = "pass" /\ at' = "pass" /\ layer' = layer + 1 /\ UNCHANGED waiting
      BY <2>3 DEF PassSkips, Unchanged
    <3> QED BY <1>0, <1>1, <2>1, <2>2, <3>1 DEF Budget, Ahead
  <2>4. CASE PassCalls
    <3>1. /\ at = "pass" /\ at' = "handler" /\ UNCHANGED layer
          /\ waiting' = waiting \cup {layer}
      BY <2>4 DEF PassCalls
    <3> QED BY <1>0, <1>1, <2>1, <2>2, <3>1 DEF Budget, Ahead
  <2> QED BY <1>3, <2>3, <2>4
<1>4. CASE Handle
  <2>1. at = "handler" /\ layer \in waiting
    BY <1>4 DEF Handle, TypeOK
  <2>2. CASE CallsBack(layer) \/ Answers(layer)
    BY <2>1, <2>2, BudgetHandler
  <2>3. CASE /\ at' = "throw" /\ waiting' = waiting \ {layer}
             /\ UNCHANGED <<layer, tries, calls>>
    BY <1>0, <1>1, <2>1, <2>3 DEF Budget, Ahead
  <2>4. CASE at' = "return" /\ Unchanged /\ UNCHANGED <<layer, result, tries>>
    BY <1>0, <1>1, <2>1, <2>4 DEF Budget, Ahead, Unchanged
  <2> QED BY <1>4, <2>2, <2>3, <2>4 DEF Handle
<1>5. CASE HandleLater
  BY <1>5, BudgetHandler DEF HandleLater
<1>6. CASE Callback
  <2>1. calls \in Seq(Results) /\ result \in Results /\ calls' = Append(calls, result)
    BY <1>6 DEF Callback, TypeOK
  <2>2. Len(calls') = Len(calls) + 1
    BY <2>1
  <2>3. /\ at = "callback" /\ at' \in {"return", "throw"}
        /\ UNCHANGED <<layer, tries, waiting>>
    BY <1>6 DEF Callback
  <2> QED BY <1>0, <1>1, <2>2, <2>3 DEF Budget, Ahead
<1>7. CASE Return \/ Catch
  <2>1. CASE UNCHANGED tries /\ at' \in {"throw", "loop"}
    BY <1>0, <1>1, <1>7, <2>1 DEF Return, Catch, Unchanged, Budget, Ahead
  <2>2. CASE \E i \in tries : tries' = tries \ {i}
    <3>1. Cardinality(tries') \in Nat /\ Cardinality(tries') = Cardinality(tries) - 1
      BY <1>0, <2>2, LayerCounts
    <3>2. /\ at \in {"return", "throw"} /\ at' \in {"return", "callback"}
          /\ UNCHANGED <<layer, waiting, calls>>
      BY <1>7, <2>2 DEF Return, Catch, Unchanged
    <3> QED BY <1>0, <1>1, <3>1, <3>2 DEF Budget, Ahead
  <2> QED BY <1>7, <2>1, <2>2 DEF Return, Catch
<1>8. CASE UNCHANGED vars
  BY <1>8 DEF vars, Budget, Ahead
<1> QED
  BY <1>2, <1>3, <1>4, <1>5, <1>6, <1>7, <1>8 DEF Next

\* Whatever the callback of a chain and its handlers throw, and whenever, a chain
\* of N layers calls back at most N + 1 times: every exception that makes it call
\* back again takes a try block off the stack, and each layer opens one.
THEOREM ChainCatchesOncePerLayer == Spec => []CaughtOncePerLayer
<1>1. Init => Budget
  BY BudgetInit
<1>2. TypeOK /\ Budget /\ [Next]_vars => Budget'
  BY BudgetNext
<1>3. TypeOK /\ Budget => CaughtOncePerLayer
  <2> SUFFICES ASSUME TypeOK, Budget PROVE CaughtOncePerLayer
    OBVIOUS
  <2>1. Len(calls) \in Nat /\ layer \in 1..(N + 1) /\ Cardinality(tries) \in Nat
    BY Counted
  <2>2. Ahead \in Nat
    BY <2>1, ChainAssumption DEF Ahead, Budget, TypeOK, Layers
  <2> QED BY <2>1, <2>2, ChainAssumption DEF Budget, CaughtOncePerLayer
<1> QED BY <1>1, <1>2, <1>3, ChainTypesKept, PTL DEF Spec
-----------------------------------------------------------------------------
(* The order in which handlers are asked. *)

\* As long as a handler may still be asked or speak, those that have spoken are
\* of earlier layers.
SpokenBefore == at = "pass" \/ waiting # {} => \A j \in Asked : j < layer

Speaks(i) == said' = [said EXCEPT ![i] = said'[i]] /\ \A j \in Asked : j < i

\* Only the handler of the current layer ever speaks.
LEMMA SpokenNext ==
  ASSUME TypeOK, Budget, SpokenBefore, [Next]_vars
  PROVE  /\ SpokenBefore'
         /\ UNCHANGED said \/ \E i \in Layers : Speaks(i)
<1> USE ChainAssumption
<1>1. /\ at = "pass" => waiting = {}
      /\ waiting \subseteq {layer} /\ waiting \subseteq Layers
      /\ at = "handler" => layer \in waiting
      /\ layer \in 1..(N + 1)
      /\ \A j \in Layers : j \in Nat
      /\ said \in [Layers -> Results \cup {"none", "answer"}]
  BY DEF Budget, TypeOK, Layers
<1>2. CASE PassEnds \/ PassSkips \/ PassCalls
  <2>1. at = "pass" /\ UNCHANGED said /\ layer' \in {layer, layer + 1}
    BY <1>2 DEF PassEnds, PassSkips, PassCalls, Unchanged
  <2>2. \A j \in Asked : j < layer /\ j \in Nat
    BY <1>1, <2>1 DEF SpokenBefore, Asked
  <2>3. Asked' = Asked
    BY <2>1 DEF Asked
  <2> QED BY <1>1, <2>1, <2>2, <2>3 DEF SpokenBefore
<1>3. CASE Handle \/ HandleLater
  <2>1. CASE \E i \in waiting :
               \E w \in Results \cup {"answer"} :
                  /\ said' = [said EXCEPT ![i] = w]
                  /\ waiting' = waiting \ {i}
                  /\ at' = "pass" => layer' = i + 1
    <3>1. PICK i \in waiting, w \in Results \cup {"answer"} :
             /\ said' = [said EXCEPT ![i] = w]
             /\ waiting' = waiting \ {i}
             /\ at' = "pass" => layer' = i + 1
      BY <2>1
    <3>2. i = layer /\ i \in Layers /\ waiting' = {}
      BY <1>1, <3>1
    <3>3. \A j \in Asked : j < i /\ j \in Nat
      BY <1>1, <3>2 DEF SpokenBefore, Asked
    <3>4. Asked' \subseteq Asked \cup {i}
      BY <1>1, <3>1 DEF Asked
    <3>5. SpokenBefore'
      <4>1. i \in Nat /\ \A j \in Asked' : j <= i /\ j \in Nat
        BY <1>1, <3>2, <3>3, <3>4
      <4>2. at' = "pass" => \A j \in Asked' : j < layer'
        BY <3>1, <4>1
      <4> QED BY <3>2, <4>2 DEF SpokenBefore
    <3>6. said' = [said EXCEPT ![i] = said'[i]]
      BY <1>1, <3>1, <3>2
    <3> QED BY <3>2, <3>3, <3>5, <3>6 DEF Speaks
  <2>2. CASE at' = "return" /\ Unchanged /\ UNCHANGED layer
    <3>1. UNCHANGED <<said, waiting, layer>> /\ at' # "pass"
      BY <2>2 DEF Unchanged
    <3> QED BY <3>1 DEF SpokenBefore, Asked
  <2>3. Gives[chain] \subseteq Results
    BY ResultTypes DEF TypeOK, Results
  <2> QED BY <1>1, <1>3, <2>1, <2>2, <2>3
          DEF Handle, HandleLater, CallsBack, Answers, Results
<1>4. CASE Callback \/ Return \/ Catch \/ UNCHANGED vars
  <2>1. UNCHANGED <<said, waiting, layer>> /\ (at' = "pass" => at = "pass")
    BY <1>4 DEF Callback, Return, Catch, Unchanged, vars
  <2> QED BY <2>1 DEF SpokenBefore, Asked
<1> QED BY <1>2, <1>3, <1>4 DEF Next

\* Even when the callback throws, or handlers throw after they have called back,
\* so that catch blocks call back in the midst of a pass, no chain asks a handler
\* twice, nor one after a handler that was registered behind it.
THEOREM ChainAsksInOrder == Spec => AskedInOrder
<1>1. Init => Budget /\ SpokenBefore
  BY BudgetInit DEF Init, SpokenBefore, Asked
<1>2. TypeOK /\ Budget /\ SpokenBefore /\ [Next]_vars
        => Budget' /\ SpokenBefore'
  BY BudgetNext, SpokenNext
<1>3. TypeOK /\ Budget /\ SpokenBefore /\ [Next]_vars
        => [\A i \in Layers : said'[i] # said[i] => \A j \in Asked : j < i]_vars
  <2> SUFFICES ASSUME TypeOK, Budget, SpokenBefore, [Next]_vars,
                      NEW i \in Layers, said'[i] # said[i]
               PROVE  \A j \in Asked : j < i
    OBVIOUS
  <2>1. PICK k \in Layers : Speaks(k)
    BY SpokenNext
  <2>2. said \in [Layers -> Results \cup {"none", "answer"}]
    BY DEF TypeOK
  <2>3. i = k
    BY <2>1, <2>2 DEF Speaks
  <2> QED BY <2>1, <2>3 DEF Speaks
<1> QED BY <1>1, <1>2, <1>3, ChainTypesKept, PTL DEF Spec, AskedInOrder
-----------------------------------------------------------------------------
(* What the callback is told. *)

Told == Asked = {j \in matching : j < layer}
NoneFinal == \A j \in Asked : ~Final(j)

\* What FirstOutcomeReported says of the first call, of any result.
Reported(r) ==
  IF \E i \in Asked : Final(i)
    THEN \E i \in Asked : /\ Final(i) /\ r = said[i]
                          /\ Asked = {j \in matching : j <= i}
                          /\ \A j \in Asked \ {i} : ~Final(j)
    ELSE Asked = matching /\ Unsettled(r)

\* A pass carries on with nothing final, or has just been told the first that is.
Heard ==
  \/ /\ NoneFinal /\ ~Settles(chain, result)
     /\ chain = "respondError" =>
          result = IF Asked = {} THEN "error" ELSE LastSaid
  \/ /\ Settles(chain, result)
     /\ layer - 1 \in Asked /\ Final(layer - 1) /\ said[layer - 1] = result
     /\ \A j \in Asked \ {layer - 1} : ~Final(j)

\* As long as handlers do not throw after they have called back, a result that is
\* about to be reported is the first outcome.
Reporting ==
  /\ at = "pass" => calls = <<>> /\ Told /\ Heard
  /\ waiting # {} => /\ at \in {"handler", "return", "loop"} /\ calls = <<>>
                     /\ Told /\ NoneFinal /\ layer \in matching
  /\ calls = <<>> => /\ at = "callback" => Reported(result)
                     /\ at = "throw" => Reported("exception")
  /\ calls # <<>> => Reported(calls[1])

Sedate == "handlers throw late" \notin troubles

\* The layers before one, and those up to it.
LEMMA UpTo ==
  ASSUME NEW M \in SUBSET Layers, NEW i \in 1..(N + 1)
  PROVE  /\ {j \in M : j < i} = {j \in M : j <= i - 1}
         /\ {j \in M : j <= i} = {j \in M : j < i + 1}
         /\ i \in M => {j \in M : j <= i} = {j \in M : j < i} \cup {i}
         /\ i \notin M => {j \in M : j < i} = {j \in M : j < i + 1}
         /\ i = N + 1 => {j \in M : j < i} = M
<1> USE ChainAssumption DEF Layers
<1>1. \A j \in M : j \in Int /\ j <= N
  OBVIOUS
<1>2. i \in Int
  OBVIOUS
<1>3. \A j \in M : /\ j < i <=> j <= i - 1
                   /\ j <= i <=> j < i + 1
                   /\ j <= i <=> j < i \/ j = i
                   /\ j # i => (j < i <=> j < i + 1)
                   /\ i = N + 1 => j < i
  BY <1>1, <1>2
<1> QED BY <1>3

LEMMA ReportInit == Init => (Sedate => Reporting)
<1> SUFFICES ASSUME Init PROVE Reporting
  OBVIOUS
<1>1. /\ at = "pass" /\ calls = <<>> /\ waiting = {} /\ Asked = {} /\ layer = 1
      /\ chain \in Chains
      /\ result = IF chain = "respondError" THEN "error" ELSE "nothing"
  BY DEF Init, Asked
<1>2. ~Settles(chain, result)
  BY <1>1 DEF Settles, Chains
<1>3. \A j \in matching : ~(j < 1)
  BY ChainAssumption DEF Init, Layers
<1>4. Told /\ Heard
  BY <1>1, <1>2, <1>3 DEF Told, Heard, NoneFinal
<1> QED BY <1>1, <1>4 DEF Reporting

\* What is final settles the chain, unless it was thrown, and what settles it is
\* final.
LEMMA FinalSettles ==
  ASSUME TypeOK, NEW i \in Layers, NEW r \in Gives[chain], said[i] = r
  PROVE  Final(i) <=> Settles(chain, r)
BY DEF TypeOK, Chains, Gives, Final, Settles

\* The handler of the current layer speaks.
LEMMA Speaking ==
  ASSUME TypeOK, TypeOK', Told, NoneFinal, layer \in matching, NEW w,
         said' = [said EXCEPT ![layer] = w], w # "none", UNCHANGED fixed
  PROVE  /\ Asked' = {j \in matching : j <= layer} /\ layer \in Asked'
         /\ \A j \in Asked' \ {layer} : ~Final(j)'
         /\ said'[layer] = w /\ LastSaid' = w
<1> USE ChainAssumption DEF TypeOK, Layers
<1>1. Asked' = Asked \cup {layer}
  BY DEF Asked
<1>2. Asked' = {j \in matching : j <= layer}
  BY <1>1, UpTo DEF Told
<1>3. \A j \in Asked' \ {layer} : ~Final(j)'
  <2>1. \A j \in Asked' \ {layer} : j \in Asked /\ said'[j] = said[j]
    BY <1>1 DEF Asked
  <2> QED BY <2>1 DEF NoneFinal, Final, fixed
<1>4. \A i \in Asked' : (\A j \in Asked' : j <= i) <=> i = layer
  BY <1>2
<1>5. LastSaid' = w
  BY <1>1, <1>4 DEF LastSaid
<1> QED BY <1>1, <1>2, <1>3, <1>5

LEMMA ReportHandler ==
  ASSUME TypeOK, TypeOK', Budget, Reporting, at \in {"handler", "loop"}, NEW i \in waiting,
         CallsBack(i) \/ Answers(i)
  PROVE  Reporting'
<1> USE ChainAssumption
<1>1. /\ i = layer /\ layer \in matching /\ layer \in Layers /\ waiting' = {}
      /\ calls = <<>> /\ Told /\ NoneFinal
  BY DEF Budget, TypeOK, Layers, CallsBack, Answers, Reporting
<1>2. CASE CallsBack(i)
  <2>1. PICK r \in Gives[chain] :
          /\ said' = [said EXCEPT ![i] = r]
          /\ at' = "pass" /\ layer' = i + 1 /\ result' = r
          /\ UNCHANGED <<fixed, calls>>
    BY <1>2 DEF CallsBack
  <2>2. r # "none" /\ (r \in Results)
    BY ResultTypes DEF TypeOK, Chains, Gives, Results
  <2>3. /\ Asked' = {j \in matching : j <= layer} /\ layer \in Asked'
        /\ \A j \in Asked' \ {layer} : ~Final(j)'
        /\ said'[layer] = r /\ LastSaid' = r
    BY <1>1, <2>1, <2>2, Speaking
  <2>4. Told' /\ layer' - 1 = layer
    BY <1>1, <2>1, <2>3, UpTo DEF Told, fixed, TypeOK, Layers
  <2>5. Final(i)' <=> Settles(chain, r)
    <3>1. chain \in Chains /\ chain' = chain /\ said'[i] = r
      BY <1>1, <2>1, <2>3 DEF TypeOK, fixed
    <3> QED BY <3>1 DEF Chains, Gives, Final, Settles
  <2>6. Heard'
    <3>1. CASE Settles(chain, r)
      <4>1. Settles(chain, result)'
        BY <2>1, <3>1 DEF Settles, fixed
      <4>2. (layer - 1)' = i
        BY <1>1, <2>1, <2>4
      <4> QED BY <1>1, <2>1, <2>3, <2>5, <3>1, <4>1, <4>2 DEF Heard, Final
    <3>2. CASE ~Settles(chain, r)
      <4>1. ~Settles(chain, result)'
        BY <2>1, <3>2 DEF Settles, fixed
      <4>2. NoneFinal'
        BY <1>1, <2>3, <2>5, <3>2 DEF NoneFinal
      <4> QED BY <2>1, <2>3, <4>1, <4>2 DEF Heard
    <3> QED BY <3>1, <3>2
  <2> QED BY <1>1, <2>1, <2>4, <2>6 DEF Reporting
<1>3. CASE Answers(i)
  <2>1. at' \in {"return", "loop"} /\ UNCHANGED calls
    BY <1>3 DEF Answers
  <2> QED BY <1>1, <2>1 DEF Reporting
<1> QED BY <1>2, <1>3

\* A pass that ends reports what settled the chain, or that nothing did.
LEMMA ReportEnds ==
  ASSUME TypeOK, Budget, Reporting, PassEnds
  PROVE  Reporting'
<1> USE ChainAssumption
<1>1. /\ at = "pass" /\ calls = <<>> /\ Told /\ Heard /\ waiting = {}
      /\ at' = "callback"
      /\ UNCHANGED <<chain, matching, said, calls, waiting>>
  BY DEF PassEnds, Unchanged, fixed, Reporting, Budget
<1>2. Asked' = Asked /\ (NoneFinal' <=> NoneFinal)
  BY <1>1 DEF Asked, NoneFinal, Final
<1>3. layer \in 1..(N + 1) /\ matching \subseteq 1..N
  BY DEF TypeOK, Layers
<1>4. CASE Settles(chain, result) /\ UNCHANGED result
  <2>1. /\ layer - 1 \in Asked /\ Final(layer - 1) /\ said[layer - 1] = result
        /\ \A j \in Asked \ {layer - 1} : ~Final(j)
    BY <1>1, <1>4 DEF Heard
  <2>2. Asked = {j \in matching : j <= layer - 1}
    BY <1>1, <1>3, UpTo DEF Told, Layers
  <2>3. Reported(result)
    BY <2>1, <2>2 DEF Reported
  <2>4. Reported(result)'
    BY <1>1, <1>2, <1>4, <2>3 DEF Reported, Final, Unsettled, LastSaid
  <2> QED BY <1>1, <2>4 DEF Reporting
<1>5. CASE /\ ~Settles(chain, result) /\ layer = N + 1
           /\ result' = Exhausted(chain, result)
  <2>1. Asked = matching
    BY <1>1, <1>3, <1>5, UpTo DEF Told, Layers
  <2>2. NoneFinal /\ (chain = "respondError" =>
                        result = IF Asked = {} THEN "error" ELSE LastSaid)
    BY <1>1, <1>5 DEF Heard
  <2>3. Unsettled(Exhausted(chain, result))
    BY <2>2 DEF Unsettled, Exhausted, TypeOK, Chains
  <2>4. Reported(Exhausted(chain, result))
    BY <2>1, <2>2, <2>3 DEF Reported, NoneFinal
  <2>5. Reported(result)'
    BY <1>1, <1>2, <1>5, <2>4 DEF Reported, Final, Unsettled, LastSaid
  <2> QED BY <1>1, <2>5 DEF Reporting
<1> QED BY <1>4, <1>5 DEF PassEnds

LEMMA ReportNext ==
  ASSUME TypeOK, TypeOK', Budget, Sedate, Reporting, [Next]_vars
  PROVE  Reporting'
<1> USE ChainAssumption
<1>1. /\ at = "pass" => waiting = {} /\ calls = <<>> /\ Told /\ Heard
      /\ waiting \subseteq {layer}
      /\ layer \in 1..(N + 1) /\ matching \subseteq 1..N
  BY DEF Budget, TypeOK, Layers, Reporting
<1>2. CASE PassEnds
  BY <1>2, ReportEnds
<1>3. CASE PassSkips \/ PassCalls
  <2>1. /\ at = "pass" /\ ~Settles(chain, result) /\ layer \in 1..N
        /\ UNCHANGED <<chain, matching, said, calls>>
    BY <1>1, <1>3 DEF PassSkips, PassCalls, Unchanged, fixed, Layers
  <2>2. /\ Told /\ NoneFinal /\ calls = <<>> /\ waiting = {}
        /\ chain = "respondError" =>
             result = IF Asked = {} THEN "error" ELSE LastSaid
    BY <1>1, <2>1 DEF Heard
  <2>3. Asked' = Asked /\ NoneFinal' /\ LastSaid' = LastSaid
    BY <2>1, <2>2 DEF Asked, NoneFinal, Final, LastSaid
  <2>4. CASE PassSkips
    <3>1. /\ at' = "pass" /\ layer' = layer + 1 /\ layer \notin matching
          /\ result' = IF chain = "respondError" THEN result ELSE "nothing"
          /\ UNCHANGED waiting
      BY <2>1, <2>4 DEF PassSkips, Unchanged
    <3>2. Told'
      BY <1>1, <2>1, <2>2, <2>3, <3>1, UpTo DEF Told, Layers
    <3>3. ~Settles(chain, result)'
      BY <2>1, <3>1 DEF Settles, TypeOK, Chains
    <3>4. Heard'
      BY <2>1, <2>2, <2>3, <3>1, <3>3 DEF Heard
    <3> QED BY <2>1, <2>2, <3>1, <3>2, <3>4 DEF Reporting
  <2>5. CASE PassCalls
    <3>1. at' = "handler" /\ layer \in matching /\ UNCHANGED layer
      BY <2>5 DEF PassCalls
    <3>2. Told'
      BY <2>1, <2>2, <2>3, <3>1 DEF Told
    <3> QED BY <2>1, <2>2, <2>3, <3>1, <3>2 DEF Reporting
  <2> QED BY <1>3, <2>4, <2>5
<1>4. CASE Handle
  <2>1. /\ at = "handler" /\ layer \in waiting /\ calls = <<>>
        /\ Told /\ NoneFinal /\ layer \in matching
    BY <1>4 DEF Handle, TypeOK, Reporting
  <2>2. CASE CallsBack(layer) \/ Answers(layer)
    BY <2>1, <2>2, ReportHandler
  <2>3. CASE /\ at' = "throw" /\ waiting' = waiting \ {layer}
             /\ said' = [said EXCEPT ![layer] = "exception"]
             /\ UNCHANGED <<fixed, layer, result, tries, calls, answered>>
    <3>1. /\ Asked' = {j \in matching : j <= layer} /\ layer \in Asked'
          /\ \A j \in Asked' \ {layer} : ~Final(j)'
          /\ said'[layer] = "exception"
      BY <2>1, <2>3, Speaking
    <3>2. Final(layer)' /\ matching' = matching
      BY <2>3, <3>1 DEF Final, fixed
    <3>3. Reported("exception")'
      <4>1. \E i \in Asked' : Final(i)'
        BY <2>3, <3>1, <3>2 DEF Final
      <4>2. \E i \in Asked' : /\ Final(i)' /\ "exception" = said'[i]
                              /\ Asked' = {j \in matching' : j <= i}
                              /\ \A j \in Asked' \ {i} : ~Final(j)'
        BY <2>3, <3>1, <3>2 DEF Final
      <4> QED BY <4>1, <4>2, Zenon DEF Reported
    <3> QED BY <1>1, <2>1, <2>3, <3>3 DEF Reporting
  <2>4. CASE at' = "return" /\ Unchanged /\ UNCHANGED <<layer, result, tries>>
    BY <2>1, <2>4
       DEF Unchanged, fixed, Reporting, Told, NoneFinal, Asked, Final
  <2> QED BY <1>4, <2>2, <2>3, <2>4 DEF Handle
<1>5. CASE HandleLater
  BY <1>5, ReportHandler DEF HandleLater
<1>6. CASE Callback
  <2>1. /\ at = "callback" /\ at' \in {"return", "throw"}
        /\ calls' = Append(calls, result) /\ waiting = {}
        /\ UNCHANGED <<chain, matching, said, waiting>>
    BY <1>6 DEF Callback, fixed, Reporting
  <2>2. calls \in Seq(Results) /\ result \in Results
    BY DEF TypeOK
  <2>3. calls' # <<>> /\ calls'[1] = IF calls = <<>> THEN result ELSE calls[1]
    BY <2>1, <2>2
  <2>4. Reported(calls'[1])
    BY <2>1, <2>3 DEF Reporting
  <2>5. Reported(calls[1])'
    BY <2>1, <2>4 DEF Reported, Asked, Final, Unsettled, LastSaid
  <2> QED BY <2>1, <2>3, <2>5 DEF Reporting
<1>7. CASE Return \/ Catch \/ UNCHANGED vars
  <2>1. /\ UNCHANGED <<chain, matching, said, calls, waiting, layer>>
        /\ \/ UNCHANGED <<at, result>>
           \/ at = "return" /\ at' \in {"return", "loop"}
           \/ at = "throw" /\ at' = "loop"
           \/ at = "throw" /\ at' = "callback" /\ result' = "exception"
    <3>1. CASE Return
      BY <3>1 DEF Return, Unchanged, fixed, Sedate
    <3>2. CASE Catch
      BY <3>2 DEF Catch, Unchanged, fixed
    <3>3. CASE UNCHANGED vars
      BY <3>3 DEF vars, fixed
    <3> QED BY <1>7, <3>1, <3>2, <3>3
  <2>2. Asked' = Asked /\ (Told' <=> Told) /\ (NoneFinal' <=> NoneFinal)
    BY <2>1 DEF Told, NoneFinal, Asked, Final
  <2>3. UNCHANGED result => (Heard' <=> Heard)
    BY <2>1, <2>2 DEF Heard, NoneFinal, Asked, Final, Settles, LastSaid
  <2>4. \A r : Reported(r)' <=> Reported(r)
    BY <2>1, <2>2 DEF Reported, Final, Unsettled, LastSaid, Asked
  <2>5. (Reported(result)' <=> Reported(result')) /\ (Reported(calls[1])' <=> Reported(calls[1]))
    BY <2>1, <2>2 DEF Reported, Final, Unsettled, LastSaid, Asked
  <2>6. waiting # {} => at # "throw"
    BY DEF Reporting
  <2> QED BY <2>1, <2>2, <2>3, <2>4, <2>5, <2>6 DEF Reporting
<1> QED
  BY <1>2, <1>3, <1>4, <1>5, <1>6, <1>7 DEF Next

\* However many handlers are registered, whichever of them match, and even if the
\* callback throws and is called again: what a chain of server.js calls back with
\* first is the first outcome, and nobody behind the handler that gave it was
\* asked.
THEOREM ChainReportsFirstOutcome == Spec => []FirstOutcomeReported
<1>1. Init => Budget /\ (Sedate => Reporting)
  BY BudgetInit, ReportInit
<1>2. TypeOK /\ TypeOK' /\ Budget /\ (Sedate => Reporting) /\ [Next]_vars
        => Budget' /\ (Sedate => Reporting)'
  <2>1. [Next]_vars => (Sedate' => Sedate)
    BY DEF Next, PassEnds, PassSkips, PassCalls, Handle, HandleLater, CallsBack,
           Answers, Callback, Return, Catch, Unchanged, vars, fixed, Sedate
  <2> QED BY <2>1, BudgetNext, ReportNext
<1>3. (Sedate => Reporting) => FirstOutcomeReported
  BY DEF Sedate, Reporting, Reported, FirstOutcomeReported
<1> QED BY <1>1, <1>2, <1>3, ChainTypesKept, PTL DEF Spec
-----------------------------------------------------------------------------
(* What a chain is to its caller. *)

\* What may be on its way to the callback.
OutcomeDue ==
  /\ at = "pass" => result \in Gives[chain] \cup {"nothing"}
  /\ at = "callback" => result \in Call!Outcomes[chain]

\* Without handlers that throw late, nothing follows the end of the response, and
\* only what its callback threw follows a call of the chain.
Concluded ==
  /\ at \in {"pass", "callback", "throw"} => waiting = {}
  /\ answered => calls = <<>> /\ waiting = {} /\ at \in {"return", "loop"}
  /\ calls # <<>> => /\ waiting = {} /\ at \notin {"pass", "handler"}
                     /\ at = "callback" => result = "exception"

CallInv == OutcomeDue /\ (Sedate => Concluded)

\* A chain calls back with nothing but the outcomes its callers expect.
LEMMA OutcomesExpected ==
  ASSUME NEW c \in Chains, NEW r \in Gives[c] \cup {"nothing"}
  PROVE  /\ Settles(c, r) => r \in Call!Outcomes[c]
         /\ Exhausted(c, r) \in Call!Outcomes[c]
         /\ "exception" \in Call!Outcomes[c]
BY DEF Chains, Gives, Settles, Exhausted, Call!Outcomes

LEMMA CallInit == Init => CallInv /\ Call!Init
<1> SUFFICES ASSUME Init PROVE CallInv /\ Call!Init
  OBVIOUS
<1>1. CallInv
  BY DEF Init, CallInv, OutcomeDue, Concluded, Chains, Gives
<1>2. chain \in DOMAIN Call!Outcomes
  BY DEF Init, Chains, Call!Outcomes
<1> QED BY <1>1, <1>2 DEF Init, Call!Init, Troubles

\* A handler calls back or answers: a step the caller does not see, or the end of
\* the response.
LEMMA CallHandler ==
  ASSUME TypeOK, Budget, CallInv, at \in {"handler", "loop"}, NEW i \in waiting,
         CallsBack(i) \/ Answers(i)
  PROVE  /\ CallInv'
         /\ [Call!Next]_(Call!vars)
<1>1. /\ waiting' = {} /\ UNCHANGED <<chain, troubles, calls>>
      /\ Sedate => calls = <<>> /\ ~answered
  BY DEF TypeOK, Budget, CallInv, Concluded, CallsBack, Answers, fixed
<1>2. CASE CallsBack(i)
  <2>1. at' = "pass" /\ result' \in Gives[chain] /\ UNCHANGED answered
    BY <1>2 DEF CallsBack
  <2>2. CallInv'
    BY <1>1, <2>1 DEF CallInv, OutcomeDue, Concluded, Sedate
  <2> QED BY <1>1, <2>1, <2>2 DEF Call!vars
<1>3. CASE Answers(i)
  <2>1. at' \in {"return", "loop"} /\ chain \in Answering /\ answered' = TRUE
    BY <1>3 DEF Answers
  <2>2. CallInv'
    BY <1>1, <2>1 DEF CallInv, OutcomeDue, Concluded, Sedate
  <2>3. answered \/ Call!Answer
    BY <1>1, <2>1 DEF Call!Answer, Call!Ending, Answering, Sedate
  <2>4. answered => UNCHANGED Call!vars
    BY <1>1, <2>1 DEF Call!vars, TypeOK
  <2> QED BY <2>2, <2>3, <2>4 DEF Call!Next
<1> QED BY <1>2, <1>3

\* The callback runs when it is due.
LEMMA CallCallback ==
  ASSUME TypeOK, ChainInv, CallInv, Callback
  PROVE  /\ CallInv'
         /\ Call!CallBack
<1>1. /\ at = "callback" /\ result \in Call!Outcomes[chain]
      /\ at' \in {"return", "throw"} /\ calls' = Append(calls, result)
      /\ UNCHANGED <<chain, troubles, waiting, answered>>
  BY DEF Callback, CallInv, OutcomeDue, fixed
<1>2. calls \in Seq(Results) /\ result \in Results /\ troubles \subseteq Troubles
  BY DEF TypeOK
<1>3. calls' # <<>>
  BY <1>1, <1>2
<1>4. Sedate => ~answered /\ (calls # <<>> => result = "exception")
  BY <1>1 DEF CallInv, Concluded
<1>5. Orderly => calls = <<>>
  BY <1>1 DEF ChainInv, OneCarrier, Open
<1>6. Orderly \/ ~Sedate \/ "callback throws" \in troubles
  BY <1>2 DEF Orderly, Sedate, Troubles
<1>7. Call!Due(result)
  BY <1>4, <1>5, <1>6 DEF Call!Due, Sedate
<1>8. CallInv'
  BY <1>1, <1>3 DEF CallInv, OutcomeDue, Concluded, Sedate
<1> QED BY <1>1, <1>7, <1>8 DEF Call!CallBack

LEMMA CallNext ==
  ASSUME TypeOK, ChainInv, Budget, CallInv, [Next]_vars
  PROVE  /\ CallInv'
         /\ [Call!Next]_(Call!vars)
<1>1. CASE PassEnds
  <2>1. /\ at = "pass" /\ at' = "callback"
        /\ \/ Settles(chain, result) /\ result' = result
           \/ result' = Exhausted(chain, result)
        /\ UNCHANGED <<chain, troubles, waiting, calls, answered>>
    BY <1>1 DEF PassEnds, Unchanged, fixed
  <2>2. result' \in Call!Outcomes[chain]
    BY <2>1, OutcomesExpected DEF CallInv, OutcomeDue, TypeOK
  <2>3. CallInv'
    BY <2>1, <2>2 DEF CallInv, OutcomeDue, Concluded, Sedate
  <2> QED BY <2>1, <2>3 DEF Call!vars
<1>2. CASE PassSkips \/ PassCalls
  <2>1. /\ at = "pass" /\ result' \in {result, "nothing"}
        /\ \/ at' = "pass" /\ UNCHANGED waiting
           \/ at' = "handler"
        /\ UNCHANGED <<chain, troubles, calls, answered>>
    BY <1>2 DEF PassSkips, PassCalls, Unchanged, fixed
  <2>2. CallInv'
    BY <2>1 DEF CallInv, OutcomeDue, Concluded, Sedate
  <2> QED BY <2>1, <2>2 DEF Call!vars
<1>3. CASE Handle
  <2>1. at = "handler" /\ layer \in waiting
    BY <1>3 DEF Handle, TypeOK
  <2>2. CASE CallsBack(layer) \/ Answers(layer)
    BY <2>1, <2>2, CallHandler
  <2>3. CASE /\ at' \in {"throw", "return"}
             /\ at' = "throw" => waiting' = waiting \ {layer}
             /\ UNCHANGED <<chain, troubles, calls, answered>>
    <3>1. at' = "throw" => waiting' = {}
      BY <2>3 DEF Budget
    <3>2. CallInv'
      BY <2>1, <2>3, <3>1 DEF CallInv, OutcomeDue, Concluded, Sedate
    <3> QED BY <2>3, <3>2 DEF Call!vars
  <2> QED BY <1>3, <2>2, <2>3 DEF Handle, Unchanged, fixed
<1>4. CASE HandleLater
  BY <1>4, CallHandler DEF HandleLater
<1>5. CASE Callback
  BY <1>5, CallCallback DEF Call!Next
<1>6. CASE Return \/ Catch
  <2>1. /\ UNCHANGED <<chain, troubles, waiting, calls, answered>>
        /\ \/ at = "return" /\ at' \in {"return", "loop"}
           \/ at = "return" /\ at' = "throw" /\ ~Sedate
           \/ at = "throw" /\ at' = "loop"
           \/ at = "throw" /\ at' = "callback" /\ result' = "exception"
    BY <1>6 DEF Return, Catch, Unchanged, fixed, Sedate
  <2>2. "exception" \in Call!Outcomes[chain]
    BY OutcomesExpected DEF TypeOK
  <2>3. CallInv'
    BY <2>1, <2>2 DEF CallInv, OutcomeDue, Concluded, Sedate
  <2> QED BY <2>1, <2>3 DEF Call!vars
<1>7. CASE UNCHANGED vars
  BY <1>7 DEF vars, fixed, CallInv, OutcomeDue, Concluded, Sedate, Call!vars
<1> QED
  BY <1>1, <1>2, <1>3, <1>4, <1>5, <1>6, <1>7 DEF Next

\* Whatever number of handlers is registered and however they mix calling back at
\* once, later, throwing and answering, a chain of server.js is to its caller one
\* call with one outcome of its kinds; when only the callback throws, all that
\* follows are exceptions.
THEOREM ChainImplementsCall == Spec => ImplementsCall
<1>1. Init => CallInv /\ Call!Init
  BY CallInit
<1>2. TypeOK /\ ChainInv /\ Budget /\ CallInv /\ [Next]_vars
        => CallInv' /\ [Call!Next]_(Call!vars)
  BY CallNext
<1>3. Init => Budget
  BY BudgetInit
<1>4. TypeOK /\ Budget /\ [Next]_vars => Budget'
  BY BudgetNext
<1> QED
  BY <1>1, <1>2, <1>3, <1>4, ChainTypesKept, ChainCorrect, PTL
     DEF Spec, ImplementsCall, Call!Spec
=============================================================================
