---------------------- MODULE CallbackExceptionsProofs ----------------------
(***************************************************************************)
(* Along every sequence of functions, wherever each calls back and throws: *)
(* which exceptions are lost, and how often a request is passed on.        *)
(***************************************************************************)
EXTENDS CallbackExceptions, SequenceTheorems, FiniteSetTheorems, TLAPS

Entries == [f: Functions, stage: Stages]

Late(i) == calls[i].stage = "late"
Pending == calls[Len(calls)].stage \in {"called", "waiting"}

\* What is on the stack has been called from one another's callbacks, on from the
\* last function that called back later, under which nothing is left.
Standing ==
  /\ \A i \in DOMAIN calls :
       OnStack(i) => \E m \in 0..(i - 1) :
                       /\ m = 0 \/ Late(m)
                       /\ \A j \in (m + 1)..(i - 1) : calls[j].stage = "spent"
  /\ \A m \in DOMAIN calls : Late(m) => \A j \in 1..m : ~OnStack(j)

\* While an exception goes down the stack, the calls above it have fallen, and those
\* it has left were unguarded.
Falling ==
  exception # 0 =>
    /\ calls[exception].stage \in {"spent", "left"}
    /\ \A j \in DOMAIN calls : j > exception => ~OnStack(j)
    /\ \E m \in 0..(exception - 1) :
         /\ m = 0 \/ Late(m)
         /\ \A j \in (m + 1)..exception : OnStack(j) \/ calls[j].f \in Unguarded

\* Who can still pass the request on: the function that has not called back, and the
\* exception under way.  A function throws late once: then its call is left.
Budget ==
  /\ passes + (IF Pending THEN 1 ELSE 0) + (IF exception # 0 THEN 1 ELSE 0)
       <= 1 + Cardinality(overdue)
  /\ \A k \in overdue : calls[k].stage = "left" \/ exception = k

ExceptionInv == /\ TypeOK /\ Standing /\ Falling /\ Budget /\ Guarded(calls[1].f)
                /\ LostBehindLaterCallback
-----------------------------------------------------------------------------
LEMMA Recorded ==
  ASSUME TypeOK
  PROVE  /\ Len(calls) \in Nat \ {0} /\ DOMAIN calls = 1..Len(calls)
         /\ Last(calls) = calls[Len(calls)]
         /\ calls \in Seq(Entries) /\ \A i \in DOMAIN calls : calls[i] \in Entries
         /\ IsFiniteSet(overdue) /\ Cardinality(overdue) \in Nat
<1>1. calls \in Seq(Entries) /\ calls # <<>> /\ overdue \subseteq DOMAIN calls
  BY DEF TypeOK, Entries
<1> HIDE DEF Entries
<1>2. /\ Len(calls) \in Nat \ {0} /\ DOMAIN calls = 1..Len(calls)
      /\ \A i \in DOMAIN calls : calls[i] \in Entries
  BY <1>1, EmptySeq, ElementOfSeq
<1>3. IsFiniteSet(overdue) /\ Cardinality(overdue) \in Nat
  <2>1. IsFiniteSet(1..Len(calls))
    BY <1>2, FS_Interval
  <2>2. IsFiniteSet(overdue)
    BY <1>1, <1>2, <2>1, FS_Subset
  <2> QED BY <2>2, FS_CardinalityType
<1> QED BY <1>1, <1>2, <1>3 DEF Last

\* A function is guarded or unguarded.
LEMMA GuardedOrNot ==
  ASSUME TypeOK, NEW f \in Functions
  PROVE  f \in Unguarded <=> ~Guarded(f)
BY DEF Unguarded, Guarded, Functions

LEMMA ExceptionInit == Init => ExceptionInv
<1> SUFFICES ASSUME Init PROVE ExceptionInv
  OBVIOUS
<1>1. First \in Functions /\ Guarded(First)
  <2>1. route \in {"authorization", "resume", "decision"}
    BY DEF Init, Routes
  <2> QED BY <2>1 DEF First, Functions, Guarded
<1>2. calls = <<Called(First)>> /\ exception = 0 /\ passes = 0
      /\ caught = {} /\ lost = {} /\ overdue = {}
  BY DEF Init
<1>3. /\ Called(First) \in Entries /\ Called(First).f = First
      /\ Called(First).stage = "called"
  BY <1>1 DEF Called, Entries, Stages
<1> HIDE DEF First, Called
<1>4. /\ calls \in Seq(Entries) /\ Len(calls) = 1 /\ DOMAIN calls = {1} /\ calls # <<>>
      /\ calls[1] = Called(First)
  BY <1>2, <1>3
<1>5. TypeOK
  BY <1>2, <1>4 DEF TypeOK, Init, Entries
<1>6. Standing /\ Falling /\ LostBehindLaterCallback
  BY <1>2, <1>3, <1>4 DEF Standing, Late, OnStack, Falling, LostBehindLaterCallback
<1>7. Budget
  BY <1>2, FS_EmptySet DEF Budget
<1> QED BY <1>1, <1>3, <1>4, <1>5, <1>6, <1>7 DEF ExceptionInv

\* What was found of an exception stays: who called back later before it is settled.
LEMMA ExposedKept ==
  ASSUME NEW k \in Nat, route' = route,
         \A j \in 1..k : calls'[j].f = calls[j].f,
         \A j \in 1..(k - 1) : calls'[j].stage = "late" <=> calls[j].stage = "late"
  PROVE  Exposed(k)' <=> Exposed(k)
<1>1. Unguarded' = Unguarded
  BY DEF Unguarded
<1>2. \A i \in 1..(k - 1) : \A j \in (i + 1)..k : j \in 1..k
  OBVIOUS
<1> QED BY <1>1, <1>2 DEF Exposed

\* A call goes to another stage.
LEMMA GoesTo ==
  ASSUME TypeOK, NEW i \in DOMAIN calls, NEW stage \in Stages, Goes(i, stage)
  PROVE  /\ calls' \in Seq(Entries) /\ calls' # <<>>
         /\ Len(calls') = Len(calls) /\ DOMAIN calls' = DOMAIN calls
         /\ \A j \in DOMAIN calls :
              /\ calls'[j].f = calls[j].f
              /\ calls'[j].stage = IF j = i THEN stage ELSE calls[j].stage
<1> DEFINE e == [calls[i] EXCEPT !.stage = stage]
<1>1. /\ calls \in Seq(Entries) /\ DOMAIN calls = 1..Len(calls) /\ Len(calls) \in Nat \ {0}
      /\ calls[i] \in Entries
  BY Recorded
<1>2. e \in Entries /\ e.f = calls[i].f /\ e.stage = stage
  BY <1>1 DEF Entries
<1>3. calls' = [calls EXCEPT ![i] = e]
  BY DEF Goes
<1> HIDE DEF e, Entries
<1>4. /\ calls' \in Seq(Entries) /\ Len(calls') = Len(calls)
      /\ \A j \in 1..Len(calls) : calls'[j] = IF j = i THEN e ELSE calls[j]
  BY <1>1, <1>2, <1>3, ExceptSeq
<1>5. DOMAIN calls' = DOMAIN calls /\ calls' # <<>>
  BY <1>1, <1>4
<1> QED BY <1>1, <1>2, <1>4, <1>5

\* The function last called calls back: on top of the stack, or of an empty one.
LEMMA SpokenIs ==
  ASSUME ExceptionInv, NEW f, At(f)
  PROVE  LET n == Len(calls)
         IN /\ Spoken \in Seq(Entries) /\ Len(Spoken) = n /\ n \in Nat \ {0}
            /\ \A j \in 1..(n - 1) : Spoken[j] = calls[j]
            /\ Spoken[n].f = calls[n].f
            /\ \/ calls[n].stage = "called" /\ Spoken[n].stage = "spent"
               \/ /\ calls[n].stage = "waiting" /\ Spoken[n].stage = "late"
                  /\ \A j \in 1..n : ~OnStack(j)
            /\ exception = 0 /\ Pending
<1> DEFINE n == Len(calls)
           to == IF calls[n].stage = "called" THEN "spent" ELSE "late"
           e == [calls[n] EXCEPT !.stage = to]
<1>1. /\ calls \in Seq(Entries) /\ DOMAIN calls = 1..n /\ n \in Nat \ {0}
      /\ calls[n] \in Entries /\ Last(calls) = calls[n]
  BY Recorded DEF ExceptionInv
<1>2. e \in Entries /\ e.f = calls[n].f /\ e.stage = to
  BY <1>1 DEF Entries, Stages
<1>3. Spoken = [calls EXCEPT ![n] = e]
  BY DEF Spoken
<1>4. /\ exception = 0
      /\ \/ calls[n].stage = "called"
         \/ calls[n].stage = "waiting" /\ \A j \in 1..n : ~OnStack(j)
  BY <1>1 DEF At
<1> HIDE DEF e, Entries
<1>5. /\ Spoken \in Seq(Entries) /\ Len(Spoken) = n
      /\ \A j \in 1..n : Spoken[j] = IF j = n THEN e ELSE calls[j]
  BY <1>1, <1>2, <1>3, ExceptSeq
<1>6. Spoken[n] = e /\ \A j \in 1..(n - 1) : Spoken[j] = calls[j]
  <2>1. n \in Nat \ {0}
    BY <1>1
  <2> HIDE DEF n, to
  <2>2. n \in 1..n /\ \A j \in 1..(n - 1) : j \in 1..n /\ j # n
    BY <2>1
  <2> QED BY <1>5, <2>2
<1>7. CASE calls[n].stage = "called"
  BY <1>1, <1>2, <1>4, <1>5, <1>6, <1>7 DEF Pending
<1>8. CASE calls[n].stage = "waiting" /\ \A j \in 1..n : ~OnStack(j)
  BY <1>1, <1>2, <1>4, <1>5, <1>6, <1>8 DEF Pending
<1> QED BY <1>4, <1>7, <1>8

LEMMA PassesOn ==
  ASSUME ExceptionInv, NEW f, At(f), PassOn
  PROVE  ExceptionInv'
<1> DEFINE n == Len(calls)
<1>1. /\ calls' = Spoken /\ passes' = passes + 1
      /\ UNCHANGED <<route, grant, txnStore, exception, caught, lost, overdue>>
  BY DEF PassOn, fixed, thrown
<1>2. /\ calls' \in Seq(Entries) /\ Len(calls') = n /\ n \in Nat \ {0}
      /\ \A j \in 1..(n - 1) : calls'[j] = calls[j]
      /\ calls'[n].f = calls[n].f
      /\ \/ calls[n].stage = "called" /\ calls'[n].stage = "spent"
         \/ /\ calls[n].stage = "waiting" /\ calls'[n].stage = "late"
            /\ \A j \in 1..n : ~OnStack(j)
      /\ exception = 0 /\ Pending
  BY <1>1, SpokenIs
<1>3. /\ DOMAIN calls = 1..n /\ DOMAIN calls' = 1..n /\ calls' # <<>>
      /\ Cardinality(overdue) \in Nat /\ passes \in Nat
  BY <1>2, Recorded DEF ExceptionInv, TypeOK
<1> USE DEF ExceptionInv
<1>4. TypeOK'
  BY <1>1, <1>2, <1>3 DEF TypeOK, Entries
<1>5. Standing'
  <2>1. \A j \in 1..n : OnStack(j)' => OnStack(j)
    BY <1>2 DEF OnStack
  <2>2. \A j \in 1..(n - 1) : calls'[j].stage = calls[j].stage
    BY <1>2
  <2> HIDE DEF n
  <2>3. ASSUME NEW i \in 1..n, OnStack(i)'
        PROVE  \E m \in 0..(i - 1) :
                 /\ m = 0 \/ Late(m)'
                 /\ \A j \in (m + 1)..(i - 1) : calls'[j].stage = "spent"
    <3>1. PICK m \in 0..(i - 1) :
            /\ m = 0 \/ Late(m)
            /\ \A j \in (m + 1)..(i - 1) : calls[j].stage = "spent"
      BY <1>3, <2>1, <2>3 DEF Standing
    <3>2. /\ m # 0 => m \in 1..(n - 1)
          /\ \A j \in (m + 1)..(i - 1) : j \in 1..(n - 1)
      BY <1>2
    <3> QED BY <2>2, <3>1, <3>2 DEF Late
  <2>4. ASSUME NEW m \in 1..n, Late(m)', NEW j \in 1..m PROVE ~OnStack(j)'
    <3>1. CASE m = n
      <4>1. \A l \in 1..n : ~OnStack(l)
        BY <1>2, <2>4, <3>1 DEF Late
      <4> QED BY <2>1, <4>1, <1>2
    <3>2. CASE m # n
      <4>1. Late(m) /\ m \in DOMAIN calls /\ j \in 1..n
        BY <1>2, <1>3, <2>2, <2>4, <3>2 DEF Late
      <4> QED BY <2>1, <4>1 DEF Standing
    <3> QED BY <3>1, <3>2
  <2> QED BY <1>3, <2>3, <2>4 DEF Standing
<1>6. Falling'
  BY <1>1, <1>2 DEF Falling
<1>7. Budget'
  <2>1. ~Pending'
    BY <1>2 DEF Pending
  <2>2. overdue \subseteq 1..n
    BY <1>3 DEF TypeOK
  <2>3. \A k \in overdue : calls'[k].stage = "left"
    BY <1>2, <2>2 DEF Budget
  <2> QED BY <1>1, <1>2, <1>3, <2>1, <2>3 DEF Budget
<1>8. LostBehindLaterCallback' /\ Guarded(calls[1].f)'
  <2>1. \A k \in caught \cup lost : k \in 1..n
    BY <1>3 DEF TypeOK
  <2>2. \A k \in 1..n : Exposed(k)' <=> Exposed(k)
    <3> SUFFICES ASSUME NEW k \in 1..n PROVE Exposed(k)' <=> Exposed(k)
      OBVIOUS
    <3>1. /\ \A j \in 1..k : calls'[j].f = calls[j].f
          /\ \A j \in 1..(k - 1) : calls'[j].stage = calls[j].stage
      BY <1>2
    <3> QED BY <1>1, <3>1, ExposedKept
  <2>3. calls'[1].f = calls[1].f
    BY <1>2
  <2> QED BY <1>1, <2>1, <2>2, <2>3 DEF LostBehindLaterCallback, Guarded
<1> QED BY <1>4, <1>5, <1>6, <1>7, <1>8

\* The next function is on top of what the callback of the last one finds.
LEMMA CallsOn ==
  ASSUME ExceptionInv, NEW f, At(f), NEW g \in Functions, Call(g)
  PROVE  ExceptionInv'
<1> DEFINE n == Len(calls)
           e == Called(g)
<1>1. /\ calls' = Append(Spoken, e)
      /\ UNCHANGED <<route, grant, txnStore, exception, caught, lost, overdue, passes>>
  BY DEF Call, fixed, thrown
<1>2. /\ Spoken \in Seq(Entries) /\ Len(Spoken) = n /\ n \in Nat \ {0}
      /\ \A j \in 1..(n - 1) : Spoken[j] = calls[j]
      /\ Spoken[n].f = calls[n].f
      /\ \/ calls[n].stage = "called" /\ Spoken[n].stage = "spent"
         \/ /\ calls[n].stage = "waiting" /\ Spoken[n].stage = "late"
            /\ \A j \in 1..n : ~OnStack(j)
      /\ exception = 0 /\ Pending
  BY SpokenIs
<1>3. e \in Entries /\ e.f = g /\ e.stage = "called"
  BY DEF Called, Entries, Stages
<1> HIDE DEF e, Entries
<1>4. /\ calls' \in Seq(Entries) /\ Len(calls') = n + 1 /\ calls' # <<>>
      /\ calls'[n + 1] = e /\ \A j \in 1..n : calls'[j] = Spoken[j]
  BY <1>1, <1>2, <1>3, AppendProperties
<1>5. /\ DOMAIN calls = 1..n /\ DOMAIN calls' = 1..(n + 1)
      /\ Cardinality(overdue) \in Nat /\ passes \in Nat
  BY <1>2, <1>4, Recorded DEF ExceptionInv, TypeOK
<1>6. /\ \A j \in 1..(n - 1) : calls'[j] = calls[j]
      /\ calls'[n].f = calls[n].f /\ calls'[n].stage = Spoken[n].stage
      /\ \A j \in 1..n : calls'[j].f = calls[j].f
  BY <1>2, <1>4
<1> USE DEF ExceptionInv
<1>7. TypeOK'
  <2>1. \A i \in 1..(n + 1) : calls'[i].stage \in {"called", "waiting"} => i = n + 1
    <3> SUFFICES ASSUME NEW i \in 1..(n + 1), i # n + 1
                 PROVE  calls'[i].stage \notin {"called", "waiting"}
      OBVIOUS
    <3>1. i \in 1..n /\ (i # n => i \in 1..(n - 1))
      BY <1>2
    <3>2. CASE i = n
      BY <1>2, <1>6, <3>2
    <3>3. CASE i # n
      BY <1>5, <1>6, <3>1, <3>3 DEF TypeOK
    <3> QED BY <3>2, <3>3
  <2>2. \A k \in 1..n : k \in 1..(n + 1)
    BY <1>2
  <2>3. exception' = 0 /\ (caught \cup lost \cup overdue)' \subseteq 1..(n + 1)
    <3>1. caught \cup lost \cup overdue \subseteq 1..n
      BY <1>5 DEF TypeOK
    <3> QED BY <1>1, <1>2, <2>2, <3>1
  <2> HIDE DEF n
  <2>4. /\ route' \in Routes /\ grant' \in {"code", "token"}
        /\ txnStore' \in {"session", "custom"} /\ passes' \in Nat
    BY <1>1 DEF TypeOK
  <2> QED BY <1>4, <1>5, <2>1, <2>3, <2>4 DEF TypeOK, Entries
<1>8. Standing'
  <2>1. \A j \in 1..n : OnStack(j)' => OnStack(j)
    BY <1>2, <1>6 DEF OnStack
  <2>2. \A j \in 1..(n - 1) : calls'[j].stage = calls[j].stage
    BY <1>6
  <2> HIDE DEF n
  <2>3. ASSUME NEW i \in 1..n, OnStack(i)
        PROVE  \E m \in 0..(i - 1) :
                 /\ m = 0 \/ Late(m)'
                 /\ \A j \in (m + 1)..(i - 1) : calls'[j].stage = "spent"
    <3>1. PICK m \in 0..(i - 1) :
            /\ m = 0 \/ Late(m)
            /\ \A j \in (m + 1)..(i - 1) : calls[j].stage = "spent"
      BY <1>5, <2>3 DEF Standing
    <3>2. /\ m # 0 => m \in 1..(n - 1)
          /\ \A j \in (m + 1)..(i - 1) : j \in 1..(n - 1)
      BY <1>2
    <3> QED BY <2>2, <3>1, <3>2 DEF Late
  <2>4. \E m \in 0..n : /\ m = 0 \/ Late(m)'
                        /\ \A j \in (m + 1)..n : calls'[j].stage = "spent"
    <3>1. CASE calls'[n].stage = "late"
      BY <1>2, <3>1 DEF Late
    <3>2. CASE calls[n].stage = "called" /\ calls'[n].stage = "spent"
      <4>1. n \in 1..n /\ OnStack(n)
        BY <1>2, <3>2 DEF OnStack
      <4>2. PICK m \in 0..(n - 1) :
              /\ m = 0 \/ Late(m)'
              /\ \A j \in (m + 1)..(n - 1) : calls'[j].stage = "spent"
        BY <2>3, <4>1
      <4>3. m \in 0..n /\ \A j \in (m + 1)..n : j = n \/ j \in (m + 1)..(n - 1)
        BY <1>2
      <4> QED BY <3>2, <4>2, <4>3
    <3> QED BY <1>2, <1>6, <3>1, <3>2
  <2>5. ASSUME NEW m \in 1..(n + 1), Late(m)', NEW j \in 1..m PROVE ~OnStack(j)'
    <3>1. m # n + 1 /\ m \in 1..n /\ j \in 1..n
      <4>1. m # n + 1
        BY <1>3, <1>4, <2>5 DEF Late
      <4> QED BY <1>2, <4>1
    <3>2. CASE m = n
      <4>1. \A l \in 1..n : ~OnStack(l)
        BY <1>2, <1>6, <2>5, <3>2 DEF Late
      <4> QED BY <2>1, <3>1, <4>1
    <3>3. CASE m # n
      <4>1. m \in 1..(n - 1)
        BY <1>2, <3>1, <3>3
      <4>2. Late(m)
        BY <2>2, <2>5, <4>1 DEF Late
      <4> QED BY <1>5, <2>1, <3>1, <4>2 DEF Standing
    <3> QED BY <3>2, <3>3
  <2>6. \A i \in 1..(n + 1) : OnStack(i)' =>
          \E m \in 0..(i - 1) :
            /\ m = 0 \/ Late(m)'
            /\ \A j \in (m + 1)..(i - 1) : calls'[j].stage = "spent"
    <3> SUFFICES ASSUME NEW i \in 1..(n + 1), OnStack(i)'
                 PROVE  \E m \in 0..(i - 1) :
                          /\ m = 0 \/ Late(m)'
                          /\ \A j \in (m + 1)..(i - 1) : calls'[j].stage = "spent"
      OBVIOUS
    <3>1. CASE i = n + 1
      <4>1. i - 1 = n
        BY <1>2, <3>1
      <4> QED BY <2>4, <4>1
    <3>2. CASE i \in 1..n
      BY <2>1, <2>3, <3>2
    <3> QED BY <1>2, <3>1, <3>2
  <2> QED BY <1>5, <2>5, <2>6 DEF Standing
<1>9. Falling'
  BY <1>1, <1>2 DEF Falling
<1>10. Budget'
  <2>1. overdue \subseteq 1..n
    BY <1>5 DEF TypeOK
  <2>2. \A k \in overdue : calls'[k].stage = "left"
    <3>1. \A k \in overdue : calls[k].stage = "left" /\ k # n
      BY <1>2, <2>1 DEF Budget
    <3> QED BY <1>2, <1>6, <2>1, <3>1
  <2>3. passes + 1 <= 1 + Cardinality(overdue)
    BY <1>2, <1>5 DEF Budget
  <2>4. /\ passes' = passes /\ overdue' = overdue /\ exception' = 0
        /\ (IF Pending' THEN 1 ELSE 0) \in {0, 1}
    BY <1>1, <1>2
  <2>5. passes' + (IF Pending' THEN 1 ELSE 0) + (IF exception' # 0 THEN 1 ELSE 0)
          <= 1 + Cardinality(overdue')
    BY <1>5, <2>3, <2>4
  <2> QED BY <2>2, <2>4, <2>5 DEF Budget
<1>11. LostBehindLaterCallback' /\ Guarded(calls[1].f)'
  <2>1. \A k \in caught \cup lost : k \in 1..n
    BY <1>5 DEF TypeOK
  <2>2. \A k \in 1..n : Exposed(k)' <=> Exposed(k)
    <3> SUFFICES ASSUME NEW k \in 1..n PROVE Exposed(k)' <=> Exposed(k)
      OBVIOUS
    <3>1. /\ k \in Nat /\ \A j \in 1..k : j \in 1..n
          /\ \A j \in 1..(k - 1) : j \in 1..(n - 1)
      BY <1>2
    <3>2. /\ \A j \in 1..k : calls'[j].f = calls[j].f
          /\ \A j \in 1..(k - 1) : calls'[j].stage = calls[j].stage
      BY <1>6, <3>1
    <3> QED BY <1>1, <3>1, <3>2, ExposedKept
  <2>3. calls'[1].f = calls[1].f
    <3>1. 1 \in 1..n
      BY <1>2
    <3> QED BY <1>6, <3>1
  <2> QED BY <1>1, <2>1, <2>2, <2>3 DEF LostBehindLaterCallback, Guarded
<1> QED BY <1>7, <1>8, <1>9, <1>10, <1>11

\* The call on top of the stack goes to another stage, but not to a later callback:
\* what is below stands as it did, and what was settled stays settled.
LEMMA TopGoes ==
  ASSUME TypeOK, Standing, Guarded(calls[1].f), UNCHANGED fixed,
         NEW i \in DOMAIN calls, Top(i), NEW stage \in {"waiting", "spent", "left"},
         stage = "waiting" => i = Len(calls), Goes(i, stage),
         exception' \in {0} \cup DOMAIN calls,
         (caught \cup lost \cup overdue)' \subseteq DOMAIN calls, passes' \in Nat
  PROVE  /\ TypeOK' /\ Standing' /\ Guarded(calls[1].f)'
         /\ \A k \in DOMAIN calls : Exposed(k)' <=> Exposed(k)
<1> DEFINE n == Len(calls)
<1>1. /\ n \in Nat \ {0} /\ DOMAIN calls = 1..n /\ i \in 1..n
      /\ OnStack(i) /\ \A j \in 1..n : j > i => ~OnStack(j)
  BY Recorded DEF Top
<1>2. /\ calls' \in Seq(Entries) /\ calls' # <<>> /\ Len(calls') = n /\ DOMAIN calls' = 1..n
      /\ \A j \in 1..n : calls'[j].f = calls[j].f
      /\ \A j \in 1..n : calls'[j].stage = IF j = i THEN stage ELSE calls[j].stage
  BY <1>1, GoesTo DEF Stages
<1>3. /\ \A j \in 1..n : OnStack(j)' => OnStack(j)
      /\ \A j \in 1..n : Late(j)' <=> Late(j)
  BY <1>1, <1>2 DEF OnStack, Late
<1>4. TypeOK'
  <2>1. \A j \in 1..n : calls'[j].stage \in {"called", "waiting"} => j = n
    BY <1>1, <1>2 DEF TypeOK
  <2>2. /\ route' \in Routes /\ grant' \in {"code", "token"}
        /\ txnStore' \in {"session", "custom"}
    BY DEF fixed, TypeOK
  <2> HIDE DEF n
  <2> QED BY <1>1, <1>2, <2>1, <2>2 DEF TypeOK, Entries
<1>5. Standing'
  <2> HIDE DEF n
  <2>1. ASSUME NEW l \in 1..n, OnStack(l)'
        PROVE  \E m \in 0..(l - 1) :
                 /\ m = 0 \/ Late(m)'
                 /\ \A j \in (m + 1)..(l - 1) : calls'[j].stage = "spent"
    <3>1. l <= i
      <4>1. ~(l > i)
        BY <1>1, <1>3, <2>1
      <4> QED BY <1>1, <4>1
    <3>2. PICK m \in 0..(l - 1) :
            /\ m = 0 \/ Late(m)
            /\ \A j \in (m + 1)..(l - 1) : calls[j].stage = "spent"
      BY <1>1, <1>3, <2>1 DEF Standing
    <3>3. /\ m # 0 => m \in 1..n
          /\ \A j \in (m + 1)..(l - 1) : j \in 1..n /\ j # i
      BY <1>1, <3>1
    <3> QED BY <1>2, <1>3, <3>2, <3>3
  <2>2. ASSUME NEW m \in 1..n, Late(m)', NEW j \in 1..m PROVE ~OnStack(j)'
    <3>1. j \in 1..n /\ ~OnStack(j)
      BY <1>1, <1>3, <2>2 DEF Standing
    <3> QED BY <1>3, <3>1
  <2> QED BY <1>2, <2>1, <2>2 DEF Standing
<1>6. ASSUME NEW k \in 1..n PROVE Exposed(k)' <=> Exposed(k)
  <2>1. /\ k \in Nat /\ \A j \in 1..k : j \in 1..n
        /\ \A j \in 1..(k - 1) : j \in 1..n
    BY <1>1
  <2>2. /\ \A j \in 1..k : calls'[j].f = calls[j].f
        /\ \A j \in 1..(k - 1) : calls'[j].stage = "late" <=> calls[j].stage = "late"
    BY <1>2, <1>3, <2>1 DEF Late
  <2> QED BY <2>1, <2>2, ExposedKept DEF fixed
<1>7. Guarded(calls[1].f)'
  <2>1. 1 \in 1..n
    BY <1>1
  <2> QED BY <1>2, <2>1 DEF fixed, Guarded
<1> QED BY <1>1, <1>4, <1>5, <1>6, <1>7

\* The function last called returns without calling back, or throws instead.
LEMMA Falls ==
  ASSUME ExceptionInv, ReturnsFirst \/ Throws
  PROVE  ExceptionInv'
<1> DEFINE n == Len(calls)
<1>1. /\ n \in Nat \ {0} /\ DOMAIN calls = 1..n /\ n \in 1..n
      /\ calls[n].stage = "called" /\ exception = 0
      /\ Cardinality(overdue) \in Nat /\ passes \in Nat
  BY Recorded DEF ExceptionInv, ReturnsFirst, Throws, Running, TypeOK
<1>2. PICK stage \in {"waiting", "spent"} :
        /\ Goes(n, stage) /\ exception' = IF stage = "spent" THEN n ELSE 0
        /\ UNCHANGED <<route, grant, txnStore, caught, lost, overdue, passes>>
  BY <1>1 DEF ReturnsFirst, Throws, fixed, thrown
<1>3. Top(n) /\ OnStack(n)
  BY <1>1 DEF Top, OnStack
<1> USE DEF ExceptionInv
<1>4. /\ TypeOK' /\ Standing' /\ Guarded(calls[1].f)'
      /\ \A k \in DOMAIN calls : Exposed(k)' <=> Exposed(k)
  <2>1. /\ exception' \in {0} \cup DOMAIN calls /\ passes' \in Nat
        /\ (caught \cup lost \cup overdue)' \subseteq DOMAIN calls
    BY <1>1, <1>2 DEF TypeOK
  <2> QED BY <1>1, <1>2, <1>3, <2>1, TopGoes DEF fixed
<1>5. LostBehindLaterCallback'
  BY <1>2, <1>4 DEF LostBehindLaterCallback, TypeOK
<1>6. /\ DOMAIN calls' = 1..n /\ Len(calls') = n
      /\ \A j \in 1..n : calls'[j].f = calls[j].f
      /\ \A j \in 1..n : calls'[j].stage = IF j = n THEN stage ELSE calls[j].stage
  <2>1. n \in DOMAIN calls /\ stage \in Stages /\ Goes(n, stage) /\ TypeOK
    BY <1>1, <1>2 DEF Stages
  <2> HIDE DEF n, ExceptionInv
  <2>2. /\ Len(calls') = Len(calls) /\ DOMAIN calls' = DOMAIN calls
        /\ \A j \in DOMAIN calls : /\ calls'[j].f = calls[j].f
                                   /\ calls'[j].stage = IF j = n THEN stage
                                                                ELSE calls[j].stage
    BY <2>1, GoesTo
  <2>3. Len(calls) = n
    BY DEF n
  <2> QED BY <1>1, <2>2, <2>3
<1>7. Falling'
  <2> SUFFICES ASSUME exception' # 0 PROVE Falling'
    BY DEF Falling
  <2>1. stage = "spent" /\ exception' = n
    BY <1>2
  <2>2. PICK m \in 0..(n - 1) :
          /\ m = 0 \/ Late(m)
          /\ \A j \in (m + 1)..(n - 1) : calls[j].stage = "spent"
    BY <1>1, <1>3 DEF Standing
  <2>3. /\ m # 0 => m \in 1..n /\ m # n
        /\ \A j \in (m + 1)..n : j \in 1..n /\ (j = n \/ j \in (m + 1)..(n - 1))
        /\ m \in 0..(n - 1)
    <3>1. n \in Nat \ {0}
      BY <1>1
    <3> HIDE DEF n
    <3> QED BY <3>1
  <2> HIDE DEF n
  <2>4. m = 0 \/ Late(m)'
    BY <1>6, <2>2, <2>3 DEF Late
  <2>5. \A j \in (m + 1)..n : OnStack(j)'
    BY <1>6, <2>1, <2>2, <2>3 DEF OnStack
  <2>6. calls'[n].stage = "spent" /\ \A j \in 1..n : ~(j > n)
    BY <1>1, <1>6, <2>1
  <2> QED BY <1>6, <2>1, <2>3, <2>4, <2>5, <2>6 DEF Falling
<1>8. Budget'
  <2>1. overdue \subseteq 1..n
    BY <1>1 DEF TypeOK
  <2>2. \A k \in overdue : calls[k].stage = "left"
    BY <1>1, <2>1 DEF Budget
  <2>3. \A k \in overdue : calls'[k].stage = "left"
    BY <1>1, <1>6, <2>1, <2>2
  <2>4. passes + 1 <= 1 + Cardinality(overdue)
    BY <1>1 DEF Budget, Pending
  <2>5. (IF Pending' THEN 1 ELSE 0) + (IF exception' # 0 THEN 1 ELSE 0) = 1
    <3>1. calls'[Len(calls')].stage = stage
      BY <1>1, <1>6
    <3>2. CASE stage = "waiting"
      BY <1>2, <3>1, <3>2 DEF Pending
    <3>3. CASE stage = "spent"
      BY <1>1, <1>2, <3>1, <3>3 DEF Pending
    <3> QED BY <1>2, <3>2, <3>3
  <2>6. /\ passes' = passes /\ overdue' = overdue
        /\ (IF Pending' THEN 1 ELSE 0) \in {0, 1}
        /\ (IF exception' # 0 THEN 1 ELSE 0) \in {0, 1}
    BY <1>2
  <2>7. passes' + (IF Pending' THEN 1 ELSE 0) + (IF exception' # 0 THEN 1 ELSE 0)
          <= 1 + Cardinality(overdue')
    BY <1>1, <2>4, <2>5, <2>6
  <2> QED BY <2>3, <2>6, <2>7 DEF Budget
<1> QED BY <1>4, <1>5, <1>7, <1>8

\* A call is left: by a function that returns, or by the exception.
LEMMA TopLeaves ==
  ASSUME ExceptionInv, UNCHANGED fixed, NEW i \in DOMAIN calls, Top(i), Goes(i, "left"),
         exception' \in {0, exception},
         caught' \cup lost' \subseteq caught \cup lost \cup ({exception} \ {0}),
         overdue' = overdue, passes' \in Nat
  PROVE  /\ TypeOK' /\ Standing' /\ Guarded(calls[1].f)'
         /\ \A k \in DOMAIN calls : Exposed(k)' <=> Exposed(k)
         /\ Pending' => Pending
         /\ \A j \in DOMAIN calls :
              /\ calls'[j].f = calls[j].f
              /\ calls'[j].stage = IF j = i THEN "left" ELSE calls[j].stage
         /\ \A k \in overdue : calls'[k].stage = "left" \/ exception = k
         /\ exception # 0 => /\ exception \in DOMAIN calls /\ i <= exception
                             /\ i # exception => calls[exception].stage = "left"
<1>1. /\ TypeOK /\ Standing /\ Guarded(calls[1].f) /\ Falling /\ Budget
      /\ Len(calls) \in Nat \ {0} /\ DOMAIN calls = 1..Len(calls)
      /\ exception \in {0} \cup DOMAIN calls
      /\ caught \cup lost \cup overdue \subseteq DOMAIN calls
  BY Recorded DEF ExceptionInv, TypeOK
<1>2. /\ TypeOK' /\ Standing' /\ Guarded(calls[1].f)'
      /\ \A k \in DOMAIN calls : Exposed(k)' <=> Exposed(k)
  <2>1. /\ exception' \in {0} \cup DOMAIN calls
        /\ (caught \cup lost \cup overdue)' \subseteq DOMAIN calls
    BY <1>1
  <2> QED BY <1>1, <2>1, TopGoes
<1>3. /\ Len(calls') = Len(calls) /\ DOMAIN calls' = DOMAIN calls
      /\ \A j \in DOMAIN calls :
           /\ calls'[j].f = calls[j].f
           /\ calls'[j].stage = IF j = i THEN "left" ELSE calls[j].stage
  BY <1>1, GoesTo DEF Stages
<1>4. Pending' => Pending
  <2>1. Len(calls) \in DOMAIN calls
    BY <1>1
  <2> QED BY <1>3, <2>1 DEF Pending
<1>5. \A k \in overdue : calls'[k].stage = "left" \/ exception = k
  BY <1>1, <1>3 DEF Budget
<1>6. ASSUME exception # 0
      PROVE  /\ exception \in DOMAIN calls /\ i <= exception
             /\ i # exception => calls[exception].stage = "left"
  <2>1. /\ exception \in DOMAIN calls /\ calls[exception].stage \in {"spent", "left"}
        /\ \A j \in DOMAIN calls : j > exception => ~OnStack(j)
    BY <1>1, <1>6 DEF Falling
  <2>2. i \in Nat /\ exception \in Nat
    BY <1>1, <2>1
  <2>3. ~(i > exception)
    BY <2>1 DEF Top
  <2>4. i # exception => ~OnStack(exception)
    BY <2>1, <2>2, <2>3 DEF Top
  <2> QED BY <2>1, <2>2, <2>3, <2>4 DEF OnStack
<1> QED BY <1>2, <1>3, <1>4, <1>5, <1>6

LEMMA FunctionReturns ==
  ASSUME ExceptionInv, NEW i \in DOMAIN calls, Returns(i)
  PROVE  ExceptionInv'
<1>1. /\ exception = 0 /\ Top(i) /\ Goes(i, "left") /\ UNCHANGED fixed
      /\ UNCHANGED <<exception, caught, lost, overdue, passes>>
  BY DEF Returns, thrown
<1>2. passes \in Nat /\ Cardinality(overdue) \in Nat
  BY Recorded DEF ExceptionInv, TypeOK
<1>3. /\ TypeOK' /\ Standing' /\ Guarded(calls[1].f)'
      /\ \A k \in DOMAIN calls : Exposed(k)' <=> Exposed(k)
      /\ Pending' => Pending
      /\ \A k \in overdue : calls'[k].stage = "left" \/ exception = k
  BY <1>1, <1>2, TopLeaves
<1>4. LostBehindLaterCallback'
  BY <1>1, <1>3 DEF ExceptionInv, TypeOK, LostBehindLaterCallback
<1>5. Falling'
  BY <1>1 DEF Falling
<1>6. Budget'
  BY <1>1, <1>2, <1>3 DEF ExceptionInv, Budget
<1> QED BY <1>3, <1>4, <1>5, <1>6 DEF ExceptionInv

\* A second carrier of the request, and one more function that threw late.
LEMMA FunctionThrowsLate ==
  ASSUME ExceptionInv, NEW i \in DOMAIN calls, ThrowsLate(i)
  PROVE  ExceptionInv'
<1>1. /\ exception = 0 /\ Top(i) /\ calls[i].stage = "spent"
      /\ exception' = i /\ overdue' = overdue \cup {i}
      /\ UNCHANGED <<route, grant, txnStore, calls, caught, lost, passes>>
  BY DEF ThrowsLate, fixed
<1>2. /\ TypeOK /\ DOMAIN calls = 1..Len(calls) /\ Len(calls) \in Nat \ {0}
      /\ i \in 1..Len(calls) /\ passes \in Nat
      /\ IsFiniteSet(overdue) /\ Cardinality(overdue) \in Nat
  BY Recorded DEF ExceptionInv, TypeOK
<1>3. TypeOK'
  BY <1>1, <1>2 DEF TypeOK
<1>4. Standing' /\ Guarded(calls[1].f)' /\ LostBehindLaterCallback'
  BY <1>1 DEF ExceptionInv, Standing, Late, OnStack, Guarded, LostBehindLaterCallback,
              Exposed, Unguarded
<1>5. Falling'
  <2>1. PICK m \in 0..(i - 1) :
          /\ m = 0 \/ Late(m)
          /\ \A j \in (m + 1)..(i - 1) : calls[j].stage = "spent"
    BY <1>1 DEF ExceptionInv, Standing, OnStack
  <2>2. \A j \in (m + 1)..i : j = i \/ j \in (m + 1)..(i - 1)
    BY <1>2
  <2>3. \A j \in (m + 1)..i : OnStack(j)
    BY <1>1, <2>1, <2>2 DEF OnStack
  <2> QED BY <1>1, <2>1, <2>3 DEF Falling, Top, OnStack, Late, Unguarded
<1>6. Budget'
  <2>1. \A k \in overdue : calls[k].stage = "left"
    BY <1>1, <1>2 DEF ExceptionInv, Budget, TypeOK
  <2>2. Cardinality(overdue') = Cardinality(overdue) + 1
    BY <1>1, <1>2, <2>1, FS_AddElement
  <2>3. passes + (IF Pending THEN 1 ELSE 0) <= 1 + Cardinality(overdue)
    BY <1>1, <1>2 DEF ExceptionInv, Budget
  <2>4. passes' = passes /\ (Pending' <=> Pending) /\ (IF Pending THEN 1 ELSE 0) \in {0, 1}
    BY <1>1 DEF Pending
  <2>5. exception' # 0
    BY <1>1, <1>2
  <2>6. passes' + (IF Pending' THEN 1 ELSE 0) + (IF exception' # 0 THEN 1 ELSE 0)
          <= 1 + Cardinality(overdue')
    BY <1>2, <2>2, <2>3, <2>4, <2>5
  <2> QED BY <1>1, <2>1, <2>6 DEF Budget
<1> QED BY <1>3, <1>4, <1>5, <1>6 DEF ExceptionInv

\* What is caught had its catch block on the stack, above every late callback.
LEMMA ExceptionCaught ==
  ASSUME ExceptionInv, NEW i \in DOMAIN calls, Catches(i)
  PROVE  ExceptionInv'
<1> DEFINE k == exception
<1>1. /\ k # 0 /\ Top(i) /\ Guarded(calls[i].f) /\ Goes(i, "left") /\ UNCHANGED fixed
      /\ exception' = 0 /\ caught' = caught \cup {k} /\ passes' = passes + 1
      /\ lost' = lost /\ overdue' = overdue
  BY DEF Catches
<1>2. /\ TypeOK /\ DOMAIN calls = 1..Len(calls) /\ Len(calls) \in Nat \ {0}
      /\ passes \in Nat /\ Cardinality(overdue) \in Nat
  BY Recorded DEF ExceptionInv, TypeOK
<1>3. /\ TypeOK' /\ Standing' /\ Guarded(calls[1].f)'
      /\ \A l \in DOMAIN calls : Exposed(l)' <=> Exposed(l)
      /\ Pending' => Pending
      /\ \A j \in DOMAIN calls :
           calls'[j].stage = IF j = i THEN "left" ELSE calls[j].stage
      /\ \A l \in overdue : calls'[l].stage = "left" \/ k = l
      /\ k \in DOMAIN calls /\ i <= k
      /\ i # k => calls[k].stage = "left"
  <2>1. exception' \in {0, exception} /\ passes' \in Nat
        /\ caught' \cup lost' \subseteq caught \cup lost \cup ({exception} \ {0})
    BY <1>1, <1>2
  <2> QED BY <1>1, <2>1, TopLeaves
<1>4. ~Exposed(k)
  <2> SUFFICES ASSUME NEW m \in 1..(k - 1), calls[m].stage = "late",
                      \A j \in (m + 1)..k : calls[j].f \in Unguarded
               PROVE  FALSE
    BY DEF Exposed
  <2>1. m \in DOMAIN calls /\ i \in Nat /\ k \in Nat /\ m \in Nat
    BY <1>2, <1>3
  <2>2. i \notin 1..m
    BY <1>1, <2>1 DEF ExceptionInv, Standing, Late, Top
  <2>3. i \in (m + 1)..k
    BY <1>2, <1>3, <2>1, <2>2
  <2>4. calls[i] \in Entries
    BY <1>2, Recorded
  <2>5. calls[i].f \in Functions
    BY <2>4 DEF Entries
  <2> QED BY <1>1, <1>2, <2>3, <2>5, GuardedOrNot
<1>5. LostBehindLaterCallback'
  BY <1>1, <1>2, <1>3, <1>4 DEF ExceptionInv, TypeOK, LostBehindLaterCallback
<1>6. Falling'
  BY <1>1 DEF Falling
<1>7. Budget'
  <2>1. \A l \in overdue : calls'[l].stage = "left"
    BY <1>1, <1>3
  <2>2. passes + (IF Pending THEN 1 ELSE 0) + 1 <= 1 + Cardinality(overdue)
    BY <1>1 DEF ExceptionInv, Budget
  <2>3. /\ (IF Pending THEN 1 ELSE 0) \in {0, 1} /\ (IF Pending' THEN 1 ELSE 0) \in {0, 1}
        /\ (IF Pending' THEN 1 ELSE 0) <= (IF Pending THEN 1 ELSE 0)
    BY <1>3
  <2>4. passes' + (IF Pending' THEN 1 ELSE 0) + (IF exception' # 0 THEN 1 ELSE 0)
          <= 1 + Cardinality(overdue')
    BY <1>1, <1>2, <2>2, <2>3
  <2> QED BY <1>1, <2>1, <2>4 DEF Budget
<1> QED BY <1>3, <1>5, <1>6, <1>7 DEF ExceptionInv

\* What has left the stack went through unguarded calls alone, down to a function
\* that called back later: the first function of a request is guarded.
LEMMA ExceptionEscapes ==
  ASSUME ExceptionInv, NEW i \in DOMAIN calls, Escapes(i)
  PROVE  ExceptionInv'
<1> DEFINE k == exception
<1>1. /\ k # 0 /\ Top(i) /\ ~Guarded(calls[i].f) /\ Goes(i, "left") /\ UNCHANGED fixed
      /\ caught' = caught /\ overdue' = overdue /\ passes' = passes
      /\ \/ exception' = k /\ lost' = lost
         \/ /\ exception' = 0 /\ lost' = lost \cup {k}
            /\ \A j \in DOMAIN calls \ {i} : ~OnStack(j)
  BY DEF Escapes
<1>2. /\ TypeOK /\ DOMAIN calls = 1..Len(calls) /\ Len(calls) \in Nat \ {0}
      /\ passes \in Nat /\ Cardinality(overdue) \in Nat
      /\ calls[i] \in Entries
  BY Recorded DEF ExceptionInv, TypeOK
<1>3. /\ TypeOK' /\ Standing' /\ Guarded(calls[1].f)'
      /\ \A l \in DOMAIN calls : Exposed(l)' <=> Exposed(l)
      /\ Pending' => Pending
      /\ \A j \in DOMAIN calls :
           /\ calls'[j].f = calls[j].f
           /\ calls'[j].stage = IF j = i THEN "left" ELSE calls[j].stage
      /\ \A l \in overdue : calls'[l].stage = "left" \/ k = l
      /\ k \in DOMAIN calls /\ i <= k
      /\ i # k => calls[k].stage = "left"
  <2>1. exception' \in {0, exception} /\ passes' \in Nat
        /\ caught' \cup lost' \subseteq caught \cup lost \cup ({exception} \ {0})
    BY <1>1, <1>2
  <2> QED BY <1>1, <2>1, TopLeaves
<1>4. calls[i].f \in Unguarded /\ Unguarded' = Unguarded
  <2>1. calls[i].f \in Functions
    BY <1>2 DEF Entries
  <2> QED BY <1>1, <1>2, <2>1, GuardedOrNot DEF Unguarded, fixed
<1>5. PICK m \in 0..(k - 1) :
        /\ m = 0 \/ Late(m)
        /\ \A j \in (m + 1)..k : OnStack(j) \/ calls[j].f \in Unguarded
  BY <1>1 DEF ExceptionInv, Falling
<1>6. /\ \A j \in (m + 1)..k : j \in DOMAIN calls
      /\ m # 0 => m \in DOMAIN calls /\ m \in 1..(k - 1)
      /\ k \in DOMAIN calls /\ k \in Nat \ {0} /\ m \in Nat
  BY <1>2, <1>3
<1>7. calls'[k].stage = "left"
  BY <1>3
<1>8. \A l \in overdue : calls'[l].stage = "left"
  BY <1>3, <1>7
<1>9. Falling'
  <2>1. CASE exception' = 0
    BY <2>1 DEF Falling
  <2>2. CASE exception' = k
    <3>1. \A j \in DOMAIN calls' : j > k => ~OnStack(j)'
      BY <1>1, <1>2, <1>3 DEF ExceptionInv, Falling, OnStack, Goes
    <3>2. \A j \in (m + 1)..k : OnStack(j)' \/ calls'[j].f \in Unguarded'
      BY <1>3, <1>4, <1>5, <1>6 DEF OnStack
    <3>3. m = 0 \/ Late(m)'
      <4>1. m # 0 => m # i
        BY <1>1, <1>5 DEF Top, OnStack, Late
      <4> QED BY <1>3, <1>5, <1>6, <4>1 DEF Late
    <3> QED BY <1>7, <2>2, <3>1, <3>2, <3>3 DEF Falling
  <2> QED BY <1>1, <2>1, <2>2
<1>10. LostBehindLaterCallback'
  <2>1. CASE lost' = lost
    BY <1>1, <1>2, <1>3, <2>1 DEF ExceptionInv, TypeOK, LostBehindLaterCallback
  <2>2. CASE lost' = lost \cup {k} /\ \A j \in DOMAIN calls \ {i} : ~OnStack(j)
    <3>1. \A j \in (m + 1)..k : calls[j].f \in Unguarded
      BY <1>4, <1>5, <1>6, <2>2
    <3>2. m # 0
      <4> SUFFICES ASSUME m = 0 PROVE FALSE
        OBVIOUS
      <4>1. calls[1].f \in Unguarded /\ 1 \in DOMAIN calls
        BY <1>2, <1>6, <3>1
      <4>2. calls[1].f \in Functions
        BY <1>2, <4>1, Recorded DEF Entries
      <4> QED BY <1>2, <4>1, <4>2, GuardedOrNot DEF ExceptionInv
    <3>3. Exposed(k)
      BY <1>5, <1>6, <3>1, <3>2 DEF Exposed, Late
    <3> QED
      BY <1>1, <1>2, <1>3, <2>2, <3>3 DEF ExceptionInv, TypeOK, LostBehindLaterCallback
  <2> QED BY <1>1, <2>1, <2>2
<1>11. Budget'
  <2>1. passes + (IF Pending THEN 1 ELSE 0) + 1 <= 1 + Cardinality(overdue)
    BY <1>1 DEF ExceptionInv, Budget
  <2>2. /\ (IF Pending THEN 1 ELSE 0) \in {0, 1} /\ (IF Pending' THEN 1 ELSE 0) \in {0, 1}
        /\ (IF Pending' THEN 1 ELSE 0) <= (IF Pending THEN 1 ELSE 0)
        /\ (IF exception' # 0 THEN 1 ELSE 0) \in {0, 1}
    BY <1>3
  <2>3. passes' + (IF Pending' THEN 1 ELSE 0) + (IF exception' # 0 THEN 1 ELSE 0)
          <= 1 + Cardinality(overdue')
    BY <1>1, <1>2, <2>1, <2>2
  <2> QED BY <1>1, <1>8, <2>3 DEF Budget
<1> QED BY <1>3, <1>9, <1>10, <1>11 DEF ExceptionInv

LEMMA ExceptionNext == ExceptionInv /\ [Next]_vars => ExceptionInv'
<1> SUFFICES ASSUME ExceptionInv, [Next]_vars
             PROVE  ExceptionInv'
  OBVIOUS
<1>1. CASE CallsBack
  <2>1. ASSUME NEW f, At(f), PassOn PROVE ExceptionInv'
    BY <2>1, PassesOn
  <2>2. ASSUME NEW f, At(f), NEW g \in Functions, Call(g) PROVE ExceptionInv'
    BY <2>2, CallsOn
  <2> QED
    BY <1>1, <2>1, <2>2
       DEF CallsBack, Validated, Immediated, Stored, Parsed, CodeIssued, Extended,
           TokenIssued, Completed, Response, Functions
<1>2. CASE ReturnsFirst \/ Throws
  BY <1>2, Falls
<1>3. CASE \E i \in DOMAIN calls : Returns(i) \/ ThrowsLate(i) \/ Catches(i) \/ Escapes(i)
  BY <1>3, FunctionReturns, FunctionThrowsLate, ExceptionCaught, ExceptionEscapes
<1>4. CASE UNCHANGED vars
  BY <1>4 DEF vars, ExceptionInv, TypeOK, Standing, Falling, Budget, Pending, Late,
              OnStack, Guarded, LostBehindLaterCallback, Exposed, Unguarded
<1> QED BY <1>1, <1>2, <1>3, <1>4 DEF Next

LEMMA ExceptionInvariant == Spec => []ExceptionInv
BY ExceptionInit, ExceptionNext, PTL DEF Spec

\* Every variable keeps its type, and only the function last called has not called
\* back (authorization.js, resume.js, decision.js, session.js, the grants).
THEOREM ExceptionsTypeCorrect == Spec => []TypeOK
<1>1. ExceptionInv => TypeOK
  BY DEF ExceptionInv
<1> QED BY <1>1, ExceptionInvariant, PTL

\* However callbacks nest and wherever the application's functions throw, before or
\* after they call back: the catch blocks of the middlewares, of serializeClient and
\* of the grants together pass a request on once, and once more at most for each
\* function that throws although it has called back.
THEOREM ExceptionsPassOnOnce == Spec => []PassedOnOnce
<1>1. ExceptionInv => PassedOnOnce
  <2> SUFFICES ASSUME ExceptionInv PROVE PassedOnOnce
    OBVIOUS
  <2>1. passes \in Nat /\ Cardinality(overdue) \in Nat
    BY Recorded DEF ExceptionInv, TypeOK
  <2>2. /\ (IF Pending THEN 1 ELSE 0) \in {0, 1}
        /\ (IF exception # 0 THEN 1 ELSE 0) \in {0, 1}
    OBVIOUS
  <2> QED BY <2>1, <2>2 DEF ExceptionInv, Budget, PassedOnOnce
<1> QED BY <1>1, ExceptionInvariant, PTL

\* An exception is lost exactly behind a function that called back later, with
\* nothing but functions called outside every try block since.  A serializer of the
\* session store is never one of them (server.js:234-238).
THEOREM ExceptionsLostBehindLater == Spec => []LostBehindLaterCallback
<1>1. ExceptionInv => LostBehindLaterCallback
  BY DEF ExceptionInv
<1> QED BY <1>1, ExceptionInvariant, PTL
=============================================================================
