---------------------- MODULE RequestParametersProofs ----------------------
(***************************************************************************)
(* What comparing lists without their order decides, and what is read out  *)
(* of the parameters of a request, for lists and scopes of any length.     *)
(***************************************************************************)
EXTENDS RequestParameters, FiniteSets, FiniteSetTheorems, SequenceTheorems,
        WellFoundedInduction, TLAPS

\* A list has at most as many words as items, and exactly as many when they are
\* distinct.
LEMMA WordsCounted ==
  ASSUME NEW S, NEW a \in Seq(S)
  PROVE  /\ IsFiniteSet(Words(a)) /\ Cardinality(Words(a)) \in Nat
         /\ Cardinality(Words(a)) <= Len(a)
         /\ Cardinality(Words(a)) = Len(a) <=> Distinct(a)
<1> DEFINE f == [i \in 1..Len(a) |-> a[i]]
<1>1. Len(a) \in Nat /\ DOMAIN a = 1..Len(a)
  OBVIOUS
<1>2. f \in Surjection(1..Len(a), Words(a))
  BY <1>1 DEF Words, Surjection
<1>3. IsFiniteSet(1..Len(a)) /\ Cardinality(1..Len(a)) = Len(a)
  BY <1>1, FS_Interval
<1>4. /\ IsFiniteSet(Words(a)) /\ Cardinality(Words(a)) <= Len(a)
      /\ Cardinality(Words(a)) = Len(a)
           <=> f \in Injection(1..Len(a), Words(a))
  BY <1>2, <1>3, FS_Surjection
<1>5. f \in Injection(1..Len(a), Words(a)) <=> Distinct(a)
  BY <1>1, <1>2 DEF Distinct, Injection, Surjection, IsInjective
<1>6. Cardinality(Words(a)) \in Nat
  BY <1>4, FS_CardinalityType
<1> QED BY <1>4, <1>5, <1>6

\* equalTo asks for two lengths and one inclusion only.  For a list of distinct
\* words, as the type a grant is registered for, that decides whether the other
\* list holds the same words, each once.
THEOREM EqualToDecides ==
  ASSUME NEW S, NEW a \in Seq(S), NEW b \in Seq(S), Distinct(a)
  PROVE  EqualTo(a, b) <=> Words(a) = Words(b) /\ Distinct(b)
<1> USE WordsCounted
<1>1. Cardinality(Words(a)) = Len(a)
  OBVIOUS
<1>2. (\A i \in DOMAIN a : Contains(b, a[i])) <=> Words(a) \subseteq Words(b)
  BY DEF Contains, Words
<1>3. ASSUME EqualTo(a, b)
      PROVE  Words(a) = Words(b) /\ Distinct(b)
  <2>1. Words(a) \subseteq Words(b) /\ Len(a) = Len(b)
    BY <1>2, <1>3 DEF EqualTo
  <2>2. Cardinality(Words(a)) <= Cardinality(Words(b))
    BY <2>1, FS_Subset
  <2>3. Cardinality(Words(b)) = Len(b)
    BY <1>1, <2>1, <2>2
  <2>4. Words(a) = Words(b)
    BY <1>1, <2>1, <2>3, FS_Subset
  <2> QED BY <2>3, <2>4
<1>4. ASSUME Words(a) = Words(b), Distinct(b)
      PROVE  EqualTo(a, b)
  BY <1>1, <1>2, <1>4 DEF EqualTo
<1> QED BY <1>3, <1>4
-----------------------------------------------------------------------------
\* The words and characters the parameters are made of.
ParametersTyped ==
  /\ layer \in Seq(TypeWords) /\ request \in Seq(TypeWords)
  /\ scope \in Seq(Chars) /\ separators \in Seq(Seq(Chars))

LEMMA BoundedSequences ==
  ASSUME NEW S, NEW n \in Nat, NEW x \in Lists!BoundedSeq(S, n)
  PROVE  x \in Seq(S)
<1>1. PICK m \in 0..n : x \in [1..m -> S]
  BY DEF Lists!BoundedSeq, Lists!SeqOf
<1>2. m \in Nat
  OBVIOUS
<1> QED BY <1>1, <1>2, SeqDef

LEMMA ParametersInvariant == Spec => []ParametersTyped
<1>1. Init => ParametersTyped
  <2> DEFINE Strings == Lists!BoundedSeq(Chars, MaxSeparator)
  <2>1. ASSUME NEW x \in Lists!BoundedSeq(Strings, MaxSeparators)
        PROVE  x \in Seq(Seq(Chars))
    <3>1. Strings \subseteq Seq(Chars)
      BY BoundedSequences, ParametersAssumption
    <3> HIDE DEF Strings
    <3>2. x \in Seq(Strings)
      BY BoundedSequences, ParametersAssumption
    <3> QED BY <3>1, <3>2
  <2>2. <<>> \in Seq(TypeWords) /\ <<>> \in Seq(Chars) /\ <<>> \in Seq(Seq(Chars))
    OBVIOUS
  <2> SUFFICES ASSUME Init PROVE ParametersTyped
    OBVIOUS
  <2>3. layer = <<>> /\ request = <<>> /\ scope = <<>>
    BY DEF Init
  <2>4. separators = <<>> \/ separators \in Lists!BoundedSeq(Strings, MaxSeparators)
    BY DEF Init
  <2> HIDE DEF Strings
  <2> QED BY <2>1, <2>2, <2>3, <2>4 DEF ParametersTyped
<1>2. ParametersTyped /\ [Next]_<<fixed, layer, request, scope>> => ParametersTyped'
  <2> SUFFICES ASSUME ParametersTyped, [Next]_<<fixed, layer, request, scope>>
               PROVE  ParametersTyped'
    OBVIOUS
  <2> USE DEF ParametersTyped, fixed
  <2>1. CASE NameLayer
    BY <2>1, AppendProperties DEF NameLayer
  <2>2. CASE NameRequest
    BY <2>2, AppendProperties DEF NameRequest
  <2>3. CASE GrowScope
    BY <2>3, AppendProperties DEF GrowScope
  <2>4. CASE UNCHANGED <<fixed, layer, request, scope>>
    BY <2>4
  <2> QED BY <2>1, <2>2, <2>3, <2>4 DEF Next
<1> QED BY <1>1, <1>2, PTL DEF Spec

\* A grant registered for a type that repeats no word answers exactly the
\* requests that name the same words, once each (UnorderedList.equalTo).
THEOREM RequestsMatchedByWords == Spec => []EqualToSameWords
<1>1. ParametersTyped => EqualToSameWords
  BY EqualToDecides DEF ParametersTyped, EqualToSameWords
<1> QED BY <1>1, ParametersInvariant, PTL

\* Whatever modes the application adds to the tables, and whatever types to
\* those whose errors are put into the fragment, as long as the code grant's is
\* not one: the encoding of an error is that of the answer of the grant for the
\* request (errorHandler.js, the grants).
THEOREM ErrorsFoundWithGrants == Spec => []ErrorsEncodedAsGrants
<1>1. ErrorsEncodedAsGrants
  BY DEF ErrorsEncodedAsGrants, GrantSupports, GrantMode, IndirectMode
<1> QED BY <1>1, PTL
-----------------------------------------------------------------------------
(* Induction over the length of a sequence, by the least counterexample.      *)

LEMMA LeastNumber ==
  ASSUME NEW T \in SUBSET Nat, T # {}
  PROVE  \E m \in T : \A n \in T : m <= n
<1> DEFINE R == OpToRel(<, Nat)
<1>1. IsWellFoundedOn(R, Nat)
  BY NatLessThanWellFounded
<1>2. \A x, y \in Nat : <<x, y>> \in R <=> x < y
  BY DEF OpToRel
<1> HIDE DEF R
<1>3. PICK m \in T : \A n \in T : <<n, m>> \notin R
  BY <1>1, WFMin
<1>4. \A n \in T : m <= n
  <2> TAKE n \in T
  <2>1. m \in Nat /\ n \in Nat /\ ~(n < m)
    BY <1>2, <1>3
  <2> QED BY <2>1
<1> QED BY <1>4

\* A set of numbers up to n with 0, and with the successor of each below n, has
\* all of them.
LEMMA Induction ==
  ASSUME NEW n \in Nat, NEW T, 0 \in T,
         \A m \in 0..n : m < n /\ m \in T => m + 1 \in T
  PROVE  \A m \in 0..n : m \in T
<1> DEFINE C == {m \in 0..n : m \notin T}
<1> SUFFICES ASSUME C # {} PROVE FALSE
  OBVIOUS
<1>1. C \in SUBSET Nat
  OBVIOUS
<1>2. PICK m \in C : \A k \in C : m <= k
  BY <1>1, LeastNumber
<1>3. /\ m \in 1..n /\ m \notin T /\ m - 1 \in 0..n /\ m - 1 < n /\ ~(m <= m - 1)
      /\ (m - 1) + 1 = m
  BY <1>2
<1>4. m - 1 \in T
  BY <1>2, <1>3
<1> QED BY <1>3, <1>4
-----------------------------------------------------------------------------
(* Dividing a scope, and putting its pieces together. *)

\* The recursive functions within Split and Joined.
Dividing(f, s, sep) ==
  f = [n \in 0..Len(s) |-> IF n = 0 THEN << <<>> >> ELSE Taking(f[n - 1], s[n], sep)]
Joining(f, ps, sep) ==
  f = [n \in 1..Len(ps) |->
         IF n = 1 THEN ps[1] ELSE f[n - 1] \o sep \o ps[n]]

LEMMA SplitDivides ==
  ASSUME NEW S, NEW s \in Seq(S), NEW sep
  PROVE  \E f : Dividing(f, s, sep) /\ Split(s, sep) = f[Len(s)]
<1> DEFINE D(g, n) ==
             g = [k \in 0..n |-> IF k = 0 THEN << <<>> >>
                                 ELSE Taking(g[k - 1], s[k], sep)]
           T == {n \in 0..Len(s) : \E g : D(g, n)}
           f[n \in 0..Len(s)] ==
             IF n = 0 THEN << <<>> >> ELSE Taking(f[n - 1], s[n], sep)
<1>1. Len(s) \in Nat
  OBVIOUS
<1>2. 0 \in T
  <2> DEFINE g == [k \in 0..0 |-> << <<>> >>]
  <2>1. D(g, 0) /\ 0 \in 0..Len(s)
    BY <1>1
  <2> HIDE DEF g, D
  <2> QED BY <2>1
<1>3. ASSUME NEW m \in 0..Len(s), m < Len(s), m \in T
      PROVE  m + 1 \in T
  <2>1. PICK g : D(g, m)
    BY <1>3
  <2> DEFINE h == [k \in 0..(m + 1) |->
                     IF k = m + 1 THEN Taking(g[m], s[m + 1], sep) ELSE g[k]]
  <2>2. m \in Nat /\ m + 1 \in 0..Len(s)
    BY <1>1, <1>3
  <2>3. ASSUME NEW k \in 0..(m + 1)
        PROVE  h[k] = IF k = 0 THEN << <<>> >> ELSE Taking(h[k - 1], s[k], sep)
    <3>1. CASE k = m + 1
      <4>1. k - 1 = m /\ k # 0 /\ m \in 0..(m + 1) /\ m # m + 1
        BY <2>2, <3>1
      <4>2. h[m] = g[m] /\ h[k] = Taking(g[m], s[k], sep)
        BY <3>1, <4>1
      <4> QED BY <4>1, <4>2
    <3>2. CASE k # m + 1 /\ k # 0
      <4>1. k \in 0..m /\ k - 1 \in 0..(m + 1) /\ k - 1 # m + 1
        BY <2>2, <3>2
      <4>2. h[k] = g[k] /\ h[k - 1] = g[k - 1]
        BY <3>2, <4>1
      <4>3. g[k] = Taking(g[k - 1], s[k], sep)
        BY <2>1, <3>2, <4>1
      <4> QED BY <3>2, <4>2, <4>3
    <3>3. CASE k = 0
      <4>1. 0 \in 0..m /\ 0 # m + 1
        BY <2>2
      <4> QED BY <2>1, <3>3, <4>1
    <3> QED BY <3>1, <3>2, <3>3
  <2>4. D(h, m + 1)
    BY <2>3
  <2> QED BY <2>2, <2>4
<1>4. Len(s) \in T
  <2> HIDE DEF T
  <2>1. \A m \in 0..Len(s) : m < Len(s) /\ m \in T => m + 1 \in T
    BY <1>3
  <2>2. \A m \in 0..Len(s) : m \in T
    BY <1>1, <1>2, <2>1, Induction
  <2> QED BY <1>1, <2>2
<1>5. Dividing(f, s, sep)
  <2>1. \E g : D(g, Len(s))
    BY <1>4
  <2> QED BY <2>1 DEF Dividing
<1>6. Split(s, sep) = f[Len(s)]
  BY DEF Split
<1> HIDE DEF f
<1> QED BY <1>5, <1>6

LEMMA JoinedJoins ==
  ASSUME NEW S, NEW ps \in Seq(S), NEW sep, ps # <<>>
  PROVE  \E f : Joining(f, ps, sep) /\ Joined(ps, sep) = f[Len(ps)]
<1> DEFINE D(g, n) ==
             g = [k \in 1..n |-> IF k = 1 THEN ps[1]
                                 ELSE g[k - 1] \o sep \o ps[k]]
           T == {n \in Nat : \E g : D(g, n + 1)}
           f[n \in 1..Len(ps)] ==
             IF n = 1 THEN ps[1] ELSE f[n - 1] \o sep \o ps[n]
<1>1. Len(ps) \in Nat \ {0} /\ Len(ps) - 1 \in Nat
  BY EmptySeq
<1>2. 0 \in T
  <2> DEFINE g == [k \in 1..1 |-> ps[1]]
  <2>1. D(g, 1)
    OBVIOUS
  <2> HIDE DEF g, D
  <2>2. 0 \in Nat /\ 0 + 1 = 1
    OBVIOUS
  <2> QED BY <2>1, <2>2
<1>3. ASSUME NEW n \in Nat, n \in T
      PROVE  n + 1 \in T
  <2>1. PICK g : D(g, n + 1)
    BY <1>3
  <2> DEFINE m == n + 1
             h == [k \in 1..(m + 1) |->
                     IF k = m + 1 THEN g[m] \o sep \o ps[m + 1] ELSE g[k]]
  <2>2. m \in Nat \ {0} /\ n + 1 \in Nat
    OBVIOUS
  <2>3. D(g, m)
    BY <2>1
  <2> HIDE DEF m
  <2>4. ASSUME NEW k \in 1..(m + 1)
        PROVE  h[k] = IF k = 1 THEN ps[1] ELSE h[k - 1] \o sep \o ps[k]
    <3>1. CASE k = m + 1
      <4>1. k - 1 = m /\ k # 1 /\ m \in 1..(m + 1) /\ m # m + 1
        BY <2>2, <3>1
      <4>2. h[m] = g[m] /\ h[k] = g[m] \o sep \o ps[k]
        BY <3>1, <4>1
      <4> QED BY <4>1, <4>2
    <3>2. CASE k # m + 1 /\ k # 1
      <4>1. k \in 1..m /\ k - 1 \in 1..(m + 1) /\ k - 1 # m + 1
        BY <2>2, <3>2
      <4>2. h[k] = g[k] /\ h[k - 1] = g[k - 1]
        BY <3>2, <4>1
      <4>3. g[k] = g[k - 1] \o sep \o ps[k]
        BY <2>3, <3>2, <4>1
      <4> QED BY <3>2, <4>2, <4>3
    <3>3. CASE k = 1
      <4>1. 1 \in 1..m /\ 1 # m + 1 /\ 1 \in 1..(m + 1)
        BY <2>2
      <4> QED BY <2>3, <3>3, <4>1
    <3> QED BY <3>1, <3>2, <3>3
  <2>5. D(h, m + 1)
    BY <2>4
  <2> HIDE DEF h, D
  <2> QED BY <2>2, <2>5 DEF m
<1>4. \E g : D(g, Len(ps))
  <2> HIDE DEF T
  <2>1. \A m \in 0..(Len(ps) - 1) : m < Len(ps) - 1 /\ m \in T => m + 1 \in T
    BY <1>1, <1>3
  <2>2. \A m \in 0..(Len(ps) - 1) : m \in T
    BY <1>1, <1>2, <2>1, Induction
  <2>3. Len(ps) - 1 \in T /\ (Len(ps) - 1) + 1 = Len(ps)
    BY <1>1, <2>2
  <2> HIDE DEF D
  <2> QED BY <2>3 DEF T
<1>5. Joining(f, ps, sep)
  BY <1>4 DEF Joining
<1>6. Joined(ps, sep) = f[Len(ps)]
  BY DEF Joined
<1> HIDE DEF f
<1> QED BY <1>5, <1>6

LEMMA JoinedOne ==
  ASSUME NEW S, NEW p \in Seq(S), NEW sep
  PROVE  Joined(<<p>>, sep) = p
<1>1. <<p>> \in Seq(Seq(S)) /\ Len(<<p>>) = 1 /\ <<p>> # <<>> /\ <<p>>[1] = p
  OBVIOUS
<1>2. PICK f : Joining(f, <<p>>, sep) /\ Joined(<<p>>, sep) = f[1]
  BY <1>1, JoinedJoins
<1> QED BY <1>1, <1>2 DEF Joining

\* Joining pieces yields a sequence, which a piece more extends.
LEMMA JoinedAppend ==
  ASSUME NEW S, NEW ps \in Seq(Seq(S)), ps # <<>>, NEW p \in Seq(S), NEW sep \in Seq(S)
  PROVE  /\ Joined(ps, sep) \in Seq(S)
         /\ Joined(Append(ps, p), sep) = Joined(ps, sep) \o sep \o p
<1> DEFINE qs == Append(ps, p)
           L == Len(ps)
<1>1. /\ L \in Nat \ {0} /\ L - 1 \in Nat /\ qs \in Seq(Seq(S)) /\ qs # <<>>
      /\ Len(qs) = L + 1 /\ qs[L + 1] = p
      /\ \A i \in 1..L : qs[i] = ps[i] /\ ps[i] \in Seq(S)
  BY AppendProperties, ElementOfSeq, EmptySeq
<1> HIDE DEF qs
<1>2. PICK f : Joining(f, ps, sep) /\ Joined(ps, sep) = f[L]
  BY JoinedJoins
<1>3. PICK g : Joining(g, qs, sep) /\ Joined(qs, sep) = g[L + 1]
  BY <1>1, JoinedJoins
<1>4. \A i \in 1..L :
        /\ f[i] = IF i = 1 THEN ps[1] ELSE f[i - 1] \o sep \o ps[i]
        /\ g[i] = IF i = 1 THEN ps[1] ELSE g[i - 1] \o sep \o ps[i]
  <2>1. \A i \in 1..L : i \in 1..(L + 1) /\ 1 \in 1..L
    BY <1>1
  <2>2. \A i \in 1..L : f[i] = IF i = 1 THEN ps[1] ELSE f[i - 1] \o sep \o ps[i]
    BY <1>2 DEF Joining
  <2>3. \A i \in 1..(L + 1) :
          g[i] = IF i = 1 THEN qs[1] ELSE g[i - 1] \o sep \o qs[i]
    BY <1>1, <1>3 DEF Joining
  <2> QED BY <1>1, <2>1, <2>2, <2>3
<1>5. g[L + 1] = g[L] \o sep \o p
  <2>1. L + 1 \in 1..Len(qs) /\ L + 1 # 1 /\ (L + 1) - 1 = L
    BY <1>1
  <2> QED BY <1>1, <1>3, <2>1 DEF Joining
<1> DEFINE T == {i \in Nat : f[i + 1] = g[i + 1] /\ f[i + 1] \in Seq(S)}
<1>6. 0 \in T
  <2>1. 0 \in Nat /\ 0 + 1 = 1 /\ 1 \in 1..L
    BY <1>1
  <2> QED BY <1>1, <1>4, <2>1
<1>7. \A m \in 0..(L - 1) : m < L - 1 /\ m \in T => m + 1 \in T
  <2> SUFFICES ASSUME NEW m \in 0..(L - 1), m < L - 1, m \in T
               PROVE  m + 1 \in T
    OBVIOUS
  <2> DEFINE i == m + 2
  <2>1. i \in 1..L /\ i # 1 /\ i - 1 = m + 1 /\ (m + 1) + 1 = i /\ m + 1 \in Nat
    BY <1>1
  <2>2. f[m + 1] = g[m + 1] /\ f[m + 1] \in Seq(S)
    OBVIOUS
  <2> HIDE DEF i
  <2>3. /\ f[i] = f[m + 1] \o sep \o ps[i]
        /\ g[i] = g[m + 1] \o sep \o ps[i]
    BY <1>4, <2>1
  <2>4. f[m + 1] \o sep \o ps[i] \in Seq(S)
    <3>1. ps[i] \in Seq(S)
      BY <1>1, <2>1
    <3>2. f[m + 1] \o sep \in Seq(S)
      BY <2>2, <3>1, ConcatProperties
    <3> QED BY <3>1, <3>2, ConcatProperties
  <2> QED BY <2>1, <2>2, <2>3, <2>4
<1>8. f[L] = g[L] /\ f[L] \in Seq(S)
  <2> HIDE DEF T
  <2>1. \A m \in 0..(L - 1) : m \in T
    BY <1>1, <1>6, <1>7, Induction
  <2>2. L - 1 \in T /\ (L - 1) + 1 = L
    BY <1>1, <2>1
  <2> QED BY <2>2 DEF T
<1> QED BY <1>2, <1>3, <1>5, <1>8 DEF qs

LEMMA ConcatAppend ==
  ASSUME NEW S, NEW s \in Seq(S), NEW t \in Seq(S), NEW c \in S
  PROVE  s \o Append(t, c) = Append(s \o t, c)
<1>1. s \o t \in Seq(S) /\ <<c>> \in Seq(S)
  BY ConcatProperties
<1>2. Append(t, c) = t \o <<c>> /\ Append(s \o t, c) = (s \o t) \o <<c>>
  BY <1>1, AppendIsConcat
<1> QED BY <1>1, <1>2, ConcatAssociative

LEMMA LastPiece ==
  ASSUME NEW S, NEW ps \in Seq(Seq(S)), ps # <<>>
  PROVE  /\ ps[Len(ps)] \in Seq(S) /\ Ending(ps, ps[Len(ps)]) = ps
         /\ \A p \in Seq(S) :
              /\ Ending(ps, p) \in Seq(Seq(S)) /\ Ending(ps, p) # <<>>
              /\ Len(Ending(ps, p)) = Len(ps)
              /\ \A i \in 1..Len(ps) :
                   Ending(ps, p)[i] = IF i = Len(ps) THEN p ELSE ps[i]
<1> DEFINE L == Len(ps)
<1>1. /\ L \in Nat \ {0} /\ L \in 1..L /\ DOMAIN ps = 1..L
      /\ \A i \in 1..L : ps[i] \in Seq(S)
  BY ElementOfSeq, EmptySeq
<1>2. ASSUME NEW p \in Seq(S)
      PROVE  /\ Ending(ps, p) \in Seq(Seq(S)) /\ Ending(ps, p) # <<>>
             /\ Len(Ending(ps, p)) = L
             /\ \A i \in 1..L : Ending(ps, p)[i] = IF i = L THEN p ELSE ps[i]
  <2>1. /\ Ending(ps, p) \in Seq(Seq(S)) /\ Len(Ending(ps, p)) = L
        /\ \A i \in 1..L : Ending(ps, p)[i] = IF i = L THEN p ELSE ps[i]
    BY <1>1, ExceptSeq DEF Ending
  <2> QED BY <1>1, <2>1, EmptySeq
<1>3. Ending(ps, ps[L]) = ps
  <2>1. ps[L] \in Seq(S)
    BY <1>1
  <2>2. /\ Ending(ps, ps[L]) \in Seq(Seq(S)) /\ Len(Ending(ps, ps[L])) = L
        /\ \A i \in 1..L : Ending(ps, ps[L])[i] = IF i = L THEN ps[L] ELSE ps[i]
    BY <1>2, <2>1
  <2>3. \A i \in 1..L : Ending(ps, ps[L])[i] = ps[i]
    BY <2>2
  <2> QED BY <2>2, <2>3, SeqEqual
<1> QED BY <1>1, <1>2, <1>3

\* Whatever the last piece becomes, what the pieces amount to ends with it and
\* begins as before.
BeginAs(h, ps, sep, S) ==
  \A p \in Seq(S) : Joined(Ending(ps, p), sep) = h \o p

LEMMA LastPieceJoined ==
  ASSUME NEW S, NEW ps \in Seq(Seq(S)), ps # <<>>, NEW sep \in Seq(S)
  PROVE  \E h \in Seq(S) : BeginAs(h, ps, sep, S)
<1> DEFINE L == Len(ps)
<1>0. \A p \in Seq(S) :
        /\ Ending(ps, p) \in Seq(Seq(S)) /\ Len(Ending(ps, p)) = L
        /\ \A i \in 1..L : Ending(ps, p)[i] = IF i = L THEN p ELSE ps[i]
  BY LastPiece
<1>1. CASE L = 1
  <2>1. ASSUME NEW p \in Seq(S)
        PROVE  Joined(Ending(ps, p), sep) = <<>> \o p
    <3>1. /\ <<p>> \in Seq(Seq(S)) /\ Len(<<p>>) = 1 /\ <<p>>[1] = p
      OBVIOUS
    <3>2. Ending(ps, p) = <<p>>
      BY <1>0, <1>1, <3>1, SeqEqual
    <3> QED BY <3>2, JoinedOne, ConcatEmptySeq
  <2>2. <<>> \in Seq(S)
    OBVIOUS
  <2> QED BY <2>1, <2>2 DEF BeginAs
<1>2. CASE L # 1
  <2>1. PICK front \in Seq(Seq(S)), q \in Seq(S) : ps = Append(front, q)
    BY SequenceEmptyOrAppend
  <2>2. /\ L = Len(front) + 1 /\ Len(front) \in Nat
        /\ \A i \in 1..Len(front) : ps[i] = front[i]
    BY <2>1, AppendProperties
  <2>3. front # <<>>
    BY <1>2, <2>2
  <2>4. ASSUME NEW p \in Seq(S)
        PROVE  Ending(ps, p) = Append(front, p)
    <3> DEFINE fp == Append(front, p)
    <3>0. /\ fp \in Seq(Seq(S)) /\ Len(fp) = Len(front) + 1
          /\ \A i \in 1..Len(front) : fp[i] = front[i]
          /\ fp[Len(front) + 1] = p
      BY AppendProperties
    <3> HIDE DEF fp
    <3>1. fp[L] = p /\ Len(fp) = L
      BY <2>2, <3>0
    <3>2. /\ Ending(ps, p) \in Seq(Seq(S)) /\ Len(Ending(ps, p)) = L
          /\ \A i \in 1..L : Ending(ps, p)[i] = IF i = L THEN p ELSE ps[i]
      BY <1>0
    <3>3. \A i \in 1..L : i # L => i \in 1..Len(front)
      BY <2>2
    <3>4. \A i \in 1..L : Ending(ps, p)[i] = fp[i]
      BY <2>2, <3>0, <3>1, <3>2, <3>3
    <3>5. /\ Ending(ps, p) \in Seq(Seq(S)) /\ fp \in Seq(Seq(S))
          /\ Len(Ending(ps, p)) = Len(fp)
          /\ \A i \in 1..Len(Ending(ps, p)) : Ending(ps, p)[i] = fp[i]
      BY <3>0, <3>1, <3>2, <3>4
    <3>6. Ending(ps, p) = fp
      BY <3>5, SeqEqual
    <3> QED BY <3>6 DEF fp
  <2>5. \A p \in Seq(S) :
          /\ Joined(front, sep) \in Seq(S)
          /\ Joined(Append(front, p), sep) = Joined(front, sep) \o sep \o p
    BY <2>1, <2>3, JoinedAppend
  <2>6. Joined(front, sep) \in Seq(S) /\ Joined(front, sep) \o sep \in Seq(S)
    BY <2>1, <2>5, ConcatProperties
  <2>7. \A p \in Seq(S) :
          Joined(Ending(ps, p), sep) = (Joined(front, sep) \o sep) \o p
    BY <2>4, <2>5
  <2> QED BY <2>6, <2>7 DEF BeginAs
<1> QED BY <1>1, <1>2

\* A separator gets into a piece only with the character that completes it, and
\* once it is cut off, it is not in the piece any more.
LEMMA GrownPiece ==
  ASSUME NEW S, NEW p \in Seq(S), NEW c \in S, NEW sep \in Seq(S), sep # <<>>,
         ~Occurs(sep, p)
  PROVE  LET q == Append(p, c)
             cut == SubSeq(q, 1, Len(q) - Len(sep))
         IN IF Ends(sep, q)
              THEN cut \in Seq(S) /\ cut \o sep = q /\ ~Occurs(sep, cut)
              ELSE ~Occurs(sep, q)
<1> DEFINE q == Append(p, c)
           k == Len(sep)
           n == Len(p)
           d == n + 1 - k
           cut == SubSeq(q, 1, d)
<1>1. /\ k \in Nat \ {0} /\ n \in Nat /\ d \in Int
      /\ q \in Seq(S) /\ Len(q) = n + 1
      /\ \A i \in 1..n : q[i] = p[i]
  BY AppendProperties, EmptySeq
<1>2. ASSUME NEW i \in 0..n, i + k <= n, At(sep, q, i)
      PROVE  FALSE
  <2>1. \A j \in 1..k : i + j \in 1..n
    BY <1>1, <1>2
  <2>2. At(sep, p, i)
    BY <1>1, <1>2, <2>1 DEF At
  <2> QED BY <1>2, <2>2 DEF Occurs
<1> HIDE DEF q
<1>3. CASE ~Ends(sep, q)
  <2>1. ASSUME NEW i \in 0..(n + 1), i + k <= n + 1, At(sep, q, i)
        PROVE  FALSE
    <3>1. CASE i + k = n + 1
      <4>1. i = d /\ k <= n + 1
        BY <1>1, <3>1
      <4> QED BY <1>1, <1>3, <2>1, <4>1 DEF Ends
    <3>2. CASE i + k # n + 1
      <4>1. i + k <= n /\ i \in 0..n
        BY <1>1, <2>1, <3>2
      <4> QED BY <1>2, <2>1, <4>1
    <3> QED BY <3>1, <3>2
  <2>2. ~Occurs(sep, q)
    BY <1>1, <2>1 DEF Occurs
  <2> QED BY <1>3, <2>2 DEF q
<1>4. CASE Ends(sep, q)
  <2>1. k <= n + 1 /\ At(sep, q, d) /\ d \in 0..n
    BY <1>1, <1>4 DEF Ends
  <2>2. /\ cut \in Seq(S) /\ Len(cut) = d
        /\ \A i \in 1..d : cut[i] = q[i]
    <3>1. 1 <= d + 1 /\ d <= Len(q) /\ \A i \in 1..d : i \in 1..Len(q)
      BY <1>1, <2>1
    <3>2. \A i \in 1..d : q[i] \in S
      BY <1>1, <3>1, ElementOfSeq
    <3> QED BY <1>1, <2>1, <3>1, <3>2, SubSeqProperties
  <2> HIDE DEF cut
  <2>3. cut \o sep = q
    <3>1. /\ cut \o sep \in Seq(S) /\ Len(cut \o sep) = d + k
          /\ \A i \in 1..(d + k) :
               (cut \o sep)[i] = IF i <= d THEN cut[i] ELSE sep[i - d]
      BY <2>2, ConcatProperties
    <3>2. \A i \in 1..(n + 1) : (cut \o sep)[i] = q[i]
      <4> TAKE i \in 1..(n + 1)
      <4>1. CASE i <= d
        BY <1>1, <2>1, <2>2, <3>1, <4>1
      <4>2. CASE ~(i <= d)
        <5>1. i - d \in 1..k /\ d + (i - d) = i /\ i \in 1..(d + k)
          BY <1>1, <2>1, <4>2
        <5>2. q[i] = sep[i - d]
          <6> DEFINE j == i - d
          <6>1. j \in 1..k /\ d + j = i
            BY <5>1
          <6>2. \A x \in 1..k : q[d + x] = sep[x]
            BY <2>1 DEF At
          <6> HIDE DEF j, d
          <6>3. q[d + j] = sep[j]
            BY <6>1, <6>2
          <6> QED BY <6>1, <6>3 DEF j
        <5> QED BY <3>1, <4>2, <5>1, <5>2
      <4> QED BY <4>1, <4>2
    <3>3. d + k = n + 1
      BY <1>1
    <3> QED BY <1>1, <3>1, <3>2, <3>3, SeqEqual
  <2>4. ~Occurs(sep, cut)
    <3> SUFFICES ASSUME NEW i \in 0..d, i + k <= d, At(sep, cut, i)
                 PROVE  FALSE
      BY <2>2 DEF Occurs
    <3>1. i \in 0..n /\ i + k <= n /\ \A j \in 1..k : i + j \in 1..d
      BY <1>1, <2>1
    <3>2. At(sep, q, i)
      BY <2>2, <3>1 DEF At
    <3> QED BY <1>2, <3>1, <3>2
  <2>5. d = Len(q) - Len(sep)
    BY <1>1
  <2> HIDE DEF d
  <2>6. cut = SubSeq(q, 1, Len(q) - Len(sep))
    BY <2>5 DEF cut
  <2> QED BY <1>4, <2>2, <2>3, <2>4, <2>6 DEF q
<1> QED BY <1>3, <1>4

\* What the pieces of a string, or of the part of it that has been read, are like:
\* put together they are the string, and there is no more to divide.
Divided(ps, t, sep) ==
  /\ ps # <<>> /\ Joined(ps, sep) = t
  /\ \A i \in DOMAIN ps : ~Divides(sep, ps[i])
  /\ Len(ps) > 1 => Divides(sep, t)

\* A separator that is in a string is in what the string grows to.
LEMMA DividesGrown ==
  ASSUME NEW S, NEW t \in Seq(S), NEW c \in S, NEW sep \in Seq(S), Divides(sep, t)
  PROVE  Divides(sep, Append(t, c))
<1> DEFINE u == Append(t, c)
<1>1. /\ Len(u) = Len(t) + 1 /\ Len(t) \in Nat /\ Len(sep) \in Nat
      /\ \A i \in 1..Len(t) : u[i] = t[i]
  BY AppendProperties
<1> HIDE DEF u
<1>2. CASE sep = <<>>
  <2>1. Len(t) > 1
    BY <1>2 DEF Divides
  <2>2. Len(u) > 1
    BY <1>1, <2>1
  <2> QED BY <1>2, <2>2 DEF Divides, u
<1>3. CASE sep # <<>>
  <2>1. PICK i \in 0..Len(t) : i + Len(sep) <= Len(t) /\ At(sep, t, i)
    BY <1>3 DEF Divides, Occurs
  <2>2. \A j \in 1..Len(sep) : i + j \in 1..Len(t)
    BY <1>1, <2>1
  <2>3. At(sep, u, i)
    BY <1>1, <2>1, <2>2 DEF At
  <2>4. i \in 0..Len(u) /\ i + Len(sep) <= Len(u)
    BY <1>1, <2>1
  <2> QED BY <1>3, <2>3, <2>4 DEF Divides, Occurs, u
<1> QED BY <1>2, <1>3

LEMMA SeparatorOccurs ==
  ASSUME NEW S, NEW t \in Seq(S), NEW sep \in Seq(S), sep # <<>>
  PROVE  Divides(sep, t \o sep) /\ ~Divides(sep, <<>>)
<1> DEFINE u == t \o sep
<1>1. /\ Len(t) \in Nat /\ Len(sep) \in Nat \ {0} /\ Len(u) = Len(t) + Len(sep)
      /\ \A i \in 1..(Len(t) + Len(sep)) :
           u[i] = IF i <= Len(t) THEN t[i] ELSE sep[i - Len(t)]
  BY ConcatProperties, EmptySeq
<1> HIDE DEF u
<1>2. At(sep, u, Len(t))
  <2> SUFFICES ASSUME NEW j \in 1..Len(sep) PROVE u[Len(t) + j] = sep[j]
    BY DEF At
  <2> DEFINE i == Len(t) + j
  <2>1. i \in 1..(Len(t) + Len(sep)) /\ ~(i <= Len(t)) /\ i - Len(t) = j
    BY <1>1
  <2> HIDE DEF i
  <2>2. u[i] = sep[j]
    BY <1>1, <2>1
  <2> QED BY <2>2 DEF i
<1>3. Len(t) \in 0..Len(u) /\ Len(t) + Len(sep) <= Len(u)
  BY <1>1
<1>4. Len(<<>>) = 0 /\ \A i \in 0..0 : ~(i + Len(sep) <= 0)
  BY <1>1
<1> QED BY <1>2, <1>3, <1>4 DEF Divides, Occurs, u

\* One more character read: what was divided so far still is.
LEMMA TakingExtends ==
  ASSUME NEW S, NEW ps \in Seq(Seq(S)), NEW t \in Seq(S), NEW c \in S,
         NEW sep \in Seq(S), Divided(ps, t, sep)
  PROVE  /\ Taking(ps, c, sep) \in Seq(Seq(S))
         /\ Divided(Taking(ps, c, sep), Append(t, c), sep)
<1> DEFINE L == Len(ps)
           last == ps[L]
           grown == Append(last, c)
           cut == SubSeq(grown, 1, Len(grown) - Len(sep))
<1>1. /\ L \in Nat \ {0} /\ L \in 1..L /\ DOMAIN ps = 1..L
      /\ ps # <<>> /\ Joined(ps, sep) = t
      /\ \A i \in 1..L : ~Divides(sep, ps[i])
      /\ L > 1 => Divides(sep, t)
  BY EmptySeq DEF Divided
<1>2. /\ last \in Seq(S) /\ Ending(ps, last) = ps
      /\ \A p \in Seq(S) :
           /\ Ending(ps, p) \in Seq(Seq(S)) /\ Ending(ps, p) # <<>>
           /\ Len(Ending(ps, p)) = L
           /\ \A i \in 1..L : Ending(ps, p)[i] = IF i = L THEN p ELSE ps[i]
  BY <1>1, LastPiece
<1>3. PICK h \in Seq(S) : BeginAs(h, ps, sep, S)
  BY <1>1, LastPieceJoined
<1>4. t = h \o last /\ h \in Seq(S)
  BY <1>1, <1>2, <1>3 DEF BeginAs
<1>5. ~Divides(sep, last) /\ grown \in Seq(S)
  BY <1>1, <1>2, AppendProperties
<1> DEFINE Result == Taking(ps, c, sep)
<1>6. Result = IF sep = <<>> /\ last # <<>> THEN Append(ps, <<c>>)
               ELSE IF sep # <<>> /\ Ends(sep, grown)
                 THEN Append(Ending(ps, cut), <<>>)
                 ELSE Ending(ps, grown)
  BY DEF Taking
<1> HIDE DEF Result, cut, last
<1>10. h \o grown = Append(t, c)
  <2>1. h \in Seq(S) /\ last \in Seq(S)
    BY <1>2, <1>4
  <2>2. h \o Append(last, c) = Append(h \o last, c)
    BY <2>1, ConcatAppend
  <2> QED BY <1>4, <2>2
<1> HIDE DEF grown
<1>7. CASE sep = <<>> /\ last # <<>>
  <2>1. Result = Append(ps, <<c>>) /\ <<c>> \in Seq(S)
    BY <1>6, <1>7
  <2>2. /\ Result \in Seq(Seq(S)) /\ Len(Result) = L + 1 /\ Result[L + 1] = <<c>>
        /\ \A i \in 1..L : Result[i] = ps[i]
    BY <2>1, AppendProperties
  <2>3. Joined(Result, sep) = Append(t, c)
    <3>1. \A p \in Seq(S) : Joined(Append(ps, p), sep) = t \o sep \o p
      <4>1. ps # <<>> /\ Joined(ps, sep) = t
        BY <1>1
      <4> QED BY <4>1, JoinedAppend
    <3>2. t \o sep = t
      BY <1>7, ConcatEmptySeq
    <3>3. Joined(Result, sep) = t \o <<c>>
      BY <2>1, <3>1, <3>2
    <3> QED BY <3>3, AppendIsConcat
  <2>4. \A i \in 1..(L + 1) : ~Divides(sep, Result[i])
    <3>1. ~Divides(sep, <<c>>)
      BY <1>7 DEF Divides
    <3>2. \A i \in 1..(L + 1) : i \in 1..L \/ i = L + 1
      BY <1>1
    <3> QED BY <1>1, <2>2, <3>1, <3>2
  <2>5. Divides(sep, Append(t, c))
    <3>1. Len(last) \in Nat \ {0} /\ Len(h) \in Nat
      BY <1>2, <1>7, EmptySeq
    <3>2. Len(t) = Len(h) + Len(last)
      BY <1>2, <1>4, ConcatProperties
    <3>3. Len(Append(t, c)) = Len(t) + 1
      BY AppendProperties
    <3>4. Len(Append(t, c)) > 1
      BY <3>1, <3>2, <3>3
    <3> QED BY <1>7, <3>4 DEF Divides
  <2>6. Result # <<>> /\ DOMAIN Result = 1..(L + 1)
    BY <1>1, <2>2, EmptySeq
  <2> QED BY <2>2, <2>3, <2>4, <2>5, <2>6 DEF Divided, Result
<1>8. CASE sep # <<>> /\ Ends(sep, grown)
  <2>1. Result = Append(Ending(ps, cut), <<>>)
    BY <1>6, <1>8
  <2>2. cut \in Seq(S) /\ cut \o sep = grown /\ ~Divides(sep, cut)
    <3>1. ~Occurs(sep, last)
      BY <1>5, <1>8 DEF Divides
    <3>2. cut \in Seq(S) /\ cut \o sep = grown /\ ~Occurs(sep, cut)
      BY <1>2, <1>8, <3>1, GrownPiece DEF cut, grown
    <3> QED BY <1>8, <3>2 DEF Divides
  <2> DEFINE qs == Ending(ps, cut)
  <2>3. /\ qs \in Seq(Seq(S)) /\ qs # <<>> /\ Len(qs) = L
        /\ \A i \in 1..L : qs[i] = IF i = L THEN cut ELSE ps[i]
        /\ Joined(qs, sep) = h \o cut
    BY <1>2, <1>3, <2>2 DEF BeginAs
  <2> HIDE DEF qs
  <2>4. /\ Result \in Seq(Seq(S)) /\ Len(Result) = L + 1 /\ Result[L + 1] = <<>>
        /\ \A i \in 1..L : Result[i] = qs[i]
    <3>1. <<>> \in Seq(S)
      OBVIOUS
    <3>2. \A p \in Seq(S) : /\ Append(qs, p) \in Seq(Seq(S))
                            /\ Len(Append(qs, p)) = L + 1
                            /\ Append(qs, p)[L + 1] = p
                            /\ \A i \in 1..L : Append(qs, p)[i] = qs[i]
      BY <2>3, AppendProperties
    <3> QED BY <2>1, <3>1, <3>2 DEF qs
  <2>5. Joined(Result, sep) = Append(t, c) /\ Append(t, c) = (h \o cut) \o sep
    <3>1. <<>> \in Seq(S) /\ h \o cut \in Seq(S) /\ (h \o cut) \o sep \in Seq(S)
      BY <1>3, <2>2, ConcatProperties
    <3> DEFINE u == (h \o cut) \o sep
    <3>2. \A p \in Seq(S) : Joined(Append(qs, p), sep) = u \o p
      <4>1. qs \in Seq(Seq(S)) /\ qs # <<>>
        BY <2>3
      <4>2. \A p \in Seq(S) : Joined(Append(qs, p), sep) = Joined(qs, sep) \o sep \o p
        BY <4>1, JoinedAppend
      <4> QED BY <2>3, <4>2
    <3> HIDE DEF u
    <3>3. Joined(Result, sep) = u
      <4>1. u \o <<>> = u
        BY <3>1, ConcatEmptySeq DEF u
      <4> QED BY <2>1, <3>1, <3>2, <4>1 DEF qs
    <3> USE DEF u
    <3>4. (h \o cut) \o sep = h \o grown
      <4>1. (h \o cut) \o sep = h \o (cut \o sep)
        <5>1. h \in Seq(S) /\ cut \in Seq(S)
          BY <1>4, <2>2
        <5> QED BY <5>1, ConcatAssociative
      <4> QED BY <2>2, <4>1
    <3> QED BY <1>10, <3>3, <3>4
  <2>6. \A i \in 1..(L + 1) : ~Divides(sep, Result[i])
    <3>1. ~Divides(sep, <<>>)
      BY <1>8, SeparatorOccurs
    <3>2. \A i \in 1..(L + 1) : i \in 1..L \/ i = L + 1
      BY <1>1
    <3> QED BY <1>1, <2>2, <2>3, <2>4, <3>1, <3>2
  <2>7. Divides(sep, Append(t, c))
    <3>1. h \o cut \in Seq(S)
      BY <2>2, ConcatProperties
    <3> QED BY <1>8, <2>5, <3>1, SeparatorOccurs
  <2>8. Result # <<>> /\ DOMAIN Result = 1..(L + 1)
    BY <1>1, <2>4, EmptySeq
  <2> QED BY <2>4, <2>5, <2>6, <2>7, <2>8 DEF Divided, Result
<1>9. CASE ~(sep = <<>> /\ last # <<>>) /\ ~(sep # <<>> /\ Ends(sep, grown))
  <2>1. Result = Ending(ps, grown)
    BY <1>6, <1>9
  <2>2. /\ Result \in Seq(Seq(S)) /\ Result # <<>> /\ Len(Result) = L
        /\ \A i \in 1..L : Result[i] = IF i = L THEN grown ELSE ps[i]
        /\ Joined(Result, sep) = h \o grown
    BY <1>2, <1>3, <1>5, <2>1 DEF BeginAs
  <2>4. ~Divides(sep, grown)
    <3>1. CASE sep = <<>>
      <4>1. last = <<>>
        BY <1>9, <3>1
      <4>2. Len(grown) = Len(last) + 1 /\ Len(last) = 0
        BY <1>2, <4>1, AppendProperties DEF grown
      <4> QED BY <3>1, <4>2 DEF Divides
    <3>2. CASE sep # <<>>
      <4>1. ~Occurs(sep, last) /\ ~Ends(sep, grown)
        BY <1>5, <1>9, <3>2 DEF Divides
      <4>2. ~Occurs(sep, grown)
        BY <1>2, <3>2, <4>1, GrownPiece DEF grown
      <4> QED BY <3>2, <4>2 DEF Divides
    <3> QED BY <3>1, <3>2
  <2>5. \A i \in 1..L : ~Divides(sep, Result[i])
    BY <1>1, <2>2, <2>4
  <2>6. L > 1 => Divides(sep, Append(t, c))
    BY <1>1, DividesGrown
  <2>7. DOMAIN Result = 1..L
    BY <2>2
  <2> QED BY <1>10, <2>2, <2>5, <2>6, <2>7 DEF Divided, Result
<1> QED BY <1>7, <1>8, <1>9

\* Splitting loses nothing, makes nothing up, and divides as long as it can.
LEMMA SplitCorrect ==
  ASSUME NEW S, NEW s \in Seq(S), NEW sep \in Seq(S)
  PROVE  /\ Joined(Split(s, sep), sep) = s
         /\ \A i \in DOMAIN Split(s, sep) : ~Divides(sep, Split(s, sep)[i])
         /\ Len(Split(s, sep)) > 1 <=> Divides(sep, s)
<1> DEFINE L == Len(s)
<1>1. L \in Nat /\ \A i \in 1..L : s[i] \in S
  BY ElementOfSeq
<1>2. PICK f : Dividing(f, s, sep) /\ Split(s, sep) = f[L]
  BY SplitDivides
<1>3. \A n \in 0..L :
        f[n] = IF n = 0 THEN << <<>> >> ELSE Taking(f[n - 1], s[n], sep)
  BY <1>2 DEF Dividing
<1> DEFINE T == {n \in 0..L : f[n] \in Seq(Seq(S)) /\ Divided(f[n], SubSeq(s, 1, n), sep)}
<1>4. 0 \in T
  <2>1. 0 \in 0..L /\ f[0] = << <<>> >>
    BY <1>1, <1>3
  <2>2. /\ f[0] \in Seq(Seq(S)) /\ f[0] # <<>> /\ Len(f[0]) = 1
        /\ DOMAIN f[0] = {1} /\ f[0][1] = <<>>
    BY <2>1
  <2>3. Joined(f[0], sep) = SubSeq(s, 1, 0)
    <3>1. <<>> \in Seq(S) /\ 0 < 1 /\ 0 \in Int /\ 1 \in Int
      OBVIOUS
    <3>2. Joined(<< <<>> >>, sep) = <<>>
      BY <3>1, JoinedOne
    <3>3. SubSeq(s, 1, 0) = <<>>
      BY <3>1, SubSeqEmpty
    <3> QED BY <2>1, <3>2, <3>3
  <2>4. ~Divides(sep, <<>>)
    <3>1. CASE sep = <<>>
      BY <3>1 DEF Divides
    <3>2. CASE sep # <<>>
      BY <3>2, SeparatorOccurs
    <3> QED BY <3>1, <3>2
  <2>5. Divided(f[0], SubSeq(s, 1, 0), sep)
    BY <2>2, <2>3, <2>4 DEF Divided
  <2> QED BY <2>1, <2>2, <2>5
<1>5. ASSUME NEW n \in 0..L, n < L, n \in T
      PROVE  n + 1 \in T
  <2>1. /\ n \in Nat /\ n + 1 \in 0..L /\ n + 1 \in 1..L /\ n + 1 # 0
        /\ (n + 1) - 1 = n /\ s[n + 1] \in S
    BY <1>1, <1>5
  <2>2. f[n + 1] = Taking(f[n], s[n + 1], sep)
    BY <1>3, <2>1
  <2>3. SubSeq(s, 1, n) \in Seq(S)
    BY <1>1, <2>1, SubSeqProperties
  <2>4. SubSeq(s, 1, n + 1) = Append(SubSeq(s, 1, n), s[n + 1])
    <3>1. SubSeq(s, 1, n + 1) = SubSeq(s, 1, n) \o <<s[n + 1]>>
      BY <2>1, SubSeqRecursiveSecond
    <3> QED BY <2>1, <2>3, <3>1, AppendIsConcat
  <2>5. /\ f[n + 1] \in Seq(Seq(S))
        /\ Divided(f[n + 1], SubSeq(s, 1, n + 1), sep)
    BY <1>5, <2>1, <2>2, <2>3, <2>4, TakingExtends
  <2> QED BY <2>1, <2>5
<1>6. f[L] \in Seq(Seq(S)) /\ Divided(f[L], s, sep)
  <2>1. L \in T
    <3> HIDE DEF T
    <3>1. \A n \in 0..L : n < L /\ n \in T => n + 1 \in T
      BY <1>5
    <3>2. \A n \in 0..L : n \in T
      BY <1>1, <1>4, <3>1, Induction
    <3> QED BY <1>1, <3>2
  <2>2. SubSeq(s, 1, L) = s
    BY SubSeqFull
  <2> QED BY <2>1, <2>2
\* A single piece is the string, and cannot be divided.
<1>7. ASSUME Divides(sep, s), ~(Len(f[L]) > 1)
      PROVE  FALSE
  <2>1. Len(f[L]) = 1 /\ 1 \in DOMAIN f[L]
    <3> DEFINE fL == f[L]
    <3>1. fL \in Seq(Seq(S)) /\ fL # <<>> /\ ~(Len(fL) > 1)
      BY <1>6, <1>7 DEF Divided
    <3> HIDE DEF fL
    <3>2. Len(fL) \in Nat /\ Len(fL) # 0 /\ DOMAIN fL = 1..Len(fL)
      BY <3>1, EmptySeq
    <3>3. Len(fL) = 1 /\ 1 \in DOMAIN fL
      BY <3>1, <3>2
    <3> QED BY <3>3 DEF fL
  <2>2. f[L][1] \in Seq(S)
    BY <1>6, <2>1, ElementOfSeq
  <2>3. f[L] = <<f[L][1]>>
    <3>1. <<f[L][1]>> \in Seq(Seq(S)) /\ Len(<<f[L][1]>>) = 1
      BY <2>2
    <3> QED BY <1>6, <2>1, <3>1, SeqEqual
  <2>4. Joined(<<f[L][1]>>, sep) = f[L][1]
    BY <2>2, JoinedOne
  <2>5. s = f[L][1]
    BY <1>6, <2>3, <2>4 DEF Divided
  <2> QED BY <1>6, <1>7, <2>1, <2>5 DEF Divided
<1> QED BY <1>2, <1>6, <1>7 DEF Divided

\* The loop of the grants and exchanges over their separators finds the first one
\* that occurs.
LEMMA ScopeListDivides ==
  ASSUME NEW S, NEW s \in Seq(S), NEW seps \in Seq(Seq(S))
  PROVE  LET found == {i \in DOMAIN seps : Divides(seps[i], s)}
         IN IF found = {} THEN ScopeList(s, seps) = <<s>>
            ELSE \E i \in found : /\ \A j \in found : i <= j
                                  /\ ScopeList(s, seps) = Split(s, seps[i])
<1> DEFINE found == {i \in DOMAIN seps : Divides(seps[i], s)}
           splitting == {i \in DOMAIN seps : Len(Split(s, seps[i])) > 1}
<1>1. \A i \in DOMAIN seps : i \in Nat /\ seps[i] \in Seq(S)
  BY ElementOfSeq
<1>2. splitting = found
  BY <1>1, SplitCorrect
<1>3. ScopeList(s, seps) = IF splitting = {} THEN <<s>>
                           ELSE Split(s, seps[Numbers!Min(splitting)])
  BY DEF ScopeList
<1>4. found \in SUBSET Nat
  BY <1>1
<1> HIDE DEF found, splitting
<1>5. CASE found # {}
  <2>1. \E i \in found : \A j \in found : i <= j
    BY <1>4, <1>5, LeastNumber
  <2>2. /\ Numbers!Min(found) \in found
        /\ \A j \in found : Numbers!Min(found) <= j
    BY <2>1 DEF Numbers!Min
  <2> QED BY <1>2, <1>3, <1>5, <2>2 DEF found
<1> QED BY <1>2, <1>3, <1>5 DEF found

\* Whatever the scope and the strings listed as separators, in any number: the
\* scope is kept whole, or divided wherever the one with the highest priority
\* among those that occur allows it, and nothing of it is lost or made up
\* (code.js, token.js, the exchanges).
THEOREM ScopesDivided == Spec => []ScopeDividedAtOneSeparator
<1>1. ParametersTyped => ScopeDividedAtOneSeparator
  <2> SUFFICES ASSUME ParametersTyped PROVE ScopeDividedAtOneSeparator
    OBVIOUS
  <2> DEFINE found == {i \in DOMAIN separators : Divides(separators[i], scope)}
             pieces == ScopeList(scope, separators)
  <2>1. scope \in Seq(Chars) /\ separators \in Seq(Seq(Chars))
    BY DEF ParametersTyped
  <2>2. IF found = {} THEN pieces = <<scope>>
        ELSE \E i \in found : /\ \A j \in found : i <= j
                              /\ pieces = Split(scope, separators[i])
    BY <2>1, ScopeListDivides
  <2>3. \A i \in found :
          LET split == Split(scope, separators[i]) IN
          /\ Joined(split, separators[i]) = scope
          /\ \A p \in DOMAIN split : ~Divides(separators[i], split[p])
    <3>1. \A i \in found : separators[i] \in Seq(Chars)
      BY <2>1, ElementOfSeq
    <3> QED BY <2>1, <3>1, SplitCorrect
  <2>4. IF found = {} THEN pieces = <<scope>>
        ELSE \E i \in found :
               /\ \A j \in found : i <= j
               /\ Joined(pieces, separators[i]) = scope
               /\ \A p \in DOMAIN pieces : ~Divides(separators[i], pieces[p])
    <3> HIDE DEF found, pieces
    <3> QED BY <2>2, <2>3
  <2> QED BY <2>4 DEF ScopeDividedAtOneSeparator
<1> QED BY <1>1, ParametersInvariant, PTL
=============================================================================
