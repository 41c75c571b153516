------------------------- MODULE RequestParameters -------------------------
(***************************************************************************)
(* What the server reads out of the parameters of an authorization         *)
(* request: its response type, compared with the type a grant was          *)
(* registered for, and its scope.  They are read independently, so one of  *)
(* the two fields grows here, word by word or character by character.      *)
(***************************************************************************)
EXTENDS UnorderedList, ResponseModes, ScopeLists
Lists == INSTANCE SequencesExt

CONSTANTS MaxWords,       \* bound on the length of a response type
          Chars,          \* the characters of scopes and separators
          MaxLength,      \* bound on the length of a scope
          MaxSeparators,  \* bounds on options.scopeSeparator: how many there
          MaxSeparator    \* are, and how long each is

ASSUME ParametersAssumption ==
  {MaxWords, MaxLength, MaxSeparators, MaxSeparator} \subseteq Nat

VARIABLES field,           \* the field looked at
          layer,           \* the type a grant was registered for
          request, mode,   \* the response type and mode of a request
          scope,           \* the scope of a request, <<>> while it has none
          separators       \* options.scopeSeparator

Init ==
  /\ layer = <<>> /\ request = <<>> /\ scope = <<>>
  /\ \/ /\ field = "response_type"
        /\ mode \in Modes \cup {"unset"}
        /\ separators = <<>>
     \/ /\ field = "scope"
        /\ mode = "unset"
        /\ separators \in
             Lists!BoundedSeq(Lists!BoundedSeq(Chars, MaxSeparator), MaxSeparators)

fixed == <<field, mode, separators>>

\* new UnorderedList splits the string a grant or a request names.
NameLayer == /\ field = "response_type" /\ Len(layer) < MaxWords
             /\ \E w \in TypeWords : layer' = Append(layer, w)
             /\ UNCHANGED <<fixed, request, scope>>

NameRequest == /\ field = "response_type" /\ Len(request) < MaxWords
               /\ \E w \in TypeWords : request' = Append(request, w)
               /\ UNCHANGED <<fixed, layer, scope>>

GrowScope == /\ field = "scope" /\ Len(scope) < MaxLength
             /\ \E c \in Chars : scope' = Append(scope, c)
             /\ UNCHANGED <<fixed, layer, request>>

Next == NameLayer \/ NameRequest \/ GrowScope

Spec == Init /\ [][Next]_<<fixed, layer, request, scope>>
-----------------------------------------------------------------------------
\* equalTo compares lengths and one inclusion; for a layer that repeats no word
\* that is enough to find the requests that name the same words once each.
EqualToSameWords ==
  Distinct(layer) =>
    (EqualTo(layer, request) <=> Words(layer) = Words(request) /\ Distinct(request))

\* The error handler chooses the encoding from the words of the response type,
\* each grant has a default of its own: where a grant answers a request, both
\* agree, so a client finds errors where it would find the grant.  The
\* application's list of types for the fragment has to name those of the grants.
ErrorsEncodedAsGrants ==
  LET q == [type |-> Words(request), mode |-> mode]
  IN "token" \in FragmentTypes /\ "code" \notin FragmentTypes /\ GrantSupports(q)
       => IndirectMode(q) = GrantMode(q)

\* Nothing of a scope is lost or made up: it is kept whole when no separator
\* occurs in it; otherwise it is divided at the separator with the highest
\* priority among those that occur, until there is no more to divide at.
ScopeDividedAtOneSeparator ==
  scope # <<>> =>
    LET pieces == ScopeList(scope, separators)
        found == {i \in DOMAIN separators : Divides(separators[i], scope)}
    IN IF found = {} THEN pieces = <<scope>>
       ELSE \E i \in found :
              /\ \A j \in found : i <= j
              /\ Joined(pieces, separators[i]) = scope
              /\ \A p \in DOMAIN pieces : ~Divides(separators[i], pieces[p])
=============================================================================
