----------------------------- MODULE ScopeLists -----------------------------
(***************************************************************************)
(* How the grants and exchanges divide a scope (lib/grant/code.js and      *)
(* token.js; the loop is the same in lib/exchange/password.js,             *)
(* refreshToken.js and clientCredentials.js).  What matters is the         *)
(* conversion, so here scopes and separators are sequences of characters.  *)
(***************************************************************************)
EXTENDS Sequences, Naturals
Numbers == INSTANCE FiniteSetsExt

\* t is in s, from the (i+1)st character on.
At(t, s, i) == \A j \in 1..Len(t) : s[i + j] = t[j]

Ends(t, s) == Len(t) <= Len(s) /\ At(t, s, Len(s) - Len(t))

Occurs(t, s) == \E i \in 0..Len(s) : i + Len(t) <= Len(s) /\ At(t, s, i)

\* There is a place to divide the string at.  The empty separator is between
\* any two characters.
Divides(separator, s) ==
  IF separator = <<>> THEN Len(s) > 1 ELSE Occurs(separator, s)
-----------------------------------------------------------------------------
\* The last piece becomes p.
Ending(pieces, p) == [pieces EXCEPT ![Len(pieces)] = p]

\* The pieces after one more character, which may complete a separator: that
\* ends a piece and starts a new one.
Taking(pieces, c, separator) ==
  LET last == pieces[Len(pieces)]
      grown == Append(last, c)
  IN IF separator = <<>> /\ last # <<>> THEN Append(pieces, <<c>>)
     ELSE IF separator # <<>> /\ Ends(separator, grown)
       THEN Append(Ending(pieces, SubSeq(grown, 1, Len(grown) - Len(separator))), <<>>)
       ELSE Ending(pieces, grown)

\* String.prototype.split (external) of a string that is not empty: the pieces
\* between the separators, empty ones included, separators taken from the left.
Split(s, separator) ==
  LET pieces[n \in 0..Len(s)] ==
        IF n = 0 THEN << <<>> >> ELSE Taking(pieces[n - 1], s[n], separator)
  IN pieces[Len(s)]

\* Mutant of ScopeList: the last separator that occurs takes precedence.
ScopeListLast(s, separators) ==
  LET splitting == {i \in DOMAIN separators : Len(Split(s, separators[i])) > 1}
  IN IF splitting = {} THEN <<s>> ELSE Split(s, separators[Numbers!Max(splitting)])

\* The scope is divided at the first of the separators that occurs in it.
ScopeList(s, separators) ==
  LET splitting == {i \in DOMAIN separators : Len(Split(s, separators[i])) > 1}
  IN IF splitting = {} THEN <<s>> ELSE Split(s, separators[Numbers!Min(splitting)])
-----------------------------------------------------------------------------
\* The pieces with a separator between them.
Joined(pieces, separator) ==
  LET upTo[n \in 1..Len(pieces)] ==
        IF n = 1 THEN pieces[1] ELSE upTo[n - 1] \o separator \o pieces[n]
  IN upTo[Len(pieces)]
=============================================================================
