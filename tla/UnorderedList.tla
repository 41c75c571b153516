--------------------------- MODULE UnorderedList ---------------------------
(***************************************************************************)
(* The lists response types are matched with (lib/unorderedlist.js): the   *)
(* words of a string separated by spaces, compared without their order.    *)
(***************************************************************************)
EXTENDS Sequences, Naturals

Contains(a, val) == \E i \in DOMAIN a : a[i] = val

\* Mutant of EqualTo: the lengths are not compared.
IncludedIn(a, b) == \A i \in DOMAIN a : Contains(b, a[i])

\* Equally long, and every item of the list is in the other one.
EqualTo(a, b) == Len(a) = Len(b) /\ \A i \in DOMAIN a : Contains(b, a[i])
-----------------------------------------------------------------------------
Words(a) == {a[i] : i \in DOMAIN a}
Distinct(a) == \A i, j \in DOMAIN a : a[i] = a[j] => i = j
=============================================================================
