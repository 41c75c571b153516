-------------------------- MODULE MCPluggableStore --------------------------
(* Instances of the endpoint over a pluggable store for TLC. *)
EXTENDS PluggableStore, TLC

\* Requests are alike.
Symmetry == Permutations(Requests)
=============================================================================
