---------------------- MODULE MCAuthorizationEndpoint ----------------------
(* Instances of AuthorizationEndpoint for TLC. *)
EXTENDS EndpointRefinement, TLC

\* The code grant with its default mode, and with one its table lacks but the
\* indirect error handler has.
CodeRequest == [type |-> {"code"}, mode |-> "unset"]
CodeInFragment == [type |-> {"code"}, mode |-> "fragment"]
OtherRequest == [type |-> {"code", "other"}, mode |-> "unset"]

OneRequest == {CodeRequest}
TwoRequests == {CodeRequest, CodeInFragment}

Symmetry == Permutations(Requests) \cup Permutations(URIs)
=============================================================================
