--------------------------- MODULE MCTokenEndpoint ---------------------------
(* Instances of TokenEndpoint for TLC. *)
EXTENDS TokenEndpoint

CONSTANTS c1, c2, u1, u2, k1, r1, r2

\* Complete requests of every type and incomplete ones, with a code of another
\* client, another redirect URI or none.
Request(type, fields) ==
  [body |-> TRUE, type |-> type, client |-> c1, fields |-> fields,
   code |-> None, redirectURI |-> None, scope |-> "string"]
MCTokenRequests ==
  {[Request("authorization_code", {}) EXCEPT !.client = c, !.code = k,
                                             !.redirectURI = u] :
     c \in {c1, c2}, k \in {k1}, u \in {u1, u2, None}}
  \cup {Request(t, f) : t \in GrantTypes \cup {"other"},
                        f \in SUBSET {"username", "password", "refresh_token"}}
  \cup {[Request("password", {"username", "password"}) EXCEPT !.scope = "list"],
        [Request("refresh_token", {"refresh_token"}) EXCEPT !.scope = "list"],
        [Request("client_credentials", {}) EXCEPT !.scope = "list"],
        [Request("other", {}) EXCEPT !.body = FALSE]}

MCRegistrations == {GrantTypes, {"authorization_code"}, GrantTypes \ {"password"}}

\* A plain error, a wrapped one with a status of its own, and OAuth errors of
\* either class.
MCAppErrors == {PlainError, [code |-> None, status |-> 302],
                TokenError("invalid_client"),
                AuthorizationError("temporarily_unavailable")}
==============================================================================
