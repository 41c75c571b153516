------------------------------- MODULE Errors -------------------------------
(***************************************************************************)
(* The errors of lib/errors and how the direct error handler answers them  *)
(* (lib/middleware/errorHandler.js).  Messages and URIs are left out: an   *)
(* error is its code and its status, None where the object has none.       *)
(***************************************************************************)
EXTENDS Naturals

CONSTANT None

\* What an `err' may hold that is passed to next().
Error(codes, statuses) ==
  [code: codes \cup {None}, status: statuses \cup {None}]

OAuth2Error(code, status) ==
  [code |-> IF code = None THEN "server_error" ELSE code,
   status |-> IF status = None THEN 500 ELSE status]

\* The status a code stands for, unless the caller gives one.
StatusOf(table, code) == IF code \in DOMAIN table THEN table[code] ELSE None

TokenError(code) ==
  OAuth2Error(code,
    StatusOf([invalid_request |-> 400, invalid_client |-> 401,
              invalid_grant |-> 403, unauthorized_client |-> 403,
              unsupported_grant_type |-> 501, invalid_scope |-> 400], code))

AuthorizationError(code) ==
  OAuth2Error(code,
    StatusOf([invalid_request |-> 400, unauthorized_client |-> 403,
              access_denied |-> 403, unsupported_response_type |-> 501,
              invalid_scope |-> 400, temporarily_unavailable |-> 503], code))

\* An Error of the language, thrown or made by hand.
PlainError == [code |-> None, status |-> None]

\* Mutant of DirectAnswer: the status of the error is taken as it is.
DirectAnswerAsGiven(err, statusCode) ==
  [error |-> IF err.code = None THEN "server_error" ELSE err.code,
   status |-> IF err.status = None THEN statusCode ELSE err.status]

\* errorHandler() in its direct mode, given what res.statusCode is by then: an
\* answer to an error is never a success.
DirectAnswer(err, statusCode) ==
  LET status == IF err.status = None THEN statusCode ELSE err.status
  IN [error |-> IF err.code = None THEN "server_error" ELSE err.code,
      status |-> IF status < 400 THEN 500 ELSE status]
=============================================================================
