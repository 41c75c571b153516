--------------------------- MODULE ResponseModes ---------------------------
(***************************************************************************)
(* How the two built-in grants and the indirect error handler choose the   *)
(* encoding of a redirect (lib/grant/code.js, lib/grant/token.js,          *)
(* lib/middleware/errorHandler.js).                                        *)
(*                                                                         *)
(* An authorization request is abstracted to the set of words of its       *)
(* response type (lists are compared without regard to order, see          *)
(* lib/unorderedlist.js) and to its response mode, "unset" standing for a  *)
(* request that names none.                                                *)
(***************************************************************************)
CONSTANTS CodeModes,      \* keys of the mode table of the code grant
          TokenModes,     \* keys of the mode table of the token grant
          IndirectModes,  \* keys of the mode table of the indirect error handler
          FragmentTypes   \* response types whose errors it puts into the fragment

\* Each factory adds its default encoder to the table the application gives.
ASSUME ModesAssumption ==
  /\ "query" \in CodeModes
  /\ "fragment" \in TokenModes
  /\ {"query", "fragment"} \subseteq IndirectModes

TypeWords == {"code", "token", "other"}
Modes == {"query", "fragment", "form_post"}

AuthzRequest == [type: SUBSET TypeWords, mode: Modes \cup {"unset"}]

\* The mode the grant that answers response type q.type uses.
GrantMode(q) ==
  IF q.mode # "unset" THEN q.mode
  ELSE IF q.type = {"token"} THEN "fragment" ELSE "query"

\* Some grant answers this response type and has an encoder for its mode.
GrantSupports(q) == \/ q.type = {"code"}  /\ GrantMode(q) \in CodeModes
                    \/ q.type = {"token"} /\ GrantMode(q) \in TokenModes

\* Mutant of IndirectMode: the branches are swapped.
IndirectModeSwapped(q) ==
  IF q.mode # "unset" THEN q.mode
  ELSE IF q.type = {"code"} THEN "fragment" ELSE "query"

\* The mode the indirect error handler uses, whichever grant the type names:
\* one word of it that calls for the fragment is enough.
IndirectMode(q) ==
  IF q.mode # "unset" THEN q.mode
  ELSE IF q.type \cap FragmentTypes # {} THEN "fragment" ELSE "query"

IndirectSupports(q) == IndirectMode(q) \in IndirectModes
=============================================================================
