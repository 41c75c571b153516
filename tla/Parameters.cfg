\* All response types of up to three words under every mode, and all scopes of
\* up to five characters with every list of up to two separators of up to two.
SPECIFICATION Spec
CONSTANTS
  MaxWords = 3
  CodeModes = {"query", "form_post"}
  TokenModes = {"fragment", "form_post"}
  IndirectModes = {"query", "fragment"}
  FragmentTypes = {"token", "other"}
  Chars = {a, space, comma}
  MaxLength = 5
  MaxSeparators = 2
  MaxSeparator = 2
\* The fields are full in the end.
CHECK_DEADLOCK FALSE
INVARIANTS
  EqualToSameWords
  ErrorsEncodedAsGrants
  ScopeDividedAtOneSeparator
