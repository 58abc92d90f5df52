SPECIFICATION Spec
CONSTANTS
  Calls = {c1, c2}
  MaxTokens = 2
  Quiet = FALSE
CHECK_DEADLOCK FALSE
INVARIANT SignedOutHasNoToken
