SPECIFICATION Spec
CONSTANTS
  Calls = {c1, c2, c3}
  MaxTokens = 3
  Quiet = TRUE
CHECK_DEADLOCK FALSE
INVARIANT RepeatIsFresh
PROPERTIES TokenNeverOlder CallsEnd
