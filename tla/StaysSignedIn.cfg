SPECIFICATION Spec
CONSTANTS
  Calls = {c1, c2}
  MaxTokens = 2
  Quiet = TRUE
CHECK_DEADLOCK FALSE
PROPERTY FailedRefreshSignsOut
