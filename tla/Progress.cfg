SPECIFICATION TableSpec
CONSTANTS
  Docs = {d1, d2}
  Reopens = FALSE
  StatusFaults = FALSE
INVARIANT Watched
PROPERTY TableCatchesUp
