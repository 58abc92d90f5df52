SPECIFICATION TableSpec
CONSTANTS
  Docs = {d1}
  Reopens = TRUE
  StatusFaults = FALSE
SYMMETRY Symmetric
INVARIANT Watched
