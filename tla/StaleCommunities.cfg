SPECIFICATION Spec
CONSTANTS
  Docs = {d1, d2}
  NoDoc = NoDoc
  Ops = {o1, o2}
SYMMETRY Symmetric
CHECK_DEADLOCK FALSE
INVARIANT RestIsFresh
