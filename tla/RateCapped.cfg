SPECIFICATION Spec
CONSTANTS
  Users = {u1, u2}
  Calls = {c1, c2, c3}
  PerMinute = 0
  EvalPerMinute = 2
  LastMinute = 1
  LockIsQuick = TRUE
SYMMETRY Symmetry
INVARIANTS CapPerMinute RefusalJustified
