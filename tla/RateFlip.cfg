SPECIFICATION Spec
CONSTANTS
  Users = {u1}
  Calls = {c1, c2, c3}
  PerMinute = 1
  EvalPerMinute = 1
  LastMinute = 1
  LockIsQuick = FALSE
INVARIANT CapPerMinute
