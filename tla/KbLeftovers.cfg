SPECIFICATION Spec
CONSTANTS
  Users = {u1}
  Orgs = {g1}
  Kbs = {k1}
  Docs = {d1}
  Slots = {s1, s2}
  None = None
  Sources = {x1, x2}
  Sizes = {1}
  Most = 1
  Quota = 2
  Reliable = TRUE
  Quiet = FALSE
SYMMETRY Symmetric
CHECK_DEADLOCK FALSE
INVARIANT DeletedLeavesNoChunks
