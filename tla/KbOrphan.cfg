SPECIFICATION Spec
CONSTANTS
  Users = {u1}
  Orgs = {g1}
  Kbs = {k1, k2}
  Docs = {d1}
  Slots = {s1}
  None = None
  Sources = {x1, x2}
  Sizes = {1}
  Most = 1
  Quota = 2
  Reliable = FALSE
  Quiet = TRUE
CHECK_DEADLOCK FALSE
PROPERTY RetryRecovers
