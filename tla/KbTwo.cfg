SPECIFICATION Spec
CONSTANTS
  Users = {u1}
  Orgs = {g1}
  Kbs = {k1, k2}
  Docs = {d1, d2, d3}
  Slots = {s1, s2}
  None = None
  Sources = {x1, x2}
  Sizes = {1}
  Most = 1
  Quota = 1
  Reliable = FALSE
  Quiet = TRUE
SYMMETRY Symmetric
CHECK_DEADLOCK FALSE
INVARIANTS TypeOK ReportedHasAdmin OneDocPerContent ChunksHaveRow KbEmptied QuotaSlack
