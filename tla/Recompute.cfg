SPECIFICATION Spec
CONSTANTS
  Docs = {d1, d2, d3}
  NoDoc = NoDoc
  Ops = {o1, o2, o3}
SYMMETRY Symmetric
CHECK_DEADLOCK FALSE
INVARIANTS FreshWhenAlone ReportsFollow QuietDeleteForgets
