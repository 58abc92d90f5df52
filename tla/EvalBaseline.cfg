SPECIFICATION EvalSpec
CONSTANTS
  RunIds = {1, 2, 3}
  Kbs = {k1, k2}
  Datasets = {d1}
  Scores = {1}
  Slots = {s1, s2}
  NaN = NaN
  None = None
SYMMETRY Symmetric
CHECK_DEADLOCK FALSE
INVARIANTS ComparedWithDrift NoBaselineMissed
