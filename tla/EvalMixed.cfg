SPECIFICATION EvalSpec
CONSTANTS
  RunIds = {1, 2}
  Kbs = {k1}
  Datasets = {d1, d2}
  Scores = {1}
  Slots = {s1}
  NaN = NaN
  None = None
SYMMETRY Symmetric
CHECK_DEADLOCK FALSE
INVARIANT BaselineOfDataset
