SPECIFICATION Spec
CONSTANTS
  Workers = {w1}
  Jobs = {j1}
  Requests = {r1}
  MaxFaults = 0
  SecondSignal = FALSE
SYMMETRY Symmetric
INVARIANT RequestsDrained
