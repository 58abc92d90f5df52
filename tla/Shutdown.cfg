SPECIFICATION Spec
CONSTANTS
  Workers = {w1, w2}
  Jobs = {j1, j2, j3}
  Requests = {r1}
  MaxFaults = 1
  SecondSignal = TRUE
INVARIANTS PoolOutlivesUsers EachAbandonsOne
PROPERTY SignalEndsProcess
