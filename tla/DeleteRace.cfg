SPECIFICATION Spec
CONSTANTS
  Docs = {d1}
  Keys = {text}
  TextKeys = {text}
  UrlKeys = {}
  NoKey = NoKey
  Workers = {w1}
  NoWorker = NoWorker
  NoDoc = NoDoc
  Requests = {q1}
  MaxAttempts = 2
  MaxFaults = 0
  LeaseCoversWork = TRUE
  ReadFaults = FALSE
INVARIANT DeleteLeavesNothing
