SPECIFICATION Spec
CONSTANTS
  Docs = {d1}
  Keys = {text}
  TextKeys = {text}
  UrlKeys = {}
  NoKey = NoKey
  Workers = {w1, w2}
  NoWorker = NoWorker
  NoDoc = NoDoc
  Requests = {q1}
  MaxAttempts = 2
  MaxFaults = 1
  LeaseCoversWork = FALSE
  ReadFaults = FALSE
INVARIANT DoneMeansIndexed
