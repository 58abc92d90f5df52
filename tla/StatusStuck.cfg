SPECIFICATION FairSpec
CONSTANTS
  Docs = {d1}
  Keys = {pdf}
  TextKeys = {}
  UrlKeys = {}
  NoKey = NoKey
  Workers = {w1, w2}
  NoWorker = NoWorker
  NoDoc = NoDoc
  Requests = {q1}
  MaxAttempts = 2
  MaxFaults = 0
  LeaseCoversWork = TRUE
  ReadFaults = FALSE
PROPERTY StatusSettles
