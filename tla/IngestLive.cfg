SPECIFICATION FairSpec
CONSTANTS
  Docs = {d1}
  Keys = {text, pdf, url}
  TextKeys = {text}
  UrlKeys = {url}
  NoKey = NoKey
  Workers = {w1, w2}
  NoWorker = NoWorker
  NoDoc = NoDoc
  Requests = {q1}
  MaxAttempts = 2
  MaxFaults = 1
  LeaseCoversWork = FALSE
  ReadFaults = TRUE
INVARIANT NoStrandedJob
PROPERTIES LockTakenOnlyWhenLapsed JobSettles
