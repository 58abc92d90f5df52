SPECIFICATION Spec
CONSTANTS
  Docs = {d1}
  Keys = {text, pdf, url}
  TextKeys = {text}
  UrlKeys = {url}
  NoKey = NoKey
  Workers = {w1, w2}
  NoWorker = NoWorker
  NoDoc = NoDoc
  Requests = {q1, q2}
  MaxAttempts = 2
  MaxFaults = 2
  LeaseCoversWork = TRUE
  ReadFaults = FALSE
SYMMETRY Symmetry
INVARIANTS
  HolderOwnsJob RawKeptWhileNeeded DoneMeansIndexed
  ReadyMeansDone AttemptsBounded
PROPERTIES DoneIsFinal ImplementsLifecycle
