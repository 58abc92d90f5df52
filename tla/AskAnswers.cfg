SPECIFICATION Spec
CONSTANTS
  Requests = {q1, q2}
  NoRequest = NoRequest
  Owners = {o1, o2}
  Sessions = {s1, s2}
  NoSession = NoSession
  PageOwner = o1
  MaxPieces = 2
  MaxAsks = 2
CHECK_DEADLOCK FALSE
INVARIANTS OnlyOwnSessions ReportedIsStored PairsOnly ShowsStoredAnswer
PROPERTIES RunEnds ImplementsTranscript
