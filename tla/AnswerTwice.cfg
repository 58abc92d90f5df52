SPECIFICATION Spec
CONSTANTS
  Requests = {q1, q2}
  NoRequest = NoRequest
  Owners = {o1}
  Sessions = {s1, s2}
  NoSession = NoSession
  PageOwner = o1
  MaxPieces = 2
  MaxAsks = 1
SYMMETRY Symmetric
CHECK_DEADLOCK FALSE
INVARIANT ShownIsAnswer
