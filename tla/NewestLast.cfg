SPECIFICATION Spec
CONSTANTS
  Ids = {1, 2, 3}
  NoCursor = NoCursor
  Descending = TRUE
  MaxLimit = 2
  DefaultLimit = 1
  Limits <- ClientLimits
INVARIANT NewestFirst
