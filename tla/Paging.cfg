SPECIFICATION Spec
CONSTANTS
  Ids = {1, 2, 3, 4}
  NoCursor = NoCursor
  Descending = TRUE
  MaxLimit = 2
  DefaultLimit = 2
  Limits <- ClientLimits
INVARIANTS PagesInOrder NothingMissed
