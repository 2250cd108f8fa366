SPECIFICATION FairSpec
CONSTANTS
  Servers = {s1, s2}
  Private = {s2}
  Callers = {c1}
  Tokens = {t1}
  Types <- TwoTypes
  maxRetries = 2
  MaxEvents = 3
  CacheMayFail = TRUE
INVARIANTS
  Accounted
  RetriesCountAttempts
  NewerNeverUndone
PROPERTIES
  EventuallyResolved
