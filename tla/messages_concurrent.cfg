SPECIFICATION Spec
CONSTANTS
  ExtIDs = {m1}
  Devices = {d1}
  Removable = {}
  Phones = {plus}
  BarePhones = {}
  unlisted = plus
  Reports <- TwoReports
  Encryption = {TRUE, FALSE}
  Calls = {c1, c2}
  CacheMayFail = TRUE
  CacheSurvives = TRUE
INVARIANTS
  PullableIntact
  CacheNeverAhead
  HashRequestNeverLost
PROPERTIES
  ImplementsLifecycle
SYMMETRY Alike
