SPECIFICATION FairSpec
CONSTANTS
  ExtIDs = {m1}
  Devices = {d1, d2}
  Removable = {d1}
  Phones = {plus, bare, other}
  BarePhones = {bare}
  unlisted = other
  Reports <- PartReport
  Encryption = {TRUE, FALSE}
  Calls = {c1}
  CacheMayFail = FALSE
  CacheSurvives = FALSE
INVARIANTS
  CacheAgreesAtRest
  PullableIntact
PROPERTIES
  EventuallyHashed
