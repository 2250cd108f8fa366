SPECIFICATION Spec
CONSTANTS
  Servers = {s1}
  Clients = {c1, c2}
  Users = {u1}
  ScopeSets <- AllScopes
  MaxPairs = 3
  Expiring = {1}
  MaxPassword = 2
  MaxTotal = 3
SYMMETRY Interchangeable
INVARIANTS
  OneSuccessor
  ChainsEnd
  OldPasswordEvicted
PROPERTIES
  RevokedStaysOut
CHECK_DEADLOCK FALSE
