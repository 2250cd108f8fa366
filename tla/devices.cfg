SPECIFICATION FairSpec
CONSTANTS
  Servers = {s1, s2}
  Clients = {c1, c2}
  Users = {u1}
  DeviceIds = {d1}
  HookIds = {h1}
  HookTargets = {d1}
  Codes = {k1}
  Public = FALSE
  Keys = {"right", "wrong"}
  PrivateToken = "right"
  MaxCodes = 1
  MaxRequests = 4
  MaxTime = 1
  MaxAge = 0
INVARIANTS
  CodesUsedOnce
  HookDeviceOwned
PROPERTIES
  LastSeenGrows
  RemovedLockedOut
CHECK_DEADLOCK FALSE
