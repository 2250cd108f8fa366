SPECIFICATION FairSpec
CONSTANTS
  Clients = {c1, c2}
  Rules = {"webhooks.retry_count", "webhooks.signing_key"}
  Secrets = {"webhooks.signing_key"}
  Documents <- Patches
  MaxRequests = 2
  DeviceIds = {d1, d2}
  Servers = {s1, s2}
  Home = s1
  PushDevices = {d1}
  Receivers = {d2}
  None = None
  MaxPending = 2
  MaxPendingAge = 1
  MaxFailed = 2
  MaxFailedAge = 1
  MaxQueue = 2
INVARIANTS
  NoPatchLost
  ToldOfChanges
PROPERTIES
  RefreshServed
CHECK_DEADLOCK FALSE
