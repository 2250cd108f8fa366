SPECIFICATION FairSpec
CONSTANTS
  Calls = {c1, c2, c3}
  Connects = {k1, k2}
  None = None
INVARIANTS
  NeverBusyForNothing
  HuntsOnlyRinging
  OneCall
  ToneFitsCall
PROPERTIES
  GatheringEnds
CHECK_DEADLOCK FALSE
