SPECIFICATION FairSpec
CONSTANTS
  Pubs = {p1, p2}
  Subs = {s1, s2}
  bufferSize = 0
INVARIANTS
  NoSendOnClosed
  OrderKept
PROPERTIES
  ChannelCloses
  CancelEndsPublish
CHECK_DEADLOCK FALSE
