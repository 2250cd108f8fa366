SPECIFICATION SseFairSpec
CONSTANTS
  Devices = {d1, d2}
  Conns = {c1, c2}
  keepAlivePeriod = 1
  eventsBufferSize = 2
  MaxEvents = 3
INVARIANTS
  SignalledOnce
  StreamInOrder
PROPERTIES
  CloseEndsConnections
CHECK_DEADLOCK FALSE
