SPECIFICATION MCSpec
CONSTANTS
  q1 = q1
  e1 = e1
  e2 = e2
  o1 = o1
  o2 = o2
  p1 = p1
  p2 = p2
  Calls = {q1}
  Execs = {e1, e2}
  Operations = {o1, o2}
  Polls = {p1, p2}
  OrderKinds = {"shift", "receive", "pegOut", "gift"}
  MaxReconnects = 1
  MaxDrops = 2
  MaxStored = 2
  FinalStatus = 2
  MaxFaults = 1
  CacheTtl = 1
  FetchTimeout = 1
  MaxTime = 3
  MaxStops = 1
INVARIANTS
  SocketsAreOwned
  OneCountedSwapPerQuote
  PaidOrdersAreTracked
PROPERTIES
  StatusNeverGoesBack
  EveryStreamIsReleased
  EveryCallEnds
CHECK_DEADLOCK FALSE
