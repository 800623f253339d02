SPECIFICATION MCSpec
CONSTANTS
  d1 = d1
  d2 = d2
  p1 = p1
  Dispatchers = {d1, d2}
  Processors = {p1}
  MaxRetries = 2
  Ttl = 3
  PacketExpiries = {TRUE, FALSE}
  MaxTime = 5
  MaxCrashes = 1
INVARIANTS
  NothingLost
  DeliveredOnce
PROPERTIES
  RouteSettles
CHECK_DEADLOCK FALSE
