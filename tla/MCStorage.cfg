SPECIFICATION MCSpec
CONSTANTS
  c1 = c1
  c2 = c2
  k1 = k1
  k2 = k2
  Clients <- MCClients
  Keys <- MCPayloadKeys
  PacketIds = {1, 2}
  Topics = {topic}
  SubscriptionOptions = {options}
  Times = {0, 1, 2}
  Intervals = {0, 1, 9}
  NeverExpires = 9
  NoSubscription = NoSubscription
  NoKey = NoKey
  MaxPending = 2
  MaxRefs = 2
SYMMETRY MCSymmetry
INVARIANTS
  RefCountsExact
  ScheduledPayloadUnreferenced
PROPERTIES
  LastReferenceSchedulesGc
  StartedHandshakeKept
