CONSTANTS
  MaxPackets = 3
  Ids = {1, 2}
  Filters = {"a", "b"}
  RxKey = rx
  NoKey = nokey
  Scripts <- MCScripts
SPECIFICATION Spec
INVARIANTS
  AckedAfterRouted
  ReceivedKept
  RetainedLatest
  SubscriptionsAgree

  
CHECK_DEADLOCK FALSE
