CONSTANTS
  m1 = m1
  m2 = m2
  m3 = m3
  Msgs = {m1, m2, m3}
  MaxId = 3
  wanted <- MCwanted
  RxKey = rx
  NoKey = nokey
  Sessions <- MCSessions
  qos <- MCqos
  Expiring = {m1}
SPECIFICATION Spec
INVARIANTS
  ReceiveMaximumRespected
  
  

  
CHECK_DEADLOCK FALSE
