SPECIFICATION Spec
CONSTANTS
  n1 = n1
  n2 = n2
  n3 = n3
  Nodes <- MCNodes
  NoNode = NoNode
  Requests = 2
  FirstLeader = n1
  Starting <- MCStarting
  MaxFaults = 1
INVARIANTS
  AckedIsLogged
  LeaderReadsAcked
  RefusedIsReported
PROPERTY
  Answered
CHECK_DEADLOCK FALSE
