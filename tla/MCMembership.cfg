CONSTANTS
  Configured = {n1, n2}
  Joining = n3
  Here = n1
  NoNode = NoNode
  Plans <- MCPlans
  FirstLeader <- MCFirstLeader
  MaxFaults = 1
SPECIFICATION Spec
INVARIANTS AddNodeComplete ReadyAgrees
CHECK_DEADLOCK FALSE
