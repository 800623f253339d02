SPECIFICATION MCSpec
CONSTANTS
  l = l
  f1 = f1
  f2 = f2
  k1 = k1
  k2 = k2
  Nodes <- MCNodes
  Leader = l
  Keys <- MCKeys
  NoKey = NoKey
  MaxLog = 4
  MaxSnapshots = 3
  MaxOverlap = 0
  MaxRestarts = 1
SYMMETRY MCSymmetry
INVARIANTS
  
  LoggedPayloadsStored
PROPERTIES
  InstallFailsOnlyIfOutdated
