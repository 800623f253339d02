SPECIFICATION Spec
CONSTANTS
  Setups <- MCSetups
  BatchSize = 2
  Capacity = 1
INVARIANTS OutputInOrder WillOnce
PROPERTIES SessionReleased WillPublished
CHECK_DEADLOCK FALSE
