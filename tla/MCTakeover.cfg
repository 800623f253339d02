SPECIFICATION MCSpec
CONSTANTS
  Nodes = {1, 2}
  Leader = 1
  Connects = {"a", "b"}
  Home <- SpreadHome
  Kinds <- ResumeAndOther
  MaxErrors = 1
  MaxCrashes = 1
  MaxSweeps = 1
\* The client may stop connecting.
CHECK_DEADLOCK FALSE
  
PROPERTIES RefinesOwnership StoppedSessionForgotten
