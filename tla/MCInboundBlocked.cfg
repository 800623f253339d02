CONSTANTS
  MaxPackets = 3
  Ids = {1, 2}
  Filters = {"a", "b"}
  RxKey = rx
  NoKey = nokey
  Scripts <- MCPipelined
SPECIFICATION Spec
PROPERTIES
  PacketsHandled
CHECK_DEADLOCK FALSE
