SPECIFICATION Spec
CONSTANTS
  Names <- MCNames
  Ops <- MCOps
  Calls <- MCCalls
  Capacity = 1
  RxCapacity = 2
  Scopes <- MCScopes
INVARIANTS NoStaleHooks 
 
CHECK_DEADLOCK FALSE
