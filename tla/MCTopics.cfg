CONSTANTS
  Scopes <- MCScopes
  Topics <- MCTopicSet
  Filters <- MCFilters
SPECIFICATION Spec
INVARIANTS ReplicaMatchesLog RecoverableFromDisk LookupsMatch
  RoutedToAll
CHECK_DEADLOCK FALSE
