SPECIFICATION Spec
CONSTANTS
  ClientLimit = 2
  MaxConnections = 3
INVARIANT FirstDisconnected
CHECK_DEADLOCK FALSE
