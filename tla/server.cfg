SPECIFICATION FairSpec
CONSTANTS
  ClientLimit = 2
  MaxConnections = 4
INVARIANTS TypeOK LimitRespected TeardownSafe ThreadsHaveClients SnapshotTimesSet
PROPERTIES IdsAreFresh MutexReleased
CHECK_DEADLOCK FALSE
