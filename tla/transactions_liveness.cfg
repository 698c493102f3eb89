CONSTANTS
  Clients = {1, 2}
  SlowClients = {2}
  SplitClients = {}
  LossyClients = {1}
  Cells = {a1, a2}
  None = None
  Window = 1
  MaxRuns = 3
  MaxQueue = 0
  Recycle = TRUE
SPECIFICATION FairSpec
CHECK_DEADLOCK FALSE
PROPERTIES
  RunsFinish
  ClosedPeerDropped
