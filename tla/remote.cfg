CONSTANTS
  MaxThreads = 2
  MaxRequests = 2
  MaxEarly = 1
  Requests = {"IDENTIFY", "MOVE", "FOOD_UPDATE"}
  MaxUpdates = 1
  MaxStates = 2
SPECIFICATION FairSpec
CHECK_DEADLOCK FALSE
INVARIANTS TypeOK OneThread IdentifiedByThisPeer FinishedMeansDone SentOnce
PROPERTIES DisconnectHonoured RequestServed
