CONSTANTS
  Clients = {1, 2}
  SlowClients = {2}
  SplitClients = {2}
  LossyClients = {}
  Cells = {a1, a2}
  None = None
  Window = 5
  MaxRuns = 5
  MaxQueue = 5
  Recycle = FALSE
SPECIFICATION Spec
SYMMETRY CellSymmetry
CHECK_DEADLOCK FALSE
INVARIANTS
  SuccessMeansAnswered
  ReplyMatchesRequest
  PromptClientSucceeds
PROPERTY ImplementsWhileTimely
