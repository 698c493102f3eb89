CONSTANTS
  Clients = {1}
  SlowClients = {1}
  SplitClients = {}
  LossyClients = {}
  Cells = {a1, a2}
  None = None
  Window = 5
  MaxRuns = 5
  MaxQueue = 5
  Recycle = FALSE
SPECIFICATION Spec
SYMMETRY CellSymmetry
CHECK_DEADLOCK FALSE
INVARIANTS
  GetsResponseToRequest
