CONSTANTS
  Clients = {1, 2}
  SlowClients = {2}
  SplitClients = {}
  LossyClients = {}
  Cells = {a1, a2, a3}
  None = None
  Window = 4
  MaxRuns = 4
  MaxQueue = 4
  Recycle = FALSE
SPECIFICATION Spec
SYMMETRY CellSymmetry
CHECK_DEADLOCK FALSE
INVARIANTS
  TrueMeansFinished
