CONSTANTS
  Clients = {1, 2}
  SlowClients = {}
  SplitClients = {2}
  LossyClients = {1}
  Cells = {a1, a2, a3}
  None = None
  Window = 6
  MaxRuns = 6
  MaxQueue = 6
  Recycle = FALSE
SPECIFICATION Spec
SYMMETRY CellSymmetry
CHECK_DEADLOCK FALSE
INVARIANTS
  TypeOK
  WritesOwnTransaction
  SignalledOnce
PROPERTY ImplementsRequestReply
