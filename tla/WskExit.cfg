CONSTANTS
  c1 = c1
  c2 = c2
  Conns <- OneConn
  Listener = Listener
  MaxSignals = 1
  AcceptHoldsSocket = TRUE
SYMMETRY Symmetry
SPECIFICATION Spec
INVARIANT
  WorkerExitsEmpty
