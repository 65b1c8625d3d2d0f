SPECIFICATION Spec
CONSTANTS
  Keys = {k1}
  Procs = {p1, p2, p3}
  None = None
  Threshold = 2
  MaxFails = 4
  Ops <- RowWise
  Serial = FALSE
  Faults <- NoFaults
SYMMETRY Symm
INVARIANTS PoolInSync OverrunBounded
CHECK_DEADLOCK FALSE
