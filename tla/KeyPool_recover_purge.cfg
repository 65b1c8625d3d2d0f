SPECIFICATION Spec
CONSTANTS
  Keys = {k1}
  Procs = {p1, p2}
  None = None
  Threshold = 2
  MaxFails = 2
  Ops <- RecoverAndPurge
  Serial = FALSE
  Faults <- NoFaults
SYMMETRY Symm
INVARIANTS ActiveAreServed
CHECK_DEADLOCK FALSE
