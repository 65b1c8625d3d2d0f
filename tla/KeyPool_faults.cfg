SPECIFICATION FairSpec
CONSTANTS
  Keys = {k1}
  Procs = {p1, p2}
  None = None
  Threshold = 1
  MaxFails = 1
  Ops <- Faulty
  Serial = TRUE
  Faults <- AllFaults
INVARIANTS ListedOnce
PROPERTY OperationsEnd
CHECK_DEADLOCK FALSE
