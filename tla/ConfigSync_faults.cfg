SPECIFICATION FairSpec
CONSTANTS
  Nodes = {m, s}
  Master = m
  Writers = {m}
  MaxWrites = 1
  EarlyWrites = 1
  MaxStops = 1
  Buffer = 1
  Faults <- AllFaults
INVARIANTS StaleIsKnown MasterEffectiveIsKnown
PROPERTIES ChangesArrive StopEnds
CHECK_DEADLOCK FALSE
