SPECIFICATION FairSpec
CONSTANTS
  Nodes = {m, s}
  Master = m
  Writers = {m}
  MaxWrites = 1
  EarlyWrites = 0
  MaxStops = 1
  Buffer = 1
  Faults <- NoFaults
PROPERTY EffectiveArrivesEverywhere
CHECK_DEADLOCK FALSE
