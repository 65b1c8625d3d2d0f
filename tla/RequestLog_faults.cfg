SPECIFICATION FairSpec
CONSTANTS
  Logs = {l1, l2}
  Intervals = {0, 2}
  TtlFactor = 3
  BatchSize = 2
  MaxFails = 2
  Faults <- AllFaults
INVARIANTS CountedOnce NoSilentLoss StopLeavesNothing
PROPERTIES ExpiresAfterFailures FlushEnds
