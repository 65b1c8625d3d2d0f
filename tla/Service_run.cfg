SPECIFICATION FairSpec
CONSTANTS
  Keys = {k1}
  None = None
  Threshold = 2
  MaxReports = 2
  Requests = {r1}
  MaxRetries = 1
  Consecutive = TRUE
  Workers = {w1}
  Garbled = {}
  DbFaults = TRUE
INVARIANTS LoggedOnce RoundIsComplete StoppedIsQuiet
PROPERTIES GoodKeyStays Recovers LoopEnds
