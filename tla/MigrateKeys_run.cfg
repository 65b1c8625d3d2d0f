SPECIFICATION FairSpec
CONSTANTS
  Ids = {1, 2, 3}
  Enc = {e1, e2}
  None = None
  BatchSize = 2
  VerifyMax = 2
  SampleSize = 2
  Heeded = TRUE
INVARIANTS AllAlike WarnsRightly CopiesAreCurrent
PROPERTIES CommandEnds Implements
