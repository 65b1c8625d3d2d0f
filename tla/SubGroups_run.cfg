SPECIFICATION FairSpec
CONSTANTS
  Subs = {1, 2, 3}
  Callers = {r1}
  Nobody = Nobody
  Groups <- Changing
  MaxSels = 2
  StoreFails = FALSE
INVARIANTS SelectorIsCurrent TurnsAreShared
PROPERTIES ServedIfAny SelectionEnds
