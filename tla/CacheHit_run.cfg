SPECIFICATION CacheSpec
CONSTANTS
  Keys = {k1, k2}
  Requests = {r1, r2}
  Sessions = {s}
  None = None
  Conversations = {c}
  Turns = {1, 3}
  Kinds <- KindsMC
  Base = 3
  Weights = {2}
  Adjusters = {g1, g2}
  MaxEvents = 10
  Events <- EventsMC
SYMMETRY Symm
INVARIANTS CacheTypeOK OneKeyPerSession WeightIsAccounted
CHECK_DEADLOCK FALSE
