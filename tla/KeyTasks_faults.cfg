SPECIFICATION FairSpec
CONSTANTS
  Keys = {1, 2}
  Tasks = {"import 1", "import 2", "delete", "validate"}
  Kind <- KindOf
  Text <- TextOf
  None = None
  Workers = {w1, w2}
  ChunkSize = 1
  StartsOverlap = FALSE
  Faults <- AllFaults
INVARIANTS OneAtATime NoDuplicates ResultIsTrue NotLeftRunning
PROPERTY Unlocked
