------------------------------ MODULE MCKeyPool ------------------------------
EXTENDS KeyPoolProps, TLC

Symm == Permutations(Keys) \cup Permutations(Procs)

AllFaults    == {"commit", "store"}
NoFaults     == {}

\* Those whose Find selects rows that its write selects again, row by row.
RowWise == {"success", "failure", "forced", "add", "removeSome", "restart", "clear"}

\* The others but "forced", and those of the two whose failures matter.
Faulty == AllOps \ {"add", "forced", "removeSome", "restart", "clear"}

RecoverAndPurge == {"success", "removeInvalid"}
=============================================================================
