SPECIFICATION Spec
CONSTANTS
  a = a
  s1 = s1
  s2 = s2
  n = n
  k1 = k1
  k2 = k2
  openai = openai
  gemini = gemini
  custom = custom
  chat = chat
  Procs = {p1, p2}
  Ids = {a, s1, s2, n}
  Keys = {k1, k2}
  Channels = {openai, gemini}
  Endpoints = {none, chat, custom}
  NoEndpoint = none
  None = None
  Default <- MCDefault
  Rows0 <- MCRows0
  Owner0 <- MCOwner0
  NewRows <- MCNewRows
  Changes <- MCChanges
  Inputs <- MCInputs
  Databases = {TRUE, FALSE}
  MaxOps = 4
CHECK_DEADLOCK FALSE
SYMMETRY Symm
INVARIANTS NoNesting MembersAlike DeletedLeavesNothing KeysAreServed
