CONSTANTS
  p = p
  q = q
  j1 = j1
  j2 = j2
  j3 = j3
  Process = {p, q}
  Job = {j1, j2, j3}
  Free = Free
  Scenes <- Plays
  Catalogs <- Answers
  MaxTime = 2
SPECIFICATION Spec
CHECK_DEADLOCK FALSE
INVARIANTS TypeOK NoLostUpdate VerifiedByEntry
PROPERTIES ResultsInOrder CoolingRefused
