CONSTANTS
  r1 = r1
  r2 = r2
  a1 = a1
  a2 = a2
  Requests = {r1, r2}
  Accounts = {a1, a2}
  None = None
  Scenes <- Plays
  Channels = {"playground", "build"}
  Slots = 1
  Buffer = 1
  MaxGeneration = 1
  MaxUpsets = 1
SPECIFICATION FairSpec
CHECK_DEADLOCK FALSE
INVARIANTS TypeOK CopiesUnderLease NothingKept AnswerGiven
PROPERTIES HealthySpared RequestsEnd
