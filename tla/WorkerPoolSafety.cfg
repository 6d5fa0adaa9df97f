CONSTANTS
  a1 = a1
  a2 = a2
  a3 = a3
  a4 = a4
  t1 = t1
  t2 = t2
  t3 = t3
  Accounts = {a1, a2}
  Tasks = {t1, t2}
  Ops = {"serve", "prewarm", "update", "remove", "close", "reap", "reset", "expand"}
  None = None
  MaxActive = 2
  WarmTarget = 1
  PerAccount = 1
  ModelsChange = TRUE
  MaxSerial = 1
  MaxConfig = 1
  CloseMayFail = TRUE
  ReleaseMayFail = TRUE
SPECIFICATION Spec
CHECK_DEADLOCK FALSE
VIEW Distinguished
SYMMETRY Interchangeable
INVARIANTS TypeOK WorkerConfigCurrent ProfileGuarded NothingStranded
PROPERTIES UsersSpared
