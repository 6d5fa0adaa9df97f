CONSTANTS
  a1 = a1
  a2 = a2
  a3 = a3
  a4 = a4
  t1 = t1
  t2 = t2
  t3 = t3
  Accounts = {a1, a2, a3, a4}
  Tasks = {t1, t2}
  Ops = {"serve", "expand"}
  None = None
  MaxActive = 3
  WarmTarget = 1
  PerAccount = 1
  ModelsChange = FALSE
  MaxSerial = 2
  MaxConfig = 0
  CloseMayFail = FALSE
  ReleaseMayFail = FALSE
SPECIFICATION Spec
CHECK_DEADLOCK FALSE
SYMMETRY Interchangeable
INVARIANTS NoLockCycle
