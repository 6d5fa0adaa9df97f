CONSTANTS
  a1 = a1
  a2 = a2
  a3 = a3
  a4 = a4
  t1 = t1
  t2 = t2
  t3 = t3
  Accounts = {a1, a2}
  Tasks = {t1, t2}
  Ops = {"promote", "close"}
  None = None
  MaxActive = 1
  WarmTarget = 1
  PerAccount = 2
  ModelsChange = TRUE
  MaxSerial = 2
  MaxConfig = 0
  CloseMayFail = FALSE
  ReleaseMayFail = FALSE
SPECIFICATION FairSpec
CHECK_DEADLOCK FALSE
INVARIANTS ClosedMeansEmpty CapacityHeld PeakHeld NoLockCycle
PROPERTIES CancelledCallsReturn RecoveryOnTarget
