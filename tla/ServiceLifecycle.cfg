CONSTANTS
  t1 = t1
  t2 = t2
  t3 = t3
  Tasks = {t1, t2, t3}
  None = None
  Ops <- Roles
  MaxGenerations = 3
  ResetMayFail = FALSE
SPECIFICATION FairSpec
CHECK_DEADLOCK FALSE
INVARIANTS TypeOK OneGeneration RequestsCut StopSticks ExitClean SupersededClosed
PROPERTIES CallsReturn NoCollateral
