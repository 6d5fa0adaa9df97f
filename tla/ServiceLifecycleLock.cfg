CONSTANTS
  t1 = t1
  t2 = t2
  t3 = t3
  Tasks = {t1, t2, t3}
  None = None
  Ops <- Roles
  MaxGenerations = 2
  ResetMayFail = FALSE
SPECIFICATION Spec
CHECK_DEADLOCK FALSE
INVARIANTS NoReaderBehindWriter
