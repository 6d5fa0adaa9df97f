CONSTANTS
  p1 = p1
  p2 = p2
  t1 = t1
  t2 = t2
  t3 = t3
  t4 = t4
  Processes = {p1, p2}
  Tasks = {t1, t2, t4}
  Home <- HomeOf
  None = None
  Limit = 2
  UnlockMayFail = FALSE
  RenewalOutlives = TRUE
  MaxGeneration = 1
SPECIFICATION Spec
INVARIANTS LeaseFileExact
