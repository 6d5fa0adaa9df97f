CONSTANTS
  p1 = p1
  p2 = p2
  t1 = t1
  t2 = t2
  t3 = t3
  t4 = t4
  Processes = {p1}
  Tasks = {t1, t2, t3}
  Home <- HomeOf
  None = None
  Limit = 2
  UnlockMayFail = FALSE
  RenewalOutlives = FALSE
  MaxGeneration = 0
SPECIFICATION FairSpec
PROPERTIES ExclusiveServed
