CONSTANTS
  p1 = p1
  p2 = p2
  t1 = t1
  t2 = t2
  t3 = t3
  t4 = t4
  Processes = {p1, p2}
  Tasks = {t1, t2, t3, t4}
  Home <- HomeOf
  None = None
  Limit = 2
  UnlockMayFail = TRUE
  RenewalOutlives = FALSE
  MaxGeneration = 2
SPECIFICATION Spec
INVARIANTS TypeOK LeaseFileExact DirectoryKept
PROPERTIES LeaseLockImplemented RenewedOnce
SYMMETRY Alike
