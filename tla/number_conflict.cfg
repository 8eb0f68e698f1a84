SPECIFICATION Spec
CONSTANTS
  Biz = {b1, b2}
  Number = {n1}
  Held = {}
  None = None
  MaxReports = 4
  MaxLinks = 3
  MaxFaults = 0
  MaxDrops = 0
  MayDelete = FALSE
  Serial = TRUE
INVARIANTS OneNumberOneBusiness
CHECK_DEADLOCK FALSE
