SPECIFICATION FairSpec
CONSTANTS
  Biz = {b1}
  Number = {n1, n2}
  Held = {n2}
  None = None
  MaxReports = 1
  MaxLinks = 2
  MaxFaults = 1
  MaxDrops = 1
  MayDelete = TRUE
  Serial = FALSE
INVARIANTS TypeOK NoOrphanSocket ReportsOwnNumber
PROPERTIES SessionsComeBack
CHECK_DEADLOCK FALSE
