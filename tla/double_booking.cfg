SPECIFICATION Spec
CONSTANTS
  NoService = NoService
  NoEvent = NoEvent
  Appt = {b1, b2}
  Service = {v1}
  Request = {r1, r2}
  Event = {e1, e2, e3}
  DayLen = 24
  DayPad = 6
  WeekLen = 2
  Durations = {1, 2}
  Settings <- OneSetting
  Starts = {8}
  MarkerTTL = 168
  AlertsMax = 2
  OwnerOps = {}
  MaxTime = 0
  MaxReq = 2
  MaxEdit = 0
  MaxFail = 0
SYMMETRY Symmetry
INVARIANT NoOverlap
