SPECIFICATION Spec
CONSTANTS
  NoService = NoService
  NoEvent = NoEvent
  Appt = {b1, b2}
  Service = {v1, v2}
  Request = {r1}
  Event = {e1, e2, e3, e4}
  DayLen = 24
  DayPad = 6
  WeekLen = 2
  Durations = {1, 2}
  Settings <- SpacedSettings
  Starts = {8, 9, 11}
  MarkerTTL = 168
  AlertsMax = 2
  OwnerOps = {"status", "move", "settings", "google"}
  MaxTime = 1
  MaxReq = 4
  MaxEdit = 1
  MaxFail = 0
SYMMETRY Symmetry
INVARIANT NoOverlap
INVARIANT GapKept
INVARIANT NoOrphanEvent
INVARIANT CalendarFollows
