SPECIFICATION Spec
CONSTANTS
  NoService = NoService
  NoEvent = NoEvent
  Appt = {b1, b2}
  Service = {v1}
  Request = {r1, r2}
  Event = {e1, e2, e3}
  DayLen = 24
  DayPad = 6
  WeekLen = 2
  Durations = {1}
  Settings <- OneSetting
  Starts = {8, 9}
  MarkerTTL = 168
  AlertsMax = 2
  OwnerOps = {"status", "move", "move_cancelled", "revive", "service"}
  MaxTime = 0
  MaxReq = 3
  MaxEdit = 1
  MaxFail = 1
SYMMETRY Symmetry
INVARIANT TypeOK
INVARIANT EventPointerSound
INVARIANT TouchOnce
