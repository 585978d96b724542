SPECIFICATION Spec
CONSTANTS
  Claim = {c1}
  Label = {}
  LeaseDuration <- OneTick
  SecondTicks = 1
  MaxTime = 3
  MaxDistccVersions = 1
  Absent = Absent
  Unset = Unset
  Controller = {k1}
  MaxRestarts = 0
  Request = {r1, r2}
  Steps = 1
PROPERTY ControllerDeletesExpired
CHECK_DEADLOCK FALSE
