SPECIFICATION FairSpec
CONSTANTS
  Claim = {c1}
  Label = {l1}
  LeaseDuration <- OneTick
  SecondTicks = 1
  MaxTime = 2
  MaxDistccVersions = 2
  Absent = Absent
  Unset = Unset
  Controller = {k1}
  MaxRestarts = 1
  Request = {r1}
  Steps = 2
PROPERTY
  RequestsAnswered
  RenewalsServed
  LapsedRemoved
CHECK_DEADLOCK FALSE
