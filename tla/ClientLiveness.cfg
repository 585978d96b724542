SPECIFICATION FairSpec
CONSTANTS
  Label = {}
  UserLabel = user
  LeaseDuration <- OneTick
  SecondTicks = 1
  MaxTime = 2
  MaxObjects = 3
  MaxChanges = 1
  Absent = Absent
  Unset = Unset
  Controller = {k1}
  Request = {r1}
  Steps = 1
INVARIANT
  RefsControlled
PROPERTY
  ClaimsServed
  LapsedRemoved
CHECK_DEADLOCK FALSE
