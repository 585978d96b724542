SPECIFICATION Spec
CONSTANTS
  Label = {}
  UserLabel = user
  LeaseDuration <- OneTick
  SecondTicks = 1
  MaxTime = 2
  MaxObjects = 2
  MaxChanges = 0
  Absent = Absent
  Unset = Unset
  Controller = {k1}
  Request = {r1, r2}
  Steps = 2
INVARIANT
  TypeOK
  GrantedIsComplete
  AnsweredOwnService
  ReleasedIsGone
PROPERTY
  ImplementsContract
SYMMETRY Symmetry
CHECK_DEADLOCK FALSE
