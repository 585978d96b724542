SPECIFICATION Spec
CONSTANTS
  Claim = {c1}
  Label = {}
  LeaseDuration <- TwoDurations
  SecondTicks = 2
  MaxTime = 4
  MaxDistccVersions = 1
  Absent = Absent
  Unset = Unset
  Controller = {k1, k2}
  MaxRestarts = 0
  Request = {r1, r2}
  Steps = 1
INVARIANT
  TypeOK
  GrantsAnswerRenewals
  AcknowledgedRenewal
  AnsweredRelease
PROPERTY
  ImplementsContract
SYMMETRY Symmetry
CHECK_DEADLOCK FALSE
