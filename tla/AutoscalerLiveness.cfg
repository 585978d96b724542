SPECIFICATION FairSpec
CONSTANTS
  Claim = {c1}
  DistccSpecs <- ShortWindow
  Half = 8
  SecondTicks = 1
  MaxTime = 2
  MaxChanges = 3
  Absent = Absent
  Unset = Unset
PROPERTY
  Converges
  StopsWriting
CHECK_DEADLOCK FALSE
