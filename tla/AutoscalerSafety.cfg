SPECIFICATION Spec
CONSTANTS
  Claim = {c1, c2}
  DistccSpecs <- SafetySpecs
  Half = 8
  SecondTicks = 1
  MaxTime = 2
  MaxChanges = 4
  Absent = Absent
  Unset = Unset
INVARIANT
  TypeOK
  WithinLimits
PROPERTY
  SpecEditsKept
  ScaleTimesAdvance
  WindowKeptWhenKnown
SYMMETRY Symmetry
CHECK_DEADLOCK FALSE
