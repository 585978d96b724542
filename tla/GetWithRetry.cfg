SPECIFICATION FairSpec
CONSTANTS
  Phases = 2
  Steps = 12
INVARIANT
  TypeOK
  GettersAlone
  NoGetterLeft
PROPERTY
  ImplementsContract
  Returns
CHECK_DEADLOCK FALSE
