SPECIFICATION FairSpec
INVARIANT
  CachesShared
  EndsForAReason
PROPERTY
  ControllersRun
  Ends
CHECK_DEADLOCK FALSE
