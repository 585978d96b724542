SPECIFICATION FairSpec
CONSTANTS
  Key = {a}
  NoKey = NoKey
  Worker = {w1, w2}
  ChannelCap = 1
  MaxFailures = 1
  NeedPeriodicSync = TRUE
  MaxEvents = 1
INVARIANT
  TypeOK
PROPERTY
  ChangesRead
  FailuresRetried
  WorkersExit
CHECK_DEADLOCK FALSE
