SPECIFICATION Spec
CONSTANTS
  Key = {a, b}
  NoKey = NoKey
  Worker = {w1, w2}
  ChannelCap = 1
  MaxFailures = 1
  NeedPeriodicSync = TRUE
  MaxEvents = 2
INVARIANT
  NoConcurrentSync
  NoLostEvent
  NoLostWakeup
PROPERTY
  ImplementsContract
SYMMETRY Symmetry
VIEW SafetyView
CHECK_DEADLOCK FALSE
