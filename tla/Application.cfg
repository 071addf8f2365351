SPECIFICATION FairAppSpec
CONSTANTS
  o1 = o1
  w1 = w1
  NoOrder = NoOrder
  Orders <- OneOrder
  Workers <- OneWorker
  MaxDelay = 1
  MaxPause = 1
  Lag = 0
  Preload = TRUE
  Faults = {"read", "write", "cancel"}
  ListenerMayFail = TRUE
INVARIANTS
  AppTypeOK
  CleanExit
PROPERTY
  ApplicationStops
CHECK_DEADLOCK FALSE
