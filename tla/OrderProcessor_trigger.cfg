SPECIFICATION FairSpec
CONSTANTS
  o1 = o1
  o2 = o2
  w1 = w1
  w2 = w2
  NoOrder = NoOrder
  Orders <- OneOrder
  Workers <- OneWorker
  MaxDelay = 1
  MaxPause = 0
  Lag = 0
  Preload = TRUE
  Faults = {}
PROPERTY
  TriggerReturns
CHECK_DEADLOCK FALSE
