SPECIFICATION QueueFairSpec
CONSTANTS
  o1 = o1
  o2 = o2
  w1 = w1
  w2 = w2
  NoOrder = NoOrder
  Orders <- TwoOrders
  Workers <- OneWorker
  MaxDelay = 0
  MaxPause = 0
  Lag = 0
  Preload = FALSE
  Faults = {"write", "cancel"}
PROPERTY
  ShutdownCompletes
  InFlightDrains
  NotificationServesDueOrders
CHECK_DEADLOCK FALSE
