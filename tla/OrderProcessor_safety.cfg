SPECIFICATION Spec
CONSTANTS
  o1 = o1
  o2 = o2
  w1 = w1
  w2 = w2
  NoOrder = NoOrder
  Orders <- TwoOrders
  Workers <- TwoWorkers
  MaxDelay = 1
  MaxPause = 1
  Lag = 0
  Preload = TRUE
  Faults = {"read", "write", "cancel", "rerun", "crash"}
SYMMETRY Symmetry
INVARIANTS
  TypeOK
  InFlightExact
  HandledOnce
  CreditedOnce
  QueueMatchesStatus
  PendingOrdersWait
  IdleWhenReturned
  NoSendOnClosedChannel
PROPERTY
  ImplementsLifecycle
CHECK_DEADLOCK FALSE
