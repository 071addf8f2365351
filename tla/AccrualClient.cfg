SPECIFICATION Spec
CONSTANTS
  e1 = e1
  e2 = e2
  e3 = e3
  NoHeader = NoHeader
  Events <- ThreeEvents
  PoolSize = 2
  Half = 8
  Second = 2
  Headers <- SmallHeaders
  Configs <- SmallConfigs
  MaxRetries = 3
SYMMETRY EventSymmetry
INVARIANTS
  TypeOK
  QuietDuringPause
  PauseCoversQuiet
  OnlyFinalAnswersEnd
PROPERTY
  BackOffHolds
CHECK_DEADLOCK FALSE
