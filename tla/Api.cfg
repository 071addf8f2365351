SPECIFICATION FairApiSpec
CONSTANTS
  u1 = u1
  u2 = u2
  o1 = o1
  p1 = p1
  c1 = c1
  c2 = c2
  w1 = w1
  NoRow = NoRow
  Users <- TwoUsers
  Passwords <- OnePassword
  Orders <- OneOrder
  Purchases <- OnePurchase
  Clients <- TwoClients
  Sums = {1}
  Accruals = {1}
  Grid = 1
  Point = 1
  Unreliable = TRUE
  KeyFile = TRUE
INVARIANTS
  ApiTypeOK
  ToldTheTruth
  AcceptedOnce
  TokensNameUsers
PROPERTIES
  BalanceShowsEveryPayment
  ProcessedShowsAccrual
  AnsweredOrNotifying
CHECK_DEADLOCK FALSE
