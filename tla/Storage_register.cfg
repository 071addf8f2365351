SPECIFICATION Spec
CONSTANTS
  u1 = u1
  u2 = u2
  o1 = o1
  o2 = o2
  p1 = p1
  p2 = p2
  c1 = c1
  c2 = c2
  w1 = w1
  w2 = w2
  NoRow = NoRow
  Users <- OneUser
  Passwords <- OnePassword
  Orders <- OneOrder
  Purchases <- OnePurchase
  Clients <- TwoClients
  Sums = {1}
  Accruals = {1}
  Grid = 1
  Point = 1
  Unreliable = FALSE
INVARIANT
  TakenLoginIsConflict
CHECK_DEADLOCK FALSE
