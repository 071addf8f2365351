SPECIFICATION Spec
CONSTANTS
  u1 = u1
  u2 = u2
  o1 = o1
  o2 = o2
  p1 = p1
  p2 = p2
  c1 = c1
  c2 = c2
  w1 = w1
  w2 = w2
  NoRow = NoRow
  Users <- TwoUsers
  Passwords <- TwoPasswords
  Orders <- TwoOrders
  Purchases <- TwoPurchases
  Clients <- TwoClients
  Sums = {3, 6}
  Accruals = {5}
  Grid = 2
  Point = 2
  Unreliable = TRUE
SYMMETRY Symmetry
INVARIANTS
  TypeOK
  BalanceNeverNegative
  MoneyAccountedFor
  RowsTogether
  RegistrationHolds
PROPERTIES
  RefusedOnlyForLackOfFunds
  ImplementsLedger
CHECK_DEADLOCK FALSE
