------------------------------- MODULE Ledger -------------------------------
(***************************************************************************)
(* What the storage promises to its callers: users, orders, balances and   *)
(* payments change in whole operations, one at a time. An order belongs to *)
(* one user for ever and is credited once; a payment is made once, is      *)
(* never more than the balance, and moves its amount from the current      *)
(* balance to the total withdrawn. Storage is shown to implement this      *)
(* module, whatever its concurrent transactions do.                        *)
(***************************************************************************)
EXTENDS Integers

CONSTANTS
  Users, Orders,
  Purchases,   \* order numbers that users pay for from their balances
  Credited,    \* accruals an order can bring, in units of the last decimal
  Paid,        \* amounts a payment can be recorded with, in the same unit
  Slack,       \* how much less than recorded a payment may cost
  NoRow

VARIABLES
  balances,    \* balances[u]: [current, withdrawn], or NoRow: not registered
  orders,      \* orders[o]: [owner, status], or NoRow
  accruals,    \* accruals[o]: the accrual of o, or NoRow
  payments     \* payments[p]: [user, amount], or NoRow

ledgerVars == <<balances, orders, accruals, payments>>

Processable == {"NEW", "PROCESSING"}

Init ==
  /\ balances = [u \in Users |-> NoRow]
  /\ orders = [o \in Orders |-> NoRow]
  /\ accruals = [o \in Orders |-> NoRow]
  /\ payments = [p \in Purchases |-> NoRow]

Registered(u) == balances[u] # NoRow
BeingWorkedOn(o) == orders[o] # NoRow /\ orders[o].status \in Processable

Register(u) ==
  /\ ~Registered(u)
  /\ balances' = [balances EXCEPT ![u] = [current |-> 0, withdrawn |-> 0]]
  /\ UNCHANGED <<orders, accruals, payments>>

Upload(u, o) ==
  /\ Registered(u) /\ orders[o] = NoRow
  /\ orders' = [orders EXCEPT ![o] = [owner |-> u, status |-> "NEW"]]
  /\ UNCHANGED <<balances, accruals, payments>>

Process(o) ==
  /\ BeingWorkedOn(o)
  /\ orders' = [orders EXCEPT ![o].status = "PROCESSING"]
  /\ UNCHANGED <<balances, accruals, payments>>

Reject(o) ==
  /\ BeingWorkedOn(o)
  /\ orders' = [orders EXCEPT ![o].status = "INVALID"]
  /\ UNCHANGED <<balances, accruals, payments>>

Credit(o, amount) ==
  /\ BeingWorkedOn(o)
  /\ orders' = [orders EXCEPT ![o].status = "PROCESSED"]
  /\ accruals' = [accruals EXCEPT ![o] = amount]
  /\ balances' = [balances EXCEPT ![orders[o].owner].current = @ + amount]
  /\ UNCHANGED payments

Pay(u, p, amount, cost) ==
  /\ Registered(u) /\ payments[p] = NoRow
  /\ cost <= balances[u].current
  /\ balances' = [balances EXCEPT ![u].current = @ - cost,
                                  ![u].withdrawn = @ + amount]
  /\ payments' = [payments EXCEPT ![p] = [user |-> u, amount |-> amount]]
  /\ UNCHANGED <<orders, accruals>>

Next ==
  \/ \E u \in Users : Register(u) \/ \E o \in Orders : Upload(u, o)
  \/ \E o \in Orders : Process(o) \/ Reject(o) \/ \E a \in Credited : Credit(o, a)
  \/ \E u \in Users, p \in Purchases, a \in Paid, s \in 0 .. Slack :
       Pay(u, p, a, a - s)

Spec == Init /\ [][Next]_ledgerVars
=============================================================================
