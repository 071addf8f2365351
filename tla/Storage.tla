------------------------------ MODULE Storage ------------------------------
(***************************************************************************)
(* The storage (internal/gophermart/repository/sqldatabase) under          *)
(* concurrent calls: HTTP handlers that register users, upload orders and  *)
(* pay, and the workers of the order processor that record what the        *)
(* accrual system answered. A step is one SQL statement on PostgreSQL at   *)
(* its default isolation level, READ COMMITTED: a statement sees committed *)
(* rows and its transaction's own, and waits for a row, or for a key of a  *)
(* unique index, that another transaction has locked or written.           *)
(*                                                                         *)
(* Money is counted in the finest unit a client can name; a column keeps   *)
(* the multiples of Grid such units (numeric(16,4)) and rounds the rest.   *)
(***************************************************************************)
EXTENDS Integers, FiniteSets, FiniteSetsExt

CONSTANTS
  Users, Orders,
  Passwords,   \* passwords a user may register with
  Purchases,   \* withdrawals.next_order_id
  Clients,     \* goroutines that call the storage
  Sums,        \* sums clients ask to pay, in the finest unit
  Accruals,    \* accruals of the accrual system, in the finest unit
  Grid,        \* finest units per unit of a column
  Point,       \* units of a column per accrual point (the integer part)
  Unreliable,  \* connections may break and requests be cancelled
  NoRow

ASSUME StorageAssumption ==
  /\ Sums \subseteq Nat \ {0} /\ Accruals \subseteq Nat
  /\ Grid \in Nat \ {0} /\ Point \in Nat \ {0}
  /\ Unreliable \in BOOLEAN

VARIABLES
  db,     \* db[r]: row r as last committed, or NoRow
  trx,    \* trx[c]: the rows c's open transaction has locked, each with the
          \* value it will have after the commit
  call,   \* call[c]: the call c is executing, or NoCall
  pc      \* pc[c]: its next statement, or its answer

vars == <<db, trx, call, pc>>

-----------------------------------------------------------------------------
(* Rows *)

UserRow(u) == <<"users", u>>
BalanceRow(u) == <<"balances", u>>
OrderRow(o) == <<"orders", o>>
AccrualRow(o) == <<"accruals", o>>
QueueRow(o) == <<"processable_orders", o>>
PaymentRow(p) == <<"withdrawals", p>>

Rows ==
  {UserRow(u) : u \in Users} \cup {BalanceRow(u) : u \in Users}
    \cup {OrderRow(o) : o \in Orders} \cup {AccrualRow(o) : o \in Orders}
    \cup {QueueRow(o) : o \in Orders} \cup {PaymentRow(p) : p \in Purchases}

Processable == {"NEW", "PROCESSING"}
Statuses == Processable \cup {"INVALID", "PROCESSED"}

Exists(r) == db[r] # NoRow

-----------------------------------------------------------------------------
(* Money *)

\* numeric(16,4): to the nearest unit of the column, halves away from zero.
Column(x) ==
  IF x >= 0 THEN (2 * x + Grid) \div (2 * Grid)
            ELSE -((Grid - 2 * x) \div (2 * Grid))

\* Go's int(): towards zero.
Truncated(x, unit) == IF x >= 0 THEN x \div unit ELSE -((-x) \div unit)

-----------------------------------------------------------------------------
(* Calls *)

WorkerCalls ==
  [op : {"MarkOrderProcessing", "MarkOrderInvalid", "PostponeOrderProcessing"},
   order : Orders]
    \cup [op : {"MarkOrderProcessed"}, order : Orders, amount : Accruals]

Calls ==
  [op : {"CreateUser"}, user : Users, password : Passwords]
    \cup [op : {"CreateOrder"}, user : Users, order : Orders]
    \cup [op : {"WithdrawFunds"}, user : Users, order : Purchases, amount : Sums]
    \cup WorkerCalls

NoCall == [op |-> "none"]
Answers == {"ok", "conflict", "exists", "notEnough", "error"}

FirstStatement(op) ==
  CASE op = "CreateUser" -> "findUser"
    [] op = "CreateOrder" -> "findOrder"
    [] op = "WithdrawFunds" -> "lockBalance"
    [] op = "PostponeOrderProcessing" -> "postpone"
    [] OTHER -> "setOrderStatus"

\* A user who uploads or pays has a token, hence a row. The processor works on
\* an order in one goroutine at a time, and asks for its status before it marks
\* it; it may postpone an order whose final status it does not know of. So
\* getOrderBelongingToUser, which reads before the transaction, finds the order.
MayBegin(k) ==
  CASE k.op = "CreateUser" -> TRUE
    [] k.op \in {"CreateOrder", "WithdrawFunds"} -> Exists(UserRow(k.user))
    [] OTHER ->
         /\ Exists(OrderRow(k.order))
         /\ \/ k.op = "PostponeOrderProcessing"
            \/ db[OrderRow(k.order)].status \in Processable
         /\ \A d \in Clients : call[d] \in WorkerCalls => call[d].order # k.order

Init ==
  /\ db = [r \in Rows |-> NoRow]
  /\ trx = [c \in Clients |-> <<>>]
  /\ call = [c \in Clients |-> NoCall]
  /\ pc = [c \in Clients |-> "idle"]

Begin(c, k) ==
  /\ pc[c] = "idle" /\ MayBegin(k)
  /\ call' = [call EXCEPT ![c] = k]
  /\ pc' = [pc EXCEPT ![c] = FirstStatement(k.op)]
  /\ UNCHANGED <<db, trx>>

Return(c) ==
  /\ pc[c] \in Answers
  /\ call' = [call EXCEPT ![c] = NoCall]
  /\ pc' = [pc EXCEPT ![c] = "idle"]
  /\ UNCHANGED <<db, trx>>

-----------------------------------------------------------------------------
(* Statements inside a transaction *)

\* No other transaction stands in the way of writing r.
Available(c, r) == \A d \in Clients \ {c} : r \notin DOMAIN trx[d]

Seen(c, r) == IF r \in DOMAIN trx[c] THEN trx[c][r] ELSE db[r]

GoTo(c, statement) == pc' = [pc EXCEPT ![c] = statement] /\ UNCHANGED <<db, call>>

Write(c, r, value) ==
  /\ Available(c, r)
  /\ trx' = [trx EXCEPT ![c] = [s \in DOMAIN @ \cup {r} |->
                                  IF s = r THEN value ELSE @[s]]]

\* Mutant of Rollback: the transaction stays open.
ReturnWithoutRollback(c, answer) == GoTo(c, answer) /\ UNCHANGED trx

\* The function given to Transaction.Run returned an error.
Rollback(c, answer) ==
  /\ trx' = [trx EXCEPT ![c] = <<>>]
  /\ GoTo(c, answer)

\* An INSERT under a unique key waits for a transaction that has written the
\* key, and fails if the key is there.
Insert(c, r, row, next) ==
  /\ Available(c, r)
  /\ \/ Seen(c, r) = NoRow /\ Write(c, r, row) /\ GoTo(c, next)
     \/ Seen(c, r) # NoRow /\ Rollback(c, "error")

-----------------------------------------------------------------------------
(* CreateUser: findUser, then transactionCreateUserAndBalance *)

FindUser(c) ==
  /\ pc[c] = "findUser"
  /\ GoTo(c, IF Exists(UserRow(call[c].user)) THEN "conflict" ELSE "insertUser")
  /\ UNCHANGED trx

NewUser(c) == [login |-> call[c].user, password |-> call[c].password]

\* Mutants of InsertUser: on the connection, outside the transaction; and an
\* upsert.
InsertUserOutside(c) ==
  /\ pc[c] = "insertUser" /\ Available(c, UserRow(call[c].user))
  /\ \/ /\ ~Exists(UserRow(call[c].user))
        /\ db' = [db EXCEPT ![UserRow(call[c].user)] = NewUser(c)]
        /\ pc' = [pc EXCEPT ![c] = "insertBalance"]
        /\ UNCHANGED <<trx, call>>
     \/ Exists(UserRow(call[c].user)) /\ Rollback(c, "error")

UpsertUser(c) ==
  /\ pc[c] = "insertUser"
  /\ Write(c, UserRow(call[c].user), NewUser(c))
  /\ GoTo(c, IF Exists(UserRow(call[c].user)) THEN "commit" ELSE "insertBalance")

InsertUser(c) ==
  /\ pc[c] = "insertUser"
  /\ Insert(c, UserRow(call[c].user), NewUser(c), "insertBalance")

InsertBalance(c) ==
  /\ pc[c] = "insertBalance"
  /\ Write(c, BalanceRow(call[c].user), [current |-> 0, withdrawn |-> 0])
  /\ GoTo(c, "commit")

-----------------------------------------------------------------------------
(* CreateOrder: maybeCreateOrder, then transactionCreateOrder *)

FindOrder(c) ==
  /\ pc[c] = "findOrder"
  /\ GoTo(c, IF Exists(OrderRow(call[c].order)) THEN "exists" ELSE "insertOrder")
  /\ UNCHANGED trx

\* Mutant of InsertOrder: an upsert.
UpsertOrder(c) ==
  /\ pc[c] = "insertOrder"
  /\ Write(c, OrderRow(call[c].order), [owner |-> call[c].user, status |-> "NEW"])
  /\ GoTo(c, "insertProcessable")

InsertOrder(c) ==
  /\ pc[c] = "insertOrder"
  /\ Insert(c, OrderRow(call[c].order), [owner |-> call[c].user, status |-> "NEW"],
            "insertProcessable")

InsertProcessable(c) ==
  /\ pc[c] = "insertProcessable"
  /\ Write(c, QueueRow(call[c].order), [order |-> call[c].order])
  /\ GoTo(c, "commit")

-----------------------------------------------------------------------------
(* MarkOrderProcessing, transactionMarkOrderInvalid and                     *)
(* transactionMarkOrderProcessed                                            *)

\* The status written, and the statement that follows, by the operation.
NewStatus == [MarkOrderProcessing |-> "PROCESSING",
              MarkOrderInvalid |-> "INVALID",
              MarkOrderProcessed |-> "PROCESSED"]

AfterStatus == [MarkOrderProcessing |-> "commit",
                MarkOrderInvalid |-> "removeProcessable",
                MarkOrderProcessed |-> "setAccrual"]

\* Mutant of SetOrderStatus: on the connection, outside the transaction.
SetOrderStatusOutside(c) ==
  /\ pc[c] = "setOrderStatus" /\ Available(c, OrderRow(call[c].order))
  /\ db' = [db EXCEPT ![OrderRow(call[c].order)].status = NewStatus[call[c].op]]
  /\ pc' = [pc EXCEPT ![c] = AfterStatus[call[c].op]]
  /\ UNCHANGED <<trx, call>>

\* The UPDATE does not look at the status it replaces.
SetOrderStatus(c) ==
  /\ pc[c] = "setOrderStatus"
  /\ LET r == OrderRow(call[c].order)
     IN  Write(c, r, [Seen(c, r) EXCEPT !.status = NewStatus[call[c].op]])
  /\ GoTo(c, AfterStatus[call[c].op])

\* The row is locked and updated, or inserted.
SetAccrualPoints(c) ==
  /\ pc[c] = "setAccrual"
  /\ Write(c, AccrualRow(call[c].order), Column(call[c].amount))
  /\ GoTo(c, "lockBalance")

RemoveProcessableOrder(c) ==
  /\ pc[c] = "removeProcessable"
  /\ Write(c, QueueRow(call[c].order), NoRow)
  /\ GoTo(c, "commit")

\* transactionPostponeOrderProcessing: the row must be there.
PostponeOrderProcessing(c) ==
  /\ pc[c] = "postpone"
  /\ LET r == QueueRow(call[c].order)
     IN  \/ Exists(r) /\ Write(c, r, Seen(c, r)) /\ GoTo(c, "commit")
         \/ ~Exists(r) /\ Rollback(c, "error")

-----------------------------------------------------------------------------
(* maybeUpdateBalance, for MarkOrderProcessed and for WithdrawFunds *)

BalanceOwner(c) ==
  IF call[c].op = "WithdrawFunds" THEN call[c].user
                                  ELSE db[OrderRow(call[c].order)].owner

DiffCurrent(c) == IF call[c].op = "WithdrawFunds" THEN -call[c].amount ELSE call[c].amount
\* Mutant of DiffWithdrawn: the sign of the other difference.
DiffWithdrawnNegative(c) == IF call[c].op = "WithdrawFunds" THEN -call[c].amount ELSE 0

DiffWithdrawn(c) == IF call[c].op = "WithdrawFunds" THEN call[c].amount ELSE 0

\* Mutant of CoarselyEnough: off by one.
MoreThanEnough(balance, diff) ==
  Truncated(balance.current, Point) + Truncated(diff, Grid * Point) > 0

\* The coarse check of updateBalance, on integer parts.
CoarselyEnough(balance, diff) ==
  Truncated(balance.current, Point) + Truncated(diff, Grid * Point) >= 0

\* SELECT ... FOR UPDATE and the coarse check.
LockBalance(c) ==
  /\ pc[c] = "lockBalance"
  /\ LET r == BalanceRow(BalanceOwner(c))
     IN  /\ Available(c, r)
         /\ \/ /\ CoarselyEnough(Seen(c, r), DiffCurrent(c))
               /\ Write(c, r, Seen(c, r)) /\ GoTo(c, "updateBalance")
            \/ /\ ~CoarselyEnough(Seen(c, r), DiffCurrent(c))
               /\ Rollback(c, "notEnough")

\* Mutant of UpdateBalance: the row is not read again and checked.
UpdateBalanceUnchecked(c) ==
  /\ pc[c] = "updateBalance"
  /\ LET r == BalanceRow(BalanceOwner(c))
     IN  Write(c, r,
               [current |-> Column(Seen(c, r).current * Grid + DiffCurrent(c)),
                withdrawn |-> Column(Seen(c, r).withdrawn * Grid + DiffWithdrawn(c))])
  /\ GoTo(c, IF call[c].op = "WithdrawFunds" THEN "insertWithdrawal"
                                             ELSE "removeProcessable")

\* The UPDATE, which adds and rounds in the database, and the check of the row
\* it leaves.
UpdateBalance(c) ==
  /\ pc[c] = "updateBalance"
  /\ LET r == BalanceRow(BalanceOwner(c))
         balance == Seen(c, r)
         current == Column(balance.current * Grid + DiffCurrent(c))
         withdrawn == Column(balance.withdrawn * Grid + DiffWithdrawn(c))
     IN  \/ /\ current >= 0
            /\ Write(c, r, [current |-> current, withdrawn |-> withdrawn])
            /\ GoTo(c, IF call[c].op = "WithdrawFunds" THEN "insertWithdrawal"
                                                       ELSE "removeProcessable")
         \/ current < 0 /\ Rollback(c, "notEnough")

\* Mutant of AddWithdrawalTransaction: on the connection, outside the
\* transaction.
AddWithdrawalOutside(c) ==
  LET r == PaymentRow(call[c].order)
  IN  /\ pc[c] = "insertWithdrawal" /\ Available(c, r)
      /\ \/ /\ ~Exists(r)
            /\ db' = [db EXCEPT ![r] = [user |-> call[c].user,
                                        amount |-> Column(call[c].amount)]]
            /\ pc' = [pc EXCEPT ![c] = "commit"]
            /\ UNCHANGED <<trx, call>>
         \/ Exists(r) /\ Rollback(c, "error")

AddWithdrawalTransaction(c) ==
  /\ pc[c] = "insertWithdrawal"
  /\ Insert(c, PaymentRow(call[c].order),
            [user |-> call[c].user, amount |-> Column(call[c].amount)], "commit")

-----------------------------------------------------------------------------
(* The end of a transaction *)

\* The answer to a COMMIT may be lost.
Commit(c) ==
  /\ pc[c] = "commit"
  /\ db' = [r \in Rows |-> Seen(c, r)]
  /\ trx' = [trx EXCEPT ![c] = <<>>]
  /\ \/ pc' = [pc EXCEPT ![c] = "ok"]
     \/ Unreliable /\ pc' = [pc EXCEPT ![c] = "error"]
  /\ UNCHANGED call

\* A statement fails, or the request is cancelled while it waits.
Fail(c) ==
  /\ Unreliable /\ pc[c] \notin Answers \cup {"idle"}
  /\ Rollback(c, "error")

-----------------------------------------------------------------------------
Statement(c) ==
  \/ FindUser(c) \/ InsertUser(c) \/ InsertBalance(c)
  \/ FindOrder(c) \/ InsertOrder(c) \/ InsertProcessable(c)
  \/ SetOrderStatus(c) \/ SetAccrualPoints(c) \/ RemoveProcessableOrder(c)
  \/ PostponeOrderProcessing(c)
  \/ LockBalance(c) \/ UpdateBalance(c) \/ AddWithdrawalTransaction(c)
  \/ Commit(c)

Next ==
  \E c \in Clients :
    (\E k \in Calls : Begin(c, k)) \/ Statement(c) \/ Fail(c) \/ Return(c)

Spec == Init /\ [][Next]_vars

-----------------------------------------------------------------------------
(* Properties *)

Table == [users |-> [login : Users, password : Passwords],
          balances |-> [current : Int, withdrawn : Nat],
          orders |-> [owner : Users, status : Statuses],
          accruals |-> Nat,
          processable_orders |-> [order : Orders],
          withdrawals |-> [user : Users, amount : Nat]]

ASSUME NoRowAssumption == \A table \in DOMAIN Table : NoRow \notin Table[table]

WellTyped(rows) ==
  \A r \in DOMAIN rows : r \in Rows /\ (rows[r] = NoRow \/ rows[r] \in Table[r[1]])

Statements == {"findUser", "insertUser", "insertBalance", "findOrder",
               "insertOrder", "insertProcessable", "setOrderStatus",
               "setAccrual", "removeProcessable", "postpone", "lockBalance",
               "updateBalance", "insertWithdrawal", "commit"}

\* The type of every variable.
TypeOK ==
  /\ DOMAIN db = Rows /\ WellTyped(db)
  /\ DOMAIN trx = Clients /\ \A c \in Clients : WellTyped(trx[c])
  /\ call \in [Clients -> Calls \cup {NoCall}]
  /\ pc \in [Clients -> Statements \cup Answers \cup {"idle"}]

\* No transaction ever commits a negative balance, whatever other payments and
\* accruals of the same user run at the same time (maybeUpdateBalance).
BalanceNeverNegative ==
  \A u \in Users : Exists(BalanceRow(u)) => db[BalanceRow(u)].current >= 0

PaymentsOf(u) == {p \in Purchases : Exists(PaymentRow(p)) /\ db[PaymentRow(p)].user = u}
CreditsOf(u) == {o \in Orders : Exists(AccrualRow(o)) /\ db[OrderRow(o)].owner = u}

PaidBy(u) == MapThenSumSet(LAMBDA p : db[PaymentRow(p)].amount, PaymentsOf(u))
CreditedTo(u) == MapThenSumSet(LAMBDA o : db[AccrualRow(o)], CreditsOf(u))

\* The total withdrawn is the sum of the user's payments, and what was credited
\* is either in the balance or withdrawn: no update is lost. Only the rounding
\* of a sum that no column can hold may leave up to half a unit per payment in
\* the balance (updateBalance lets the database round).
MoneyAccountedFor ==
  \A u \in Users : Exists(BalanceRow(u)) =>
    LET balance == db[BalanceRow(u)]
        rounding == balance.current + balance.withdrawn - CreditedTo(u)
    IN  /\ balance.withdrawn = PaidBy(u)
        /\ rounding \in 0 .. (IF Grid = 1 THEN 0 ELSE Cardinality(PaymentsOf(u)))

\* Rows that are written together are only ever seen together: a user and the
\* balance, an open order and its place in the queue, a processed order and its
\* accrual. No error, cancellation or crash leaves one without the other.
RowsTogether ==
  /\ \A u \in Users : Exists(UserRow(u)) <=> Exists(BalanceRow(u))
  /\ \A o \in Orders :
       LET status == IF Exists(OrderRow(o)) THEN db[OrderRow(o)].status ELSE "none"
       IN  /\ Exists(QueueRow(o)) <=> status \in Processable
           /\ Exists(AccrualRow(o)) <=> status = "PROCESSED"

\* Who was told that the registration succeeded can log in: the password stored
\* for the login is that user's, and stays, even if another registration of the
\* login looked for the user before this one inserted it (CreateUser).
RegistrationHolds ==
  \A c \in Clients :
    call[c].op = "CreateUser" /\ pc[c] = "ok" => db[UserRow(call[c].user)] = NewUser(c)

\* A payment is refused for lack of funds only when the balance at that very
\* moment is too small for it: the coarse check on integer parts never refuses
\* what the exact one would accept, and an accrual is never refused.
RefusedOnlyForLackOfFunds ==
  [][\A c \in Clients :
       pc'[c] = "notEnough" /\ pc[c] # "notEnough" =>
         /\ call[c].op = "WithdrawFunds"
         /\ call[c].amount > db[BalanceRow(call[c].user)].current * Grid]_vars

\* The concurrent transactions amount to whole operations, one at a time.
RowsOf(row(_), keys) == [k \in keys |-> db[row(k)]]

Promise == INSTANCE Ledger WITH
  balances <- RowsOf(BalanceRow, Users),
  orders <- RowsOf(OrderRow, Orders),
  accruals <- RowsOf(AccrualRow, Orders),
  payments <- RowsOf(PaymentRow, Purchases),
  Credited <- {Column(a) : a \in Accruals},
  Paid <- {Column(a) : a \in Sums},
  Slack <- IF Grid = 1 THEN 0 ELSE 1

ImplementsLedger == Promise!Spec

-----------------------------------------------------------------------------
(* What comments in the code say and the code does not do. *)

\* store_user.go:16-17 "It will return [domain.ErrUserIDConflict] if another
\* user exists with the same user ID": a registration that is not disturbed by
\* a failure is never answered with another error.
TakenLoginIsConflict ==
  \A c \in Clients : call[c].op = "CreateUser" => pc[c] # "error"
=============================================================================
