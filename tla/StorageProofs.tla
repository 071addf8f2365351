--------------------------- MODULE StorageProofs ---------------------------
(***************************************************************************)
(* Proofs about Storage for any users, orders, payments and clients, any   *)
(* sums and accruals, and any precision of the columns.                    *)
(***************************************************************************)
EXTENDS Storage, TLAPS

-----------------------------------------------------------------------------
(* Rows and their types *)

\* Rows of different tables, or of different keys, are different.
LEMMA RowsDiffer ==
  ASSUME NEW x, NEW y
  PROVE  /\ UserRow(x) = UserRow(y) <=> x = y
         /\ BalanceRow(x) = BalanceRow(y) <=> x = y
         /\ OrderRow(x) = OrderRow(y) <=> x = y
         /\ AccrualRow(x) = AccrualRow(y) <=> x = y
         /\ QueueRow(x) = QueueRow(y) <=> x = y
         /\ PaymentRow(x) = PaymentRow(y) <=> x = y
         /\ UserRow(x) \notin {BalanceRow(y), OrderRow(y), AccrualRow(y),
                               QueueRow(y), PaymentRow(y)}
         /\ BalanceRow(x) \notin {OrderRow(y), AccrualRow(y), QueueRow(y), PaymentRow(y)}
         /\ OrderRow(x) \notin {AccrualRow(y), QueueRow(y), PaymentRow(y)}
         /\ AccrualRow(x) \notin {QueueRow(y), PaymentRow(y)}
         /\ QueueRow(x) # PaymentRow(y)
  BY DEF UserRow, BalanceRow, OrderRow, AccrualRow, QueueRow, PaymentRow

LEMMA RowKeys ==
  \A x : /\ UserRow(x)[1] = "users" /\ UserRow(x)[2] = x
         /\ BalanceRow(x)[1] = "balances" /\ BalanceRow(x)[2] = x
         /\ OrderRow(x)[1] = "orders" /\ OrderRow(x)[2] = x
         /\ AccrualRow(x)[1] = "accruals" /\ AccrualRow(x)[2] = x
         /\ QueueRow(x)[1] = "processable_orders" /\ QueueRow(x)[2] = x
         /\ PaymentRow(x)[1] = "withdrawals" /\ PaymentRow(x)[2] = x
  BY DEF UserRow, BalanceRow, OrderRow, AccrualRow, QueueRow, PaymentRow

\* Every row is one of these, and names its table.
LEMMA RowsAre ==
  /\ \A u \in Users : /\ UserRow(u) \in Rows /\ UserRow(u)[1] = "users"
                      /\ BalanceRow(u) \in Rows /\ BalanceRow(u)[1] = "balances"
  /\ \A o \in Orders : /\ OrderRow(o) \in Rows /\ OrderRow(o)[1] = "orders"
                       /\ AccrualRow(o) \in Rows /\ AccrualRow(o)[1] = "accruals"
                       /\ QueueRow(o) \in Rows /\ QueueRow(o)[1] = "processable_orders"
  /\ \A p \in Purchases : PaymentRow(p) \in Rows /\ PaymentRow(p)[1] = "withdrawals"
  BY DEF Rows, UserRow, BalanceRow, OrderRow, AccrualRow, QueueRow, PaymentRow

UserType == [login : Users, password : Passwords]
BalanceType == [current : Int, withdrawn : Nat]
OrderType == [owner : Users, status : Statuses]
QueueType == [order : Orders]
PaymentType == [user : Users, amount : Nat]

LEMMA TableIs ==
  /\ Table["users"] = UserType /\ Table["balances"] = BalanceType
  /\ Table["orders"] = OrderType /\ Table["accruals"] = Nat
  /\ Table["processable_orders"] = QueueType /\ Table["withdrawals"] = PaymentType
  /\ NoRow \notin UserType /\ NoRow \notin BalanceType /\ NoRow \notin OrderType
  /\ NoRow \notin Nat /\ NoRow \notin QueueType /\ NoRow \notin PaymentType
  <1>1. DOMAIN Table = {"users", "balances", "orders", "accruals",
                        "processable_orders", "withdrawals"}
    BY DEF Table
  <1>2. /\ Table["users"] = UserType /\ Table["balances"] = BalanceType
        /\ Table["orders"] = OrderType /\ Table["accruals"] = Nat
        /\ Table["processable_orders"] = QueueType /\ Table["withdrawals"] = PaymentType
    BY DEF Table, UserType, BalanceType, OrderType, QueueType, PaymentType
  <1> QED  BY <1>1, <1>2, NoRowAssumption

\* What a set of rows is made of.
Typed(rows) ==
  /\ \A u \in Users :
       /\ UserRow(u) \in DOMAIN rows => rows[UserRow(u)] \in UserType \cup {NoRow}
       /\ BalanceRow(u) \in DOMAIN rows => rows[BalanceRow(u)] \in BalanceType \cup {NoRow}
  /\ \A o \in Orders :
       /\ OrderRow(o) \in DOMAIN rows => rows[OrderRow(o)] \in OrderType \cup {NoRow}
       /\ AccrualRow(o) \in DOMAIN rows => rows[AccrualRow(o)] \in Nat \cup {NoRow}
       /\ QueueRow(o) \in DOMAIN rows => rows[QueueRow(o)] \in QueueType \cup {NoRow}
  /\ \A p \in Purchases :
       PaymentRow(p) \in DOMAIN rows => rows[PaymentRow(p)] \in PaymentType \cup {NoRow}

LEMMA TypedRows ==
  ASSUME NEW rows
  PROVE  WellTyped(rows) <=> DOMAIN rows \subseteq Rows /\ Typed(rows)
  <1>1. WellTyped(rows) => DOMAIN rows \subseteq Rows /\ Typed(rows)
    BY RowsAre, TableIs DEF WellTyped, Typed
  <1>2. ASSUME DOMAIN rows \subseteq Rows, Typed(rows), NEW r \in DOMAIN rows
        PROVE  rows[r] = NoRow \/ rows[r] \in Table[r[1]]
    <2>1. CASE \E u \in Users : r = UserRow(u)
      BY <1>2, <2>1, RowsAre, TableIs DEF Typed
    <2>2. CASE \E u \in Users : r = BalanceRow(u)
      BY <1>2, <2>2, RowsAre, TableIs DEF Typed
    <2>3. CASE \E o \in Orders : r = OrderRow(o)
      BY <1>2, <2>3, RowsAre, TableIs DEF Typed
    <2>4. CASE \E o \in Orders : r = AccrualRow(o)
      BY <1>2, <2>4, RowsAre, TableIs DEF Typed
    <2>5. CASE \E o \in Orders : r = QueueRow(o)
      BY <1>2, <2>5, RowsAre, TableIs DEF Typed
    <2>6. CASE \E p \in Purchases : r = PaymentRow(p)
      BY <1>2, <2>6, RowsAre, TableIs DEF Typed
    <2> QED  BY <1>2, <2>1, <2>2, <2>3, <2>4, <2>5, <2>6 DEF Rows
  <1> QED  BY <1>1, <1>2 DEF WellTyped

\* What a call is made of.
LEMMA CallTypes ==
  ASSUME NEW k \in Calls \cup {NoCall}
  PROVE  /\ k.op = "CreateUser" => k.user \in Users /\ k.password \in Passwords
         /\ k.op = "CreateOrder" => k.user \in Users /\ k.order \in Orders
         /\ k.op = "WithdrawFunds" =>
              k.user \in Users /\ k.order \in Purchases /\ k.amount \in Nat \ {0}
         /\ k.op \in {"MarkOrderProcessing", "MarkOrderInvalid", "MarkOrderProcessed",
                      "PostponeOrderProcessing"} <=> k \in WorkerCalls
         /\ k \in WorkerCalls => k.order \in Orders
         /\ k.op = "MarkOrderProcessed" => k.amount \in Nat
         /\ k.op = "none" <=> k = NoCall
         /\ k.op \in {"none", "CreateUser", "CreateOrder", "WithdrawFunds",
                      "MarkOrderProcessing", "MarkOrderInvalid", "MarkOrderProcessed",
                      "PostponeOrderProcessing"}
  <1>1. CASE k \in [op : {"MarkOrderProcessing", "MarkOrderInvalid",
                         "PostponeOrderProcessing"}, order : Orders]
    BY <1>1 DEF WorkerCalls, NoCall
  <1>6. CASE k \in [op : {"MarkOrderProcessed"}, order : Orders, amount : Accruals]
    <2>1. k.amount \in Nat
      BY <1>6, StorageAssumption
    <2> QED  BY <1>6, <2>1 DEF WorkerCalls, NoCall
  <1>2. CASE k \in [op : {"CreateUser"}, user : Users, password : Passwords]
    BY <1>2 DEF WorkerCalls, NoCall
  <1>3. CASE k \in [op : {"CreateOrder"}, user : Users, order : Orders]
    BY <1>3 DEF WorkerCalls, NoCall
  <1>4. CASE k \in [op : {"WithdrawFunds"}, user : Users, order : Purchases, amount : Sums]
    <2>1. k.amount \in Nat \ {0}
      BY <1>4, StorageAssumption
    <2> QED  BY <1>4, <2>1 DEF WorkerCalls, NoCall
  <1>5. CASE k = NoCall
    BY <1>5 DEF WorkerCalls, NoCall
  <1> QED  BY <1>1, <1>2, <1>3, <1>4, <1>5, <1>6 DEF Calls, WorkerCalls

LEMMA CallAmounts ==
  ASSUME NEW k \in Calls \cup {NoCall}
  PROVE  /\ k.op = "WithdrawFunds" => k.amount \in Sums
         /\ k.op = "MarkOrderProcessed" => k.amount \in Accruals
  BY DEF Calls, WorkerCalls, NoCall

-----------------------------------------------------------------------------
(* Money *)

\* Division by a positive number, as the provers need it.
LEMMA Quotient ==
  ASSUME NEW a \in Int, NEW b \in Nat \ {0}
  PROVE  /\ a \div b \in Int
         /\ b * (a \div b) <= a /\ a < b * (a \div b) + b
  BY Z3

LEMMA QuotientNat ==
  ASSUME NEW a \in Nat, NEW b \in Nat \ {0}
  PROVE  a \div b \in Nat
  BY Z3

\* The quotient is the only number between these bounds.
LEMMA QuotientIs ==
  ASSUME NEW a \in Int, NEW b \in Nat \ {0}, NEW q \in Int,
         b * q <= a, a < b * q + b
  PROVE  a \div b = q
  BY Quotient, Z3

\* A unit of a column more or less is one more or less after rounding.
LEMMA ColumnNat ==
  ASSUME NEW x \in Nat
  PROVE  Column(x) \in Nat
  <1>1. 2 * x + Grid \in Nat /\ 2 * Grid \in Nat \ {0}
    BY StorageAssumption
  <1> QED  BY <1>1, QuotientNat DEF Column

LEMMA ColumnInt ==
  ASSUME NEW x \in Int
  PROVE  /\ Column(x) \in Int
         /\ Column(x) < 0 => x < 0
  <1>1. CASE x >= 0
    BY <1>1, ColumnNat
  <1>2. CASE x < 0
    <2>1. Grid - 2 * x \in Nat /\ 2 * Grid \in Nat \ {0}
      BY <1>2, StorageAssumption
    <2> QED  BY <1>2, <2>1, QuotientNat, StorageAssumption DEF Column
  <1> QED  BY <1>1, <1>2

LEMMA ColumnAdds ==
  ASSUME NEW n \in Nat, NEW x \in Nat
  PROVE  Column(n * Grid + x) = n + Column(x)
  <1> DEFINE t == 2 * Grid
             y == 2 * x + Grid
             q == y \div t
  <1>1. t \in Nat \ {0} /\ y \in Nat /\ n * Grid \in Nat
    BY StorageAssumption
  <1>2. q \in Nat /\ t * q <= y /\ y < t * q + t
    BY <1>1, Quotient, QuotientNat
  <1>3. /\ 2 * (n * Grid + x) + Grid = t * n + y
        /\ t * (n + q) = t * n + t * q
    BY StorageAssumption, <1>2, Z3
  <1>4. (t * n + y) \div t = n + q
    <2>1. t * n \in Nat /\ t * q \in Nat
      BY <1>1, <1>2, Z3
    <2>2. t * (n + q) <= t * n + y /\ t * n + y < t * (n + q) + t
      BY <1>1, <1>2, <1>3, <2>1
    <2> HIDE DEF t, y, q
    <2> QED  BY <1>1, <1>2, <2>1, <2>2, QuotientIs
  <1> QED  BY <1>1, <1>3, <1>4 DEF Column

LEMMA Cancel ==
  ASSUME NEW t \in Nat \ {0}, NEW a \in Int, NEW b \in Int, t * a < t * b
  PROVE  a < b
  BY Z3

LEMMA QuotientsAdd ==
  ASSUME NEW t \in Nat \ {0}, NEW y \in Int, NEW z \in Int, NEW n \in Int,
         y + z = t * n + t
  PROVE  (y \div t) + (z \div t) - n \in {0, 1}
  <1> DEFINE p == y \div t
             q == z \div t
  <1>1. /\ p \in Int /\ t * p <= y /\ y < t * p + t
        /\ q \in Int /\ t * q <= z /\ z < t * q + t
    BY Quotient
  <1> HIDE DEF p, q
  <1>2. /\ t * p \in Int /\ t * q \in Int /\ t * n \in Int
        /\ t * (p + q) = t * p + t * q
        /\ t * (n + 2) = t * n + t + t
        /\ t * (p + q + 2) = t * p + t * q + t + t
        /\ t * (n + 1) = t * n + t
    BY <1>1, Z3
  <1>3. t * (p + q) < t * (n + 2) /\ t * (n + 1) < t * (p + q + 2)
    BY <1>1, <1>2
  <1>4. p + q < n + 2 /\ n + 1 < p + q + 2
    BY <1>1, <1>3, Cancel
  <1>5. p + q - n \in {0, 1}
    BY <1>1, <1>4
  <1> QED  BY <1>5 DEF p, q

LEMMA ColumnOfOne ==
  ASSUME NEW x \in Int, Grid = 1
  PROVE  Column(x) = x
  <1>1. (2 * x + 1) \div 2 = x /\ (1 - 2 * x) \div 2 = -x
    BY QuotientIs
  <1> QED  BY <1>1 DEF Column

\* A payment costs what is recorded for it, or one unit less.
LEMMA ColumnSubtracts ==
  ASSUME NEW n \in Nat, NEW x \in Nat, Column(n * Grid - x) >= 0
  PROVE  Column(n * Grid - x) - (n - Column(x)) \in 0 .. (IF Grid = 1 THEN 0 ELSE 1)
  <1> DEFINE t == 2 * Grid
             z == n * Grid - x
  <1>1. /\ t \in Nat \ {0} /\ n * Grid \in Nat /\ z \in Int /\ Grid \in Nat \ {0}
        /\ t * n = 2 * (n * Grid)
        /\ 2 * x + Grid \in Int /\ 2 * z + Grid \in Int /\ Grid - 2 * z \in Int
    BY StorageAssumption, Z3
  <1>2. Column(x) = (2 * x + Grid) \div t
    BY DEF Column
  <1>3. CASE Grid = 1
    BY <1>1, <1>3, ColumnOfOne
  <1>4. CASE z >= 0
    <2>1. (2 * x + Grid) + (2 * z + Grid) = t * n + t
      BY <1>1
    <2>2. Column(z) = (2 * z + Grid) \div t
      BY <1>4 DEF Column
    <2>3. ((2 * x + Grid) \div t) + ((2 * z + Grid) \div t) - n \in {0, 1}
      BY <1>1, <2>1, QuotientsAdd
    <2>4. Column(x) \in Int /\ Column(z) \in Int /\ Column(x) + Column(z) - n \in {0, 1}
      BY <1>1, <1>2, <2>2, <2>3, ColumnInt
    <2>5. Column(z) - (n - Column(x)) \in {0, 1}
      BY <2>4
    <2> QED  BY <1>3, <2>5
  <1>5. CASE z < 0
    <2> DEFINE m == (Grid - 2 * z) \div t
    <2>1. m \in Nat /\ Column(z) = -m
      BY <1>1, <1>5, QuotientNat DEF Column
    <2>2. m = 0
      BY <2>1
    <2>3. Grid - 2 * z < t
      BY <1>1, <2>2, Quotient
    <2>4. t * n <= 2 * x + Grid /\ 2 * x + Grid < t * n + t
      BY <1>1, <1>5, <2>3
    <2>5. (2 * x + Grid) \div t = n
      BY <1>1, <2>4, QuotientIs
    <2>6. Column(z) = 0 /\ Column(x) = n
      BY <1>2, <2>1, <2>2, <2>5
    <2> QED  BY <2>6, <1>3
  <1> QED  BY <1>1, <1>4, <1>5

-----------------------------------------------------------------------------
(* The inductive invariant *)

\* Every order has an owner who is registered, so a worker finds the balance.
OwnersRegistered ==
  \A o \in Orders : Exists(OrderRow(o)) => Exists(UserRow(db[OrderRow(o)].owner))

\* A row is locked or written by one open transaction at a time.
LocksExclusive ==
  \A c, d \in Clients : c # d => DOMAIN trx[c] \cap DOMAIN trx[d] = {}

\* Workers hold different orders (MayBegin), from the call to its return.
WorkersApart ==
  \A c, d \in Clients :
    c # d /\ call[c] \in WorkerCalls /\ call[d] \in WorkerCalls
      => call[c].order # call[d].order

\* What c does and has locked: nothing, unless the invariants below say so.
Locks(c, rows) == DOMAIN trx[c] = rows

\* An idle client has no call, and one that is done has no transaction.
AtRest(c) ==
  /\ pc[c] = "idle" <=> call[c] = NoCall
  /\ pc[c] \in Answers \cup {"idle"} => Locks(c, {})

\* The transaction of CreateUser: its login is free until it commits.
Registering(c) ==
  LET u == call[c].user
  IN  /\ pc[c] \in {"findUser", "insertUser", "insertBalance", "commit"} \cup Answers
      /\ pc[c] \in {"findUser", "insertUser"} => Locks(c, {})
      /\ pc[c] = "insertBalance" => Locks(c, {UserRow(u)})
      /\ pc[c] = "commit" =>
           /\ Locks(c, {UserRow(u), BalanceRow(u)})
           /\ trx[c][BalanceRow(u)] = [current |-> 0, withdrawn |-> 0]
      /\ pc[c] \in {"insertBalance", "commit"} =>
           ~Exists(UserRow(u)) /\ trx[c][UserRow(u)] = NewUser(c)
      /\ pc[c] = "ok" => db[UserRow(u)] = NewUser(c)

\* The transaction of CreateOrder: the order is not there until it commits.
Uploading(c) ==
  LET o == call[c].order
  IN  /\ Exists(UserRow(call[c].user))
      /\ pc[c] \in {"findOrder", "insertOrder", "insertProcessable", "commit"} \cup Answers
      /\ pc[c] \in {"findOrder", "insertOrder"} => Locks(c, {})
      /\ pc[c] = "insertProcessable" => Locks(c, {OrderRow(o)})
      /\ pc[c] = "commit" =>
           /\ Locks(c, {OrderRow(o), QueueRow(o)})
           /\ trx[c][QueueRow(o)] = [order |-> o]
      /\ pc[c] \in {"insertProcessable", "commit"} =>
           /\ ~Exists(OrderRow(o))
           /\ trx[c][OrderRow(o)] = [owner |-> call[c].user, status |-> "NEW"]

\* The balance row of c's transaction: as it was read, and as it was updated.
Charged(c, r) ==
  [current |-> Column(db[r].current * Grid + DiffCurrent(c)),
   withdrawn |-> Column(db[r].withdrawn * Grid + DiffWithdrawn(c))]

BalanceRead(c, r) == trx[c][r] = db[r]
BalanceUpdated(c, r) == trx[c][r] = Charged(c, r) /\ Charged(c, r).current >= 0

\* The transaction of WithdrawFunds.
Paying(c) ==
  LET r == BalanceRow(call[c].user)
      p == PaymentRow(call[c].order)
  IN  /\ Exists(UserRow(call[c].user))
      /\ pc[c] \in {"lockBalance", "updateBalance", "insertWithdrawal", "commit"} \cup Answers
      /\ pc[c] = "lockBalance" => Locks(c, {})
      /\ pc[c] = "updateBalance" => Locks(c, {r}) /\ BalanceRead(c, r)
      /\ pc[c] = "insertWithdrawal" => Locks(c, {r}) /\ BalanceUpdated(c, r)
      /\ pc[c] = "commit" =>
           /\ Locks(c, {r, p}) /\ BalanceUpdated(c, r)
           /\ ~Exists(p)
           /\ trx[c][p] = [user |-> call[c].user, amount |-> Column(call[c].amount)]

\* What the three transactions that mark an order share: until they end, the
\* order is one that is being worked on.
Marking(c) ==
  LET r == OrderRow(call[c].order)
  IN  /\ Exists(r)
      /\ pc[c] \notin Answers => db[r].status \in Processable
      /\ pc[c] = "setOrderStatus" => Locks(c, {})
      /\ pc[c] \notin Answers \cup {"setOrderStatus"} =>
           trx[c][r] = [db[r] EXCEPT !.status = NewStatus[call[c].op]]

MarkingProcessing(c) ==
  LET r == OrderRow(call[c].order)
  IN  /\ Marking(c)
      /\ pc[c] \in {"setOrderStatus", "commit"} \cup Answers
      /\ pc[c] = "commit" => Locks(c, {r})

MarkingInvalid(c) ==
  LET r == OrderRow(call[c].order)
      q == QueueRow(call[c].order)
  IN  /\ Marking(c)
      /\ pc[c] \in {"setOrderStatus", "removeProcessable", "commit"} \cup Answers
      /\ pc[c] = "removeProcessable" => Locks(c, {r})
      /\ pc[c] = "commit" => Locks(c, {r, q}) /\ trx[c][q] = NoRow

MarkingProcessed(c) ==
  LET r == OrderRow(call[c].order)
      a == AccrualRow(call[c].order)
      q == QueueRow(call[c].order)
      b == BalanceRow(db[r].owner)
  IN  /\ Marking(c)
      /\ pc[c] \in {"setOrderStatus", "setAccrual", "lockBalance", "updateBalance",
                    "removeProcessable", "commit"} \cup Answers
      /\ pc[c] = "setAccrual" => Locks(c, {r})
      /\ pc[c] = "lockBalance" => Locks(c, {r, a})
      /\ pc[c] = "updateBalance" => Locks(c, {r, a, b}) /\ BalanceRead(c, b)
      /\ pc[c] = "removeProcessable" => Locks(c, {r, a, b}) /\ BalanceUpdated(c, b)
      /\ pc[c] = "commit" =>
           Locks(c, {r, a, b, q}) /\ BalanceUpdated(c, b) /\ trx[c][q] = NoRow
      /\ pc[c] \in {"lockBalance", "updateBalance", "removeProcessable", "commit"} =>
           trx[c][a] = Column(call[c].amount)

Postponing(c) ==
  LET q == QueueRow(call[c].order)
  IN  /\ pc[c] \in {"postpone", "commit"} \cup Answers
      /\ pc[c] = "postpone" => Locks(c, {})
      /\ pc[c] = "commit" => Locks(c, {q}) /\ Exists(q) /\ trx[c][q] = db[q]

Working(c) ==
  /\ AtRest(c)
  /\ call[c].op = "CreateUser" => Registering(c)
  /\ call[c].op = "CreateOrder" => Uploading(c)
  /\ call[c].op = "WithdrawFunds" => Paying(c)
  /\ call[c].op = "MarkOrderProcessing" => MarkingProcessing(c)
  /\ call[c].op = "MarkOrderInvalid" => MarkingInvalid(c)
  /\ call[c].op = "MarkOrderProcessed" => MarkingProcessed(c)
  /\ call[c].op = "PostponeOrderProcessing" => Postponing(c)

IInv ==
  /\ TypeOK
  /\ RowsTogether /\ OwnersRegistered /\ BalanceNeverNegative
  /\ LocksExclusive /\ WorkersApart
  /\ \A c \in Clients : Working(c)

-----------------------------------------------------------------------------
(* Steps that leave the database alone *)

\* A client moves, and the others do not.
Moves(c) ==
  /\ db' = db
  /\ DOMAIN trx' = Clients
  /\ call' \in [Clients -> Calls \cup {NoCall}]
  /\ pc' \in [Clients -> Statements \cup Answers \cup {"idle"}]
  /\ \A d \in Clients \ {c} :
       trx'[d] = trx[d] /\ call'[d] = call[d] /\ pc'[d] = pc[d]

\* The step of a transaction: to the next statement, with the rows it has
\* locked as they are, with one more, or with none.
Continues(c, next) == Moves(c) /\ call'[c] = call[c] /\ pc'[c] = next

Wrote(c, r, value) ==
  /\ Available(c, r)
  /\ DOMAIN trx'[c] = DOMAIN trx[c] \cup {r}
  /\ trx'[c][r] = value
  /\ \A s \in DOMAIN trx[c] : s # r => trx'[c][s] = trx[c][s]

LEMMA GoToKeeps ==
  ASSUME TypeOK, NEW c \in Clients, UNCHANGED trx,
         NEW next \in Statements \cup Answers, GoTo(c, next)
  PROVE  Continues(c, next) /\ trx'[c] = trx[c]
  BY DEF TypeOK, GoTo, Continues, Moves

LEMMA GoToWrites ==
  ASSUME TypeOK, NEW c \in Clients, NEW r, NEW value, Write(c, r, value),
         NEW next \in Statements \cup Answers, GoTo(c, next)
  PROVE  Continues(c, next) /\ Wrote(c, r, value)
  BY DEF TypeOK, GoTo, Write, Continues, Moves, Wrote

LEMMA NoRowsLocked == DOMAIN <<>> = {}
  OBVIOUS

LEMMA RollbackClears ==
  ASSUME TypeOK, NEW c \in Clients, NEW answer \in Answers, Rollback(c, answer)
  PROVE  Continues(c, answer) /\ DOMAIN trx'[c] = {}
  BY NoRowsLocked DEF TypeOK, GoTo, Rollback, Continues, Moves

\* A client's part of the invariant is about its own variables and the database.
LEMMA Unmoved ==
  ASSUME IInv, NEW d \in Clients,
         db' = db, trx'[d] = trx[d], call'[d] = call[d], pc'[d] = pc[d]
  PROVE  Working(d)'
  <1>1. /\ db' = db /\ trx'[d] = trx[d] /\ call'[d] = call[d] /\ pc'[d] = pc[d]
        /\ Working(d)
    BY DEF IInv
  <1>2. AtRest(d)'
    BY <1>1 DEF Working, AtRest, Locks
  <1>3. call[d].op = "CreateUser" => Registering(d)'
    BY <1>1 DEF Working, Registering, Locks, Exists, NewUser
  <1>4. call[d].op = "CreateOrder" => Uploading(d)'
    BY <1>1 DEF Working, Uploading, Locks, Exists
  <1>5. call[d].op = "WithdrawFunds" => Paying(d)'
    BY <1>1 DEF Working, Paying, Locks, Exists, BalanceRead, BalanceUpdated,
                Charged, DiffCurrent, DiffWithdrawn
  <1>6. Marking(d) => Marking(d)'
    BY <1>1 DEF Marking, Locks, Exists
  <1>7. call[d].op = "MarkOrderProcessing" => MarkingProcessing(d)'
    BY <1>1, <1>6 DEF Working, MarkingProcessing, Locks
  <1>8. call[d].op = "MarkOrderInvalid" => MarkingInvalid(d)'
    BY <1>1, <1>6 DEF Working, MarkingInvalid, Locks
  <1>9. call[d].op = "MarkOrderProcessed" => MarkingProcessed(d)'
    BY <1>1, <1>6 DEF Working, MarkingProcessed, Locks, BalanceRead, BalanceUpdated,
                Charged, DiffCurrent, DiffWithdrawn
  <1>10. call[d].op = "PostponeOrderProcessing" => Postponing(d)'
    BY <1>1 DEF Working, Postponing, Locks, Exists
  <1> QED  BY <1>1, <1>2, <1>3, <1>4, <1>5, <1>7, <1>8, <1>9, <1>10 DEF Working

\* What is left to show of such a step: what the client itself holds.
LEMMA MovePreserves ==
  ASSUME IInv, NEW c \in Clients, Moves(c), WellTyped(trx'[c]),
         \A r \in DOMAIN trx'[c] : r \in DOMAIN trx[c] \/ Available(c, r),
         call'[c] \in WorkerCalls => \A d \in Clients \ {c} :
           call[d] \in WorkerCalls => call[d].order # call'[c].order,
         Working(c)'
  PROVE  IInv'
  <1>1. TypeOK'
    BY DEF IInv, TypeOK, Moves, WellTyped
  <1>2. RowsTogether' /\ OwnersRegistered' /\ BalanceNeverNegative'
    BY DEF IInv, Moves, RowsTogether, OwnersRegistered, BalanceNeverNegative, Exists
  <1>3. LocksExclusive'
    <2> SUFFICES ASSUME NEW a \in Clients, NEW b \in Clients, a # b, NEW r,
                        r \in DOMAIN trx'[a], r \in DOMAIN trx'[b]
                 PROVE  FALSE
      BY DEF LocksExclusive
    <2>1. CASE a # c /\ b # c
      BY <2>1 DEF IInv, LocksExclusive, Moves
    <2>2. CASE a = c
      BY <2>2 DEF IInv, LocksExclusive, Moves, Available
    <2>3. CASE b = c
      BY <2>3 DEF IInv, LocksExclusive, Moves, Available
    <2> QED  BY <2>1, <2>2, <2>3
  <1>4. WorkersApart'
    <2> SUFFICES ASSUME NEW a \in Clients, NEW b \in Clients, a # b,
                        call'[a] \in WorkerCalls, call'[b] \in WorkerCalls
                 PROVE  call'[a].order # call'[b].order
      BY DEF WorkersApart
    <2>1. CASE a # c /\ b # c
      BY <2>1 DEF IInv, WorkersApart, Moves
    <2>2. CASE a = c
      BY <2>2 DEF Moves
    <2>3. CASE b = c
      BY <2>3 DEF Moves
    <2> QED  BY <2>1, <2>2, <2>3
  <1>5. \A d \in Clients : Working(d)'
    BY Unmoved DEF Moves
  <1> QED  BY <1>1, <1>2, <1>3, <1>4, <1>5 DEF IInv

\* A call that has failed, or was refused, has no transaction.
LEMMA FailurePreserves ==
  ASSUME IInv, NEW c \in Clients, NEW answer \in Answers \ {"ok"},
         Continues(c, answer), DOMAIN trx'[c] = {}, pc[c] # "idle"
  PROVE  IInv'
  <1>1. /\ db' = db /\ call'[c] = call[c] /\ pc'[c] = answer /\ Moves(c)
        /\ pc'[c] \in Answers /\ pc'[c] \notin {"ok", "idle"} /\ Working(c)
    BY DEF IInv, Continues, Moves, Answers
  <1>2. pc'[c] \notin Statements
    BY <1>1 DEF Answers, Statements
  <1>3. AtRest(c)'
    BY <1>1, <1>2 DEF Working, AtRest, Locks, Answers
  <1>4. call[c].op = "CreateUser" => Registering(c)'
    BY <1>1, <1>2 DEF Working, Registering, Statements
  <1>5. call[c].op = "CreateOrder" => Uploading(c)'
    BY <1>1, <1>2 DEF Working, Uploading, Statements, Exists
  <1>6. call[c].op = "WithdrawFunds" => Paying(c)'
    BY <1>1, <1>2 DEF Working, Paying, Statements, Exists
  <1>7. Marking(c) => Marking(c)'
    BY <1>1, <1>2 DEF Marking, Statements, Exists
  <1>8. call[c].op = "MarkOrderProcessing" => MarkingProcessing(c)'
    BY <1>1, <1>2, <1>7 DEF Working, MarkingProcessing, Statements
  <1>9. call[c].op = "MarkOrderInvalid" => MarkingInvalid(c)'
    BY <1>1, <1>2, <1>7 DEF Working, MarkingInvalid, Statements
  <1>10. call[c].op = "MarkOrderProcessed" => MarkingProcessed(c)'
    BY <1>1, <1>2, <1>7 DEF Working, MarkingProcessed, Statements
  <1>11. call[c].op = "PostponeOrderProcessing" => Postponing(c)'
    BY <1>1, <1>2 DEF Working, Postponing, Statements
  <1>12. Working(c)'
    BY <1>1, <1>3, <1>4, <1>5, <1>6, <1>8, <1>9, <1>10, <1>11 DEF Working
  <1>13. WellTyped(trx'[c])
    BY DEF WellTyped
  <1> QED  BY <1>1, <1>12, <1>13, MovePreserves DEF IInv, WorkersApart

LEMMA WritePreserves ==
  ASSUME IInv, NEW c \in Clients, NEW next, Continues(c, next),
         NEW r \in Rows, NEW value, value = NoRow \/ value \in Table[r[1]],
         Wrote(c, r, value), Working(c)'
  PROVE  IInv'
  <1>1. Moves(c) /\ call'[c] = call[c]
    BY DEF Continues
  <1>2. WellTyped(trx[c])
    BY DEF IInv, TypeOK
  <1>3. WellTyped(trx'[c])
    BY <1>2 DEF WellTyped, Wrote
  <1>4. \A s \in DOMAIN trx'[c] : s \in DOMAIN trx[c] \/ Available(c, s)
    BY DEF Wrote
  <1> QED  BY <1>1, <1>3, <1>4, MovePreserves DEF IInv, WorkersApart

-----------------------------------------------------------------------------
(* The statements *)

LEMMA OrderTyped ==
  ASSUME IInv, NEW o \in Orders, Exists(OrderRow(o))
  PROVE  db[OrderRow(o)] \in OrderType /\ db[OrderRow(o)].owner \in Users
  <1>1. WellTyped(db) /\ DOMAIN db = Rows
    BY DEF IInv, TypeOK
  <1> QED  BY <1>1, TypedRows, RowsAre DEF Typed, OrderType, Exists

\* The operation a statement belongs to, and what is locked before it.
LEMMA StatementOf ==
  ASSUME IInv, NEW c \in Clients
  PROVE  /\ Working(c) /\ call[c] \in Calls \cup {NoCall}
         /\ pc[c] \in {"findUser", "insertUser", "insertBalance"} =>
              call[c].op = "CreateUser"
         /\ pc[c] \in {"findOrder", "insertOrder", "insertProcessable"} =>
              call[c].op = "CreateOrder"
         /\ pc[c] = "insertWithdrawal" => call[c].op = "WithdrawFunds"
         /\ pc[c] = "setOrderStatus" =>
              call[c].op \in {"MarkOrderProcessing", "MarkOrderInvalid", "MarkOrderProcessed"}
         /\ pc[c] = "setAccrual" => call[c].op = "MarkOrderProcessed"
         /\ pc[c] = "removeProcessable" =>
              call[c].op \in {"MarkOrderInvalid", "MarkOrderProcessed"}
         /\ pc[c] = "postpone" => call[c].op = "PostponeOrderProcessing"
         /\ pc[c] \in {"lockBalance", "updateBalance"} =>
              call[c].op \in {"WithdrawFunds", "MarkOrderProcessed"}
  <1>1. Working(c) /\ call[c] \in Calls \cup {NoCall}
    BY DEF IInv, TypeOK
  <1>2. call[c].op \in {"none", "CreateUser", "CreateOrder", "WithdrawFunds",
                      "MarkOrderProcessing", "MarkOrderInvalid", "MarkOrderProcessed",
                      "PostponeOrderProcessing"}
    BY <1>1, CallTypes
  <1>3. call[c].op = "none" => pc[c] = "idle"
    BY <1>1, CallTypes DEF Working, AtRest
  <1>4. /\ call[c].op = "CreateUser" =>
             pc[c] \in {"findUser", "insertUser", "insertBalance", "commit"} \cup Answers
        /\ call[c].op = "CreateOrder" =>
             pc[c] \in {"findOrder", "insertOrder", "insertProcessable", "commit"} \cup Answers
        /\ call[c].op = "WithdrawFunds" =>
             pc[c] \in {"lockBalance", "updateBalance", "insertWithdrawal", "commit"} \cup Answers
        /\ call[c].op = "MarkOrderProcessing" =>
             pc[c] \in {"setOrderStatus", "commit"} \cup Answers
        /\ call[c].op = "MarkOrderInvalid" =>
             pc[c] \in {"setOrderStatus", "removeProcessable", "commit"} \cup Answers
        /\ call[c].op = "MarkOrderProcessed" =>
             pc[c] \in {"setOrderStatus", "setAccrual", "lockBalance", "updateBalance",
                        "removeProcessable", "commit"} \cup Answers
        /\ call[c].op = "PostponeOrderProcessing" =>
             pc[c] \in {"postpone", "commit"} \cup Answers
    BY <1>1 DEF Working, Registering, Uploading, Paying, MarkingProcessing,
                MarkingInvalid, MarkingProcessed, Postponing
  <1> QED  BY <1>1, <1>2, <1>3, <1>4 DEF Answers

LEMMA FindUserPreserves ==
  ASSUME IInv, NEW c \in Clients, FindUser(c) PROVE IInv'
  <1>1. TypeOK
    BY DEF IInv
  <1>2. call[c].op = "CreateUser" /\ Working(c) /\ pc[c] = "findUser"
    BY StatementOf DEF FindUser
  <1>3. Registering(c) /\ DOMAIN trx[c] = {}
    BY <1>2 DEF Working, Registering, Locks
  <1>4. CASE Exists(UserRow(call[c].user))
    <2>1. Continues(c, "conflict") /\ trx'[c] = trx[c]
      BY <1>1, <1>4, GoToKeeps DEF FindUser, Answers
    <2> QED  BY <2>1, <1>2, <1>3, FailurePreserves DEF Answers
  <1>5. CASE ~Exists(UserRow(call[c].user))
    <2>1. Continues(c, "insertUser") /\ trx'[c] = trx[c]
      BY <1>1, <1>5, GoToKeeps DEF FindUser, Statements
    <2>2. Working(c)'
      BY <2>1, <1>2, <1>3 DEF Continues, Working, AtRest, Registering, Locks, Answers
    <2> QED  BY <2>1, <2>2, <1>3, MovePreserves DEF Continues, IInv, WorkersApart, WellTyped
  <1> QED  BY <1>4, <1>5

LEMMA InsertUserPreserves ==
  ASSUME IInv, NEW c \in Clients, InsertUser(c) PROVE IInv'
  <1> DEFINE u == call[c].user
             r == UserRow(u)
  <1>1. TypeOK /\ call[c].op = "CreateUser" /\ Working(c) /\ pc[c] = "insertUser"
    BY StatementOf DEF InsertUser, IInv
  <1>2. Registering(c) /\ DOMAIN trx[c] = {} /\ u \in Users /\ call[c].password \in Passwords
    BY <1>1, StatementOf, CallTypes DEF Working, Registering, Locks
  <1>3. CASE Rollback(c, "error")
    BY <1>1, <1>3, RollbackClears, FailurePreserves DEF Answers
  <1>4. CASE Seen(c, r) = NoRow /\ Write(c, r, NewUser(c)) /\ GoTo(c, "insertBalance")
    <2>1. Continues(c, "insertBalance") /\ Wrote(c, r, NewUser(c))
      BY <1>1, <1>4, GoToWrites DEF Statements
    <2>2. ~Exists(r)
      BY <1>2, <1>4 DEF Seen, Exists
    <2>3. Working(c)'
      BY <2>1, <2>2, <1>1, <1>2
         DEF Continues, Moves, Wrote, Working, AtRest, Registering, Locks, Answers, Exists, NewUser
    <2>4. r \in Rows /\ NewUser(c) \in Table[r[1]]
      BY <1>2, RowsAre, TableIs DEF NewUser, UserType
    <2> QED  BY <2>1, <2>3, <2>4, WritePreserves
  <1> QED  BY <1>3, <1>4 DEF InsertUser, Insert

LEMMA InsertBalancePreserves ==
  ASSUME IInv, NEW c \in Clients, InsertBalance(c) PROVE IInv'
  <1> DEFINE u == call[c].user
             r == BalanceRow(u)
             row == [current |-> 0, withdrawn |-> 0]
  <1>1. TypeOK /\ call[c].op = "CreateUser" /\ Working(c) /\ pc[c] = "insertBalance"
    BY StatementOf DEF InsertBalance, IInv
  <1>2. Registering(c) /\ DOMAIN trx[c] = {UserRow(u)} /\ u \in Users
    BY <1>1, StatementOf, CallTypes DEF Working, Registering, Locks
  <1>3. Continues(c, "commit") /\ Wrote(c, r, row)
    BY <1>1, GoToWrites DEF InsertBalance, Statements
  <1>4. UserRow(u) # r
    BY RowsDiffer
  <1>5. Working(c)'
    BY <1>1, <1>2, <1>3, <1>4
       DEF Continues, Moves, Wrote, Working, AtRest, Registering, Locks, Answers, Exists, NewUser
  <1>6. row \in BalanceType
    BY DEF BalanceType
  <1>7. r \in Rows /\ row \in Table[r[1]]
    BY <1>2, <1>6, RowsAre, TableIs
  <1> QED  BY <1>3, <1>5, <1>7, WritePreserves

LEMMA FindOrderPreserves ==
  ASSUME IInv, NEW c \in Clients, FindOrder(c) PROVE IInv'
  <1>1. TypeOK
    BY DEF IInv
  <1>2. call[c].op = "CreateOrder" /\ Working(c) /\ pc[c] = "findOrder"
    BY StatementOf DEF FindOrder
  <1>3. Uploading(c) /\ DOMAIN trx[c] = {}
    BY <1>2 DEF Working, Uploading, Locks
  <1>4. CASE Exists(OrderRow(call[c].order))
    <2>1. Continues(c, "exists") /\ trx'[c] = trx[c]
      BY <1>1, <1>4, GoToKeeps DEF FindOrder, Answers
    <2> QED  BY <2>1, <1>2, <1>3, FailurePreserves DEF Answers
  <1>5. CASE ~Exists(OrderRow(call[c].order))
    <2>1. Continues(c, "insertOrder") /\ trx'[c] = trx[c]
      BY <1>1, <1>5, GoToKeeps DEF FindOrder, Statements
    <2>2. Working(c)'
      BY <2>1, <1>2, <1>3
         DEF Continues, Moves, Working, AtRest, Uploading, Locks, Answers, Exists
    <2> QED  BY <2>1, <2>2, <1>3, MovePreserves DEF Continues, IInv, WorkersApart, WellTyped
  <1> QED  BY <1>4, <1>5

LEMMA InsertOrderPreserves ==
  ASSUME IInv, NEW c \in Clients, InsertOrder(c) PROVE IInv'
  <1> DEFINE r == OrderRow(call[c].order)
             row == [owner |-> call[c].user, status |-> "NEW"]
  <1>1. TypeOK /\ call[c].op = "CreateOrder" /\ Working(c) /\ pc[c] = "insertOrder"
    BY StatementOf DEF InsertOrder, IInv
  <1>2. /\ Uploading(c) /\ DOMAIN trx[c] = {}
        /\ call[c].user \in Users /\ call[c].order \in Orders
    BY <1>1, StatementOf, CallTypes DEF Working, Uploading, Locks
  <1>3. CASE Rollback(c, "error")
    BY <1>1, <1>3, RollbackClears, FailurePreserves DEF Answers
  <1>4. CASE Seen(c, r) = NoRow /\ Write(c, r, row) /\ GoTo(c, "insertProcessable")
    <2>1. Continues(c, "insertProcessable") /\ Wrote(c, r, row)
      BY <1>1, <1>4, GoToWrites DEF Statements
    <2>2. ~Exists(r)
      BY <1>2, <1>4 DEF Seen, Exists
    <2>3. Working(c)'
      BY <2>1, <2>2, <1>1, <1>2
         DEF Continues, Moves, Wrote, Working, AtRest, Uploading, Locks, Answers, Exists
    <2>4. row \in OrderType
      BY <1>2 DEF OrderType, Statuses, Processable
    <2>5. r \in Rows /\ row \in Table[r[1]]
      BY <1>2, <2>4, RowsAre, TableIs
    <2> QED  BY <2>1, <2>3, <2>5, WritePreserves
  <1> QED  BY <1>3, <1>4 DEF InsertOrder, Insert

LEMMA InsertProcessablePreserves ==
  ASSUME IInv, NEW c \in Clients, InsertProcessable(c) PROVE IInv'
  <1> DEFINE o == call[c].order
             r == QueueRow(o)
             row == [order |-> o]
  <1>1. TypeOK /\ call[c].op = "CreateOrder" /\ Working(c) /\ pc[c] = "insertProcessable"
    BY StatementOf DEF InsertProcessable, IInv
  <1>2. Uploading(c) /\ DOMAIN trx[c] = {OrderRow(o)} /\ o \in Orders
    BY <1>1, StatementOf, CallTypes DEF Working, Uploading, Locks
  <1>3. Continues(c, "commit") /\ Wrote(c, r, row)
    BY <1>1, GoToWrites DEF InsertProcessable, Statements
  <1>4. OrderRow(o) # r
    BY RowsDiffer
  <1>5. Working(c)'
    BY <1>1, <1>2, <1>3, <1>4
       DEF Continues, Moves, Wrote, Working, AtRest, Uploading, Locks, Answers, Exists
  <1>6. row \in QueueType
    BY <1>2 DEF QueueType
  <1>7. r \in Rows /\ row \in Table[r[1]]
    BY <1>2, <1>6, RowsAre, TableIs
  <1> QED  BY <1>3, <1>5, <1>7, WritePreserves

\* What is known of the order of a call that marks it.
LEMMA MarkedOrder ==
  ASSUME IInv, NEW c \in Clients, pc[c] \notin Answers,
         call[c].op \in {"MarkOrderProcessing", "MarkOrderInvalid", "MarkOrderProcessed"}
  PROVE  LET o == call[c].order
         IN  /\ Marking(c) /\ o \in Orders
             /\ db[OrderRow(o)] \in OrderType /\ db[OrderRow(o)].owner \in Users
             /\ Exists(BalanceRow(db[OrderRow(o)].owner))
             /\ db[BalanceRow(db[OrderRow(o)].owner)] \in BalanceType
             /\ db[BalanceRow(db[OrderRow(o)].owner)].current >= 0
             /\ db[OrderRow(o)].status \in Processable
             /\ Exists(QueueRow(o)) /\ ~Exists(AccrualRow(o))
  <1> DEFINE o == call[c].order
             u == db[OrderRow(o)].owner
  <1>1. Working(c) /\ call[c] \in Calls \cup {NoCall} /\ WellTyped(db) /\ DOMAIN db = Rows
    BY DEF IInv, TypeOK
  <1>2. Marking(c) /\ o \in Orders
    BY <1>1, CallTypes DEF Working, MarkingProcessing, MarkingInvalid, MarkingProcessed
  <1>3. Exists(OrderRow(o)) /\ db[OrderRow(o)].status \in Processable
    BY <1>2 DEF Marking
  <1>4. db[OrderRow(o)] \in OrderType /\ u \in Users
    BY <1>2, <1>3, OrderTyped
  <1>5. Exists(BalanceRow(u)) /\ db[BalanceRow(u)].current >= 0
    BY <1>2, <1>3, <1>4 DEF IInv, OwnersRegistered, RowsTogether, BalanceNeverNegative
  <1>6. db[BalanceRow(u)] \in BalanceType
    BY <1>1, <1>4, <1>5, TypedRows, RowsAre DEF Typed, Exists
  <1>7. Exists(QueueRow(o)) /\ ~Exists(AccrualRow(o))
    BY <1>2, <1>3 DEF IInv, RowsTogether, Processable
  <1> QED  BY <1>2, <1>3, <1>4, <1>5, <1>6, <1>7

LEMMA SetOrderStatusPreserves ==
  ASSUME IInv, NEW c \in Clients, SetOrderStatus(c) PROVE IInv'
  <1> DEFINE o == call[c].order
             r == OrderRow(o)
             op == call[c].op
             row == [db[r] EXCEPT !.status = NewStatus[op]]
             next == AfterStatus[op]
  <1>1. /\ TypeOK /\ Working(c) /\ pc[c] = "setOrderStatus"
        /\ op \in {"MarkOrderProcessing", "MarkOrderInvalid", "MarkOrderProcessed"}
    BY StatementOf DEF SetOrderStatus, IInv
  <1>2. /\ Marking(c) /\ DOMAIN trx[c] = {} /\ o \in Orders
        /\ db[r] \in OrderType /\ db[r].status \in Processable /\ Exists(r)
    BY <1>1, MarkedOrder DEF Marking, Locks, Answers
  <1>3. next \in Statements /\ NewStatus[op] \in Statuses /\ pc[c] \notin Answers
    BY <1>1 DEF AfterStatus, NewStatus, Statuses, Processable, Statements, Answers
  <1>4. Seen(c, r) = db[r]
    BY <1>2 DEF Seen
  <1>5. Continues(c, next) /\ Wrote(c, r, row)
    BY <1>1, <1>3, <1>4, GoToWrites DEF SetOrderStatus
  <1>6. /\ pc'[c] = next /\ call'[c] = call[c] /\ db' = db /\ DOMAIN trx'[c] = {r}
        /\ trx'[c][r] = row
    BY <1>2, <1>5 DEF Continues, Moves, Wrote
  <1>7. AtRest(c)'
    BY <1>1, <1>3, <1>6 DEF Working, AtRest, Locks, Statements, Answers
  <1>8. Marking(c)'
    BY <1>1, <1>2, <1>3, <1>6 DEF Marking, Exists, AfterStatus
  <1>9. Working(c)'
    <2>1. CASE op = "MarkOrderProcessing"
      <3>1. next = "commit"
        BY <2>1 DEF AfterStatus
      <3> QED  BY <2>1, <3>1, <1>6, <1>7, <1>8 DEF Working, MarkingProcessing, Locks
    <2>2. CASE op = "MarkOrderInvalid"
      <3>1. next = "removeProcessable"
        BY <2>2 DEF AfterStatus
      <3> QED  BY <2>2, <3>1, <1>6, <1>7, <1>8 DEF Working, MarkingInvalid, Locks
    <2>3. CASE op = "MarkOrderProcessed"
      <3>1. next = "setAccrual"
        BY <2>3 DEF AfterStatus
      <3> QED  BY <2>3, <3>1, <1>6, <1>7, <1>8 DEF Working, MarkingProcessed, Locks
    <2> QED  BY <1>1, <2>1, <2>2, <2>3
  <1>10. row \in OrderType
    BY <1>2, <1>3 DEF OrderType
  <1>11. r \in Rows /\ row \in Table[r[1]]
    BY <1>2, <1>10, RowsAre, TableIs
  <1> QED  BY <1>5, <1>9, <1>11, WritePreserves

LEMMA SetAccrualPointsPreserves ==
  ASSUME IInv, NEW c \in Clients, SetAccrualPoints(c) PROVE IInv'
  <1> DEFINE o == call[c].order
             r == AccrualRow(o)
             row == Column(call[c].amount)
  <1>1. TypeOK /\ Working(c) /\ pc[c] = "setAccrual" /\ call[c].op = "MarkOrderProcessed"
    BY StatementOf DEF SetAccrualPoints, IInv
  <1>2. MarkingProcessed(c) /\ Marking(c) /\ DOMAIN trx[c] = {OrderRow(o)}
    BY <1>1 DEF Working, MarkingProcessed, Locks
  <1>3. o \in Orders /\ row \in Nat
    BY <1>1, StatementOf, CallTypes, ColumnNat
  <1>4. Continues(c, "lockBalance") /\ Wrote(c, r, row)
    BY <1>1, GoToWrites DEF SetAccrualPoints, Statements
  <1>5. OrderRow(o) # r
    BY RowsDiffer
  <1>6. /\ pc'[c] = "lockBalance" /\ call'[c] = call[c] /\ db' = db
        /\ DOMAIN trx'[c] = {OrderRow(o), r} /\ trx'[c][r] = row
        /\ trx'[c][OrderRow(o)] = trx[c][OrderRow(o)]
    BY <1>2, <1>4, <1>5 DEF Continues, Moves, Wrote
  <1>7. AtRest(c)'
    BY <1>1, <1>6 DEF Working, AtRest, Answers
  <1>8. Marking(c)'
    BY <1>1, <1>2, <1>6 DEF Marking, Exists, Answers
  <1>9. Working(c)'
    BY <1>1, <1>2, <1>6, <1>7, <1>8 DEF Working, MarkingProcessed, Locks
  <1>10. r \in Rows /\ row \in Table[r[1]]
    BY <1>3, RowsAre, TableIs
  <1> QED  BY <1>4, <1>9, <1>10, WritePreserves

LEMMA RemoveProcessableOrderPreserves ==
  ASSUME IInv, NEW c \in Clients, RemoveProcessableOrder(c) PROVE IInv'
  <1> DEFINE o == call[c].order
             r == QueueRow(o)
             b == BalanceRow(db[OrderRow(o)].owner)
  <1>1. /\ TypeOK /\ Working(c) /\ pc[c] = "removeProcessable"
        /\ call[c].op \in {"MarkOrderInvalid", "MarkOrderProcessed"}
    BY StatementOf DEF RemoveProcessableOrder, IInv
  <1>2. Marking(c) /\ o \in Orders
    BY <1>1, MarkedOrder DEF Answers
  <1>3. Continues(c, "commit") /\ Wrote(c, r, NoRow)
    BY <1>1, GoToWrites DEF RemoveProcessableOrder, Statements
  <1>4. r \notin {OrderRow(o), AccrualRow(o), b}
    BY RowsDiffer
  <1>5. /\ pc'[c] = "commit" /\ call'[c] = call[c] /\ db' = db
        /\ DOMAIN trx'[c] = DOMAIN trx[c] \cup {r} /\ trx'[c][r] = NoRow
        /\ \A s \in DOMAIN trx[c] : s # r => trx'[c][s] = trx[c][s]
    BY <1>3 DEF Continues, Moves, Wrote
  <1>6. AtRest(c)'
    BY <1>1, <1>5 DEF Working, AtRest, Answers
  <1>7. OrderRow(o) \in DOMAIN trx[c]
    BY <1>1 DEF Working, MarkingInvalid, MarkingProcessed, Locks
  <1>8. Marking(c)'
    BY <1>1, <1>2, <1>4, <1>5, <1>7 DEF Marking, Exists, Answers
  <1>9. Working(c)'
    <2>1. CASE call[c].op = "MarkOrderInvalid"
      <3>1. DOMAIN trx[c] = {OrderRow(o)}
        BY <1>1, <2>1 DEF Working, MarkingInvalid, Locks
      <3>2. MarkingInvalid(c)'
        BY <1>5, <1>8, <3>1 DEF MarkingInvalid, Locks
      <3> QED  BY <1>5, <1>6, <2>1, <3>2 DEF Working
    <2>2. CASE call[c].op = "MarkOrderProcessed"
      <3>1. /\ MarkingProcessed(c) /\ DOMAIN trx[c] = {OrderRow(o), AccrualRow(o), b}
            /\ BalanceUpdated(c, b) /\ trx[c][AccrualRow(o)] = Column(call[c].amount)
        BY <1>1, <2>2 DEF Working, MarkingProcessed, Locks
      <3>2. BalanceUpdated(c, b)'
        BY <1>4, <1>5, <3>1 DEF BalanceUpdated, Charged, DiffCurrent, DiffWithdrawn
      <3>3. MarkingProcessed(c)'
        BY <1>4, <1>5, <1>8, <3>1, <3>2 DEF MarkingProcessed, Locks
      <3> QED  BY <1>5, <1>6, <2>2, <3>3 DEF Working
    <2> QED  BY <1>1, <2>1, <2>2
  <1>10. r \in Rows
    BY <1>2, RowsAre
  <1> QED  BY <1>3, <1>9, <1>10, WritePreserves

LEMMA PostponeOrderProcessingPreserves ==
  ASSUME IInv, NEW c \in Clients, PostponeOrderProcessing(c) PROVE IInv'
  <1> DEFINE r == QueueRow(call[c].order)
  <1>1. TypeOK /\ call[c].op = "PostponeOrderProcessing" /\ Working(c) /\ pc[c] = "postpone"
    BY StatementOf DEF PostponeOrderProcessing, IInv
  <1>2. Postponing(c) /\ DOMAIN trx[c] = {} /\ call[c].order \in Orders
    BY <1>1, StatementOf, CallTypes DEF Working, Postponing, Locks
  <1>3. CASE Rollback(c, "error")
    BY <1>1, <1>3, RollbackClears, FailurePreserves DEF Answers
  <1>4. CASE Exists(r) /\ Write(c, r, Seen(c, r)) /\ GoTo(c, "commit")
    <2>1. Seen(c, r) = db[r]
      BY <1>2 DEF Seen
    <2>2. Continues(c, "commit") /\ Wrote(c, r, db[r])
      BY <1>1, <1>4, <2>1, GoToWrites DEF Statements
    <2>3. Working(c)'
      BY <2>2, <1>1, <1>2, <1>4
         DEF Continues, Moves, Wrote, Working, AtRest, Postponing, Locks, Answers, Exists
    <2>4. r \in Rows /\ (db[r] = NoRow \/ db[r] \in Table[r[1]])
      BY <1>1, <1>2, RowsAre DEF TypeOK, WellTyped
    <2> QED  BY <2>2, <2>3, <2>4, WritePreserves
  <1> QED  BY <1>3, <1>4 DEF PostponeOrderProcessing

\* The balance that a payment or an accrual changes is there, and not negative.
LEMMA BalanceOfCall ==
  ASSUME IInv, NEW c \in Clients, pc[c] \notin Answers,
         call[c].op \in {"WithdrawFunds", "MarkOrderProcessed"}
  PROVE  LET r == BalanceRow(BalanceOwner(c))
         IN  /\ BalanceOwner(c) \in Users /\ r \in Rows
             /\ Exists(r) /\ db[r] \in BalanceType /\ db[r].current \in Nat
             /\ DiffCurrent(c) \in Int /\ DiffWithdrawn(c) \in Nat
  <1> DEFINE u == BalanceOwner(c)
             r == BalanceRow(u)
  <1>1. Working(c) /\ call[c] \in Calls \cup {NoCall} /\ WellTyped(db) /\ DOMAIN db = Rows
    BY DEF IInv, TypeOK
  <1>2. CASE call[c].op = "WithdrawFunds"
    <2>1. u = call[c].user /\ u \in Users /\ call[c].amount \in Nat
      BY <1>1, <1>2, CallTypes DEF BalanceOwner
    <2>2. Exists(UserRow(u))
      BY <1>1, <1>2, <2>1 DEF Working, Paying
    <2>3. Exists(r) /\ db[r].current >= 0
      BY <2>1, <2>2 DEF IInv, RowsTogether, BalanceNeverNegative
    <2>4. r \in Rows /\ db[r] \in BalanceType
      BY <1>1, <2>1, <2>3, TypedRows, RowsAre DEF Typed, Exists
    <2> QED  BY <1>2, <2>1, <2>3, <2>4 DEF BalanceType, DiffCurrent, DiffWithdrawn
  <1>3. CASE call[c].op = "MarkOrderProcessed"
    <2>1. u = db[OrderRow(call[c].order)].owner /\ call[c].amount \in Nat
      BY <1>1, <1>3, CallTypes DEF BalanceOwner
    <2>2. u \in Users /\ Exists(r) /\ db[r] \in BalanceType /\ db[r].current >= 0
      BY <1>3, <2>1, MarkedOrder
    <2>3. r \in Rows
      BY <2>2, RowsAre
    <2> QED  BY <1>3, <2>1, <2>2, <2>3 DEF BalanceType, DiffCurrent, DiffWithdrawn
  <1> QED  BY <1>2, <1>3

LEMMA ChargedTyped ==
  ASSUME NEW c, NEW r, db[r] \in BalanceType, db[r].current \in Nat,
         DiffCurrent(c) \in Int, DiffWithdrawn(c) \in Nat
  PROVE  Charged(c, r) \in BalanceType
  <1>1. db[r].withdrawn \in Nat /\ Grid \in Nat
    BY StorageAssumption DEF BalanceType
  <1>2. /\ db[r].current * Grid + DiffCurrent(c) \in Int
        /\ db[r].withdrawn * Grid + DiffWithdrawn(c) \in Nat
    BY <1>1, Z3
  <1> QED  BY <1>2, ColumnInt, ColumnNat DEF Charged, BalanceType

LEMMA LockBalancePreserves ==
  ASSUME IInv, NEW c \in Clients, LockBalance(c) PROVE IInv'
  <1> DEFINE r == BalanceRow(BalanceOwner(c))
             o == call[c].order
  <1>1. /\ TypeOK /\ Working(c) /\ pc[c] = "lockBalance"
        /\ call[c].op \in {"WithdrawFunds", "MarkOrderProcessed"}
    BY StatementOf DEF LockBalance, IInv
  <1>2. r \in Rows /\ db[r] \in BalanceType
    BY <1>1, BalanceOfCall DEF Answers
  <1>3. CASE Rollback(c, "notEnough")
    BY <1>1, <1>3, RollbackClears, FailurePreserves DEF Answers
  <1>4. CASE Write(c, r, Seen(c, r)) /\ GoTo(c, "updateBalance")
    <2>1. Continues(c, "updateBalance") /\ Wrote(c, r, Seen(c, r))
      BY <1>1, <1>4, GoToWrites DEF Statements
    <2>2. /\ pc'[c] = "updateBalance" /\ call'[c] = call[c] /\ db' = db
          /\ DOMAIN trx'[c] = DOMAIN trx[c] \cup {r} /\ trx'[c][r] = Seen(c, r)
          /\ \A s \in DOMAIN trx[c] : s # r => trx'[c][s] = trx[c][s]
      BY <2>1 DEF Continues, Moves, Wrote
    <2>3. AtRest(c)'
      BY <1>1, <2>2 DEF Working, AtRest, Answers
    <2>4. Working(c)' /\ Seen(c, r) = db[r]
      <3>1. CASE call[c].op = "WithdrawFunds"
        <4>1. Paying(c) /\ DOMAIN trx[c] = {} /\ r = BalanceRow(call[c].user)
          BY <1>1, <3>1 DEF Working, Paying, Locks, BalanceOwner
        <4>2. Seen(c, r) = db[r]
          BY <4>1 DEF Seen
        <4>3. Paying(c)'
          BY <2>2, <4>1, <4>2 DEF Paying, Locks, BalanceRead, Exists, Answers
        <4> QED  BY <2>2, <2>3, <3>1, <4>2, <4>3 DEF Working
      <3>2. CASE call[c].op = "MarkOrderProcessed"
        <4>1. /\ MarkingProcessed(c) /\ Marking(c)
              /\ DOMAIN trx[c] = {OrderRow(o), AccrualRow(o)}
              /\ trx[c][AccrualRow(o)] = Column(call[c].amount)
              /\ r = BalanceRow(db[OrderRow(o)].owner)
          BY <1>1, <3>2 DEF Working, MarkingProcessed, Locks, BalanceOwner
        <4>2. r \notin {OrderRow(o), AccrualRow(o)}
          BY RowsDiffer
        <4>3. Seen(c, r) = db[r]
          BY <4>1, <4>2 DEF Seen
        <4>4. Marking(c)'
          BY <1>1, <2>2, <4>1, <4>2 DEF Marking, Exists, Answers
        <4>5. MarkingProcessed(c)'
          BY <2>2, <4>1, <4>2, <4>3, <4>4 DEF MarkingProcessed, Locks, BalanceRead
        <4> QED  BY <2>2, <2>3, <3>2, <4>3, <4>5 DEF Working
      <3> QED  BY <1>1, <3>1, <3>2
    <2>5. Seen(c, r) \in Table[r[1]]
      BY <1>1, <1>2, <2>4, BalanceOfCall, RowsAre, TableIs DEF Answers
    <2> QED  BY <1>2, <2>1, <2>4, <2>5, WritePreserves
  <1> QED  BY <1>3, <1>4 DEF LockBalance

LEMMA UpdateBalancePreserves ==
  ASSUME IInv, NEW c \in Clients, UpdateBalance(c) PROVE IInv'
  <1> DEFINE r == BalanceRow(BalanceOwner(c))
             o == call[c].order
             next == IF call[c].op = "WithdrawFunds" THEN "insertWithdrawal"
                                                     ELSE "removeProcessable"
  <1>1. /\ TypeOK /\ Working(c) /\ pc[c] = "updateBalance"
        /\ call[c].op \in {"WithdrawFunds", "MarkOrderProcessed"}
    BY StatementOf DEF UpdateBalance, IInv
  <1>2. /\ r \in Rows /\ db[r] \in BalanceType /\ db[r].current \in Nat
        /\ r[1] = "balances" /\ DiffCurrent(c) \in Int /\ DiffWithdrawn(c) \in Nat
    BY <1>1, BalanceOfCall, RowsAre DEF Answers
  <1>3. trx[c][r] = db[r] /\ r \in DOMAIN trx[c]
    <2>1. CASE call[c].op = "WithdrawFunds"
      BY <1>1, <2>1 DEF Working, Paying, Locks, BalanceRead, BalanceOwner
    <2>2. CASE call[c].op = "MarkOrderProcessed"
      BY <1>1, <2>2 DEF Working, MarkingProcessed, Locks, BalanceRead, BalanceOwner
    <2> QED  BY <1>1, <2>1, <2>2
  <1>4. Seen(c, r) = db[r]
    BY <1>3 DEF Seen
  <1>5. CASE Rollback(c, "notEnough")
    BY <1>1, <1>5, RollbackClears, FailurePreserves DEF Answers
  <1>6. CASE Charged(c, r).current >= 0 /\ Write(c, r, Charged(c, r)) /\ GoTo(c, next)
    <2>1. Continues(c, next) /\ Wrote(c, r, Charged(c, r))
      BY <1>1, <1>6, GoToWrites DEF Statements
    <2>2. /\ pc'[c] = next /\ call'[c] = call[c] /\ db' = db
          /\ DOMAIN trx'[c] = DOMAIN trx[c] /\ trx'[c][r] = Charged(c, r)
          /\ \A s \in DOMAIN trx[c] : s # r => trx'[c][s] = trx[c][s]
      BY <1>3, <2>1 DEF Continues, Moves, Wrote
    <2>3. AtRest(c)'
      BY <1>1, <2>2 DEF Working, AtRest, Answers
    <2>4. Charged(c, r)' = Charged(c, r)
      BY <2>2 DEF Charged, DiffCurrent, DiffWithdrawn, BalanceOwner
    <2>5. Working(c)'
      <3>1. CASE call[c].op = "WithdrawFunds"
        <4>1. Paying(c) /\ DOMAIN trx[c] = {r} /\ r = BalanceRow(call[c].user)
          BY <1>1, <3>1 DEF Working, Paying, Locks, BalanceOwner
        <4>2. BalanceUpdated(c, BalanceRow(call[c].user))'
          BY <1>6, <2>2, <4>1 DEF BalanceUpdated, Charged, DiffCurrent, DiffWithdrawn
        <4>3. Paying(c)'
          BY <2>2, <3>1, <4>1, <4>2 DEF Paying, Locks, Exists, Answers
        <4> QED  BY <2>2, <2>3, <3>1, <4>3 DEF Working
      <3>2. CASE call[c].op = "MarkOrderProcessed"
        <4>1. /\ MarkingProcessed(c) /\ Marking(c)
              /\ DOMAIN trx[c] = {OrderRow(o), AccrualRow(o), r}
              /\ trx[c][AccrualRow(o)] = Column(call[c].amount)
              /\ r = BalanceRow(db[OrderRow(o)].owner)
          BY <1>1, <3>2 DEF Working, MarkingProcessed, Locks, BalanceOwner
        <4>2. r \notin {OrderRow(o), AccrualRow(o)}
          BY RowsDiffer
        <4>3. next = "removeProcessable"
          BY <3>2
        <4>4. Marking(c)'
          BY <1>1, <2>2, <4>1, <4>2, <4>3 DEF Marking, Exists, Answers
        <4>5. BalanceUpdated(c, BalanceRow(db[OrderRow(o)].owner))'
          BY <1>6, <2>2, <4>1 DEF BalanceUpdated, Charged, DiffCurrent, DiffWithdrawn
        <4>6. MarkingProcessed(c)'
          BY <2>2, <4>1, <4>2, <4>3, <4>4, <4>5 DEF MarkingProcessed, Locks
        <4> QED  BY <2>2, <2>3, <3>2, <4>6 DEF Working
      <3> QED  BY <1>1, <3>1, <3>2
    <2>6. Charged(c, r) \in Table[r[1]]
      BY <1>2, ChargedTyped, TableIs
    <2> QED  BY <1>2, <2>1, <2>5, <2>6, WritePreserves
  <1>7. \/ Rollback(c, "notEnough")
        \/ Charged(c, r).current >= 0 /\ Write(c, r, Charged(c, r)) /\ GoTo(c, next)
    <2>1. Charged(c, r).current = Column(Seen(c, r).current * Grid + DiffCurrent(c))
      BY <1>4 DEF Charged
    <2> QED  BY <1>4, <2>1 DEF UpdateBalance, Charged
  <1> QED  BY <1>5, <1>6, <1>7

LEMMA AddWithdrawalTransactionPreserves ==
  ASSUME IInv, NEW c \in Clients, AddWithdrawalTransaction(c) PROVE IInv'
  <1> DEFINE u == call[c].user
             b == BalanceRow(u)
             r == PaymentRow(call[c].order)
             row == [user |-> u, amount |-> Column(call[c].amount)]
  <1>1. TypeOK /\ call[c].op = "WithdrawFunds" /\ Working(c) /\ pc[c] = "insertWithdrawal"
    BY StatementOf DEF AddWithdrawalTransaction, IInv
  <1>2. /\ Paying(c) /\ DOMAIN trx[c] = {b} /\ BalanceUpdated(c, b)
        /\ u \in Users /\ call[c].order \in Purchases /\ call[c].amount \in Nat
    BY <1>1, StatementOf, CallTypes DEF Working, Paying, Locks
  <1>3. b # r
    BY RowsDiffer
  <1>4. CASE Rollback(c, "error")
    BY <1>1, <1>4, RollbackClears, FailurePreserves DEF Answers
  <1>5. CASE Seen(c, r) = NoRow /\ Write(c, r, row) /\ GoTo(c, "commit")
    <2>1. Continues(c, "commit") /\ Wrote(c, r, row)
      BY <1>1, <1>5, GoToWrites DEF Statements
    <2>2. /\ pc'[c] = "commit" /\ call'[c] = call[c] /\ db' = db
          /\ DOMAIN trx'[c] = {b, r} /\ trx'[c][r] = row /\ trx'[c][b] = trx[c][b]
      BY <1>2, <1>3, <2>1 DEF Continues, Moves, Wrote
    <2>3. AtRest(c)'
      BY <1>1, <2>2 DEF Working, AtRest, Answers
    <2>4. ~Exists(r)
      BY <1>2, <1>3, <1>5 DEF Seen, Exists
    <2>5. BalanceUpdated(c, b)'
      BY <1>2, <2>2 DEF BalanceUpdated, Charged, DiffCurrent, DiffWithdrawn
    <2>6. Paying(c)'
      BY <1>2, <2>2, <2>4, <2>5 DEF Paying, Locks, Exists, Answers
    <2>7. Working(c)'
      BY <1>1, <2>2, <2>3, <2>6 DEF Working
    <2>8. row \in PaymentType
      BY <1>2, ColumnNat DEF PaymentType
    <2>9. r \in Rows /\ row \in Table[r[1]]
      BY <1>2, <2>8, RowsAre, TableIs
    <2> QED  BY <2>1, <2>7, <2>9, WritePreserves
  <1> QED  BY <1>4, <1>5 DEF AddWithdrawalTransaction, Insert

-----------------------------------------------------------------------------
(* The beginning and the end of a call *)

LEMMA FailPreserves ==
  ASSUME IInv, NEW c \in Clients, Fail(c) PROVE IInv'
  BY RollbackClears, FailurePreserves DEF Fail, Answers, IInv

LEMMA ReturnPreserves ==
  ASSUME IInv, NEW c \in Clients, Return(c) PROVE IInv'
  <1>1. TypeOK /\ Working(c) /\ DOMAIN trx[c] = {}
    BY DEF IInv, Return, Working, AtRest, Locks
  <1>2. Moves(c) /\ trx' = trx /\ call'[c] = NoCall /\ pc'[c] = "idle"
    BY <1>1 DEF Return, Moves, TypeOK
  <1>3. NoCall \notin WorkerCalls /\ NoCall.op = "none"
    BY CallTypes DEF NoCall
  <1>4. Working(c)'
    BY <1>1, <1>2, <1>3 DEF Working, AtRest, Locks
  <1> QED  BY <1>1, <1>2, <1>3, <1>4, MovePreserves DEF WellTyped

LEMMA BeginPreserves ==
  ASSUME IInv, NEW c \in Clients, NEW k \in Calls, Begin(c, k) PROVE IInv'
  <1>1. TypeOK /\ Working(c) /\ DOMAIN trx[c] = {} /\ call[c] = NoCall /\ MayBegin(k)
    BY DEF IInv, Begin, Working, AtRest, Locks
  <1>2. k.op \in {"CreateUser", "CreateOrder", "WithdrawFunds",
                "MarkOrderProcessing", "MarkOrderInvalid", "MarkOrderProcessed",
                "PostponeOrderProcessing"}
    BY CallTypes DEF Calls, WorkerCalls
  <1>3. /\ FirstStatement(k.op) \in Statements
        /\ FirstStatement(k.op) \notin Answers \cup {"idle"}
    BY <1>2 DEF FirstStatement, Statements, Answers
  <1>4. Moves(c) /\ trx' = trx /\ call'[c] = k /\ pc'[c] = FirstStatement(k.op)
    BY <1>1, <1>3 DEF Begin, Moves, TypeOK
  <1>5. k # NoCall
    BY <1>2, CallTypes DEF NoCall
  <1>6. AtRest(c)'
    BY <1>3, <1>4, <1>5 DEF AtRest
  <1>7. Working(c)'
    <2>1. CASE k.op = "CreateUser"
      BY <1>1, <1>4, <1>6, <2>1 DEF Working, Registering, Locks, FirstStatement, Answers
    <2>2. CASE k.op = "CreateOrder"
      BY <1>1, <1>4, <1>6, <2>2
         DEF Working, Uploading, Locks, FirstStatement, Answers, MayBegin, Exists, Moves
    <2>3. CASE k.op = "WithdrawFunds"
      BY <1>1, <1>4, <1>6, <2>3
         DEF Working, Paying, Locks, FirstStatement, Answers, MayBegin, Exists, Moves
    <2>4. CASE k.op \in {"MarkOrderProcessing", "MarkOrderInvalid", "MarkOrderProcessed"}
      <3>1. pc'[c] = "setOrderStatus"
        BY <1>4, <2>4 DEF FirstStatement
      <3>2. Exists(OrderRow(k.order)) /\ db[OrderRow(k.order)].status \in Processable
        BY <1>1, <2>4 DEF MayBegin
      <3>3. Marking(c)'
        BY <1>1, <1>4, <3>1, <3>2 DEF Marking, Locks, Exists, Moves
      <3> QED  BY <1>4, <1>6, <2>4, <3>1, <3>3
                  DEF Working, MarkingProcessing, MarkingInvalid, MarkingProcessed, Answers
    <2>5. CASE k.op = "PostponeOrderProcessing"
      BY <1>1, <1>4, <1>6, <2>5 DEF Working, Postponing, Locks, FirstStatement, Answers
    <2> QED  BY <1>2, <2>1, <2>2, <2>3, <2>4, <2>5
  <1>8. k \in WorkerCalls => \A d \in Clients \ {c} :
          call[d] \in WorkerCalls => call[d].order # k.order
    <2> HAVE k \in WorkerCalls
    <2>1. k.op \in {"MarkOrderProcessing", "MarkOrderInvalid", "MarkOrderProcessed",
                    "PostponeOrderProcessing"}
      BY CallTypes
    <2> QED  BY <1>1, <2>1 DEF MayBegin
  <1> QED  BY <1>1, <1>4, <1>7, <1>8, MovePreserves DEF WellTyped

-----------------------------------------------------------------------------
(* What a commit does to the database *)

\* The step of a commit; its rows take the values the transaction gave them.
Commits(c) ==
  /\ DOMAIN db' = Rows
  /\ \A r \in Rows : db'[r] = IF r \in DOMAIN trx[c] THEN trx[c][r] ELSE db[r]
  /\ DOMAIN trx' = Clients /\ DOMAIN trx'[c] = {}
  /\ call' = call
  /\ pc' \in [Clients -> Statements \cup Answers \cup {"idle"}]
  /\ pc'[c] \in {"ok", "error"}
  /\ \A d \in Clients \ {c} : trx'[d] = trx[d] /\ pc'[d] = pc[d]

ChangesOnly(rows) == \A r \in Rows \ rows : db'[r] = db[r]

LEMMA CommitCommits ==
  ASSUME TypeOK, NEW c \in Clients, Commit(c)
  PROVE  Commits(c) /\ ChangesOnly(DOMAIN trx[c]) /\ pc[c] = "commit"
  <1>1. CASE pc' = [pc EXCEPT ![c] = "ok"]
    BY <1>1, NoRowsLocked DEF TypeOK, Commit, Commits, Seen, ChangesOnly, Answers
  <1>2. CASE pc' = [pc EXCEPT ![c] = "error"]
    BY <1>2, NoRowsLocked DEF TypeOK, Commit, Commits, Seen, ChangesOnly, Answers
  <1> QED  BY <1>1, <1>2 DEF Commit

\* A registration adds the user and the balance, which were not there.
LEMMA CommitRegisters ==
  ASSUME IInv, NEW c \in Clients, Commit(c), call[c].op = "CreateUser"
  PROVE  LET u == call[c].user
         IN  /\ u \in Users /\ ~Exists(UserRow(u)) /\ ~Exists(BalanceRow(u))
             /\ db'[UserRow(u)] = NewUser(c) /\ NewUser(c) # NoRow
             /\ db'[BalanceRow(u)] = [current |-> 0, withdrawn |-> 0]
             /\ db'[BalanceRow(u)] # NoRow
             /\ ChangesOnly({UserRow(u), BalanceRow(u)})
  <1> DEFINE u == call[c].user
  <1>1. /\ TypeOK /\ Working(c) /\ Commits(c) /\ ChangesOnly(DOMAIN trx[c])
        /\ pc[c] = "commit"
    BY CommitCommits DEF IInv
  <1>2. Registering(c)
    BY <1>1 DEF Working
  <1>3. u \in Users /\ call[c].password \in Passwords
    BY StatementOf, CallTypes
  <1>4. /\ DOMAIN trx[c] = {UserRow(u), BalanceRow(u)}
        /\ trx[c][BalanceRow(u)] = [current |-> 0, withdrawn |-> 0]
        /\ trx[c][UserRow(u)] = NewUser(c) /\ ~Exists(UserRow(u))
    BY <1>1, <1>2 DEF Registering, Locks
  <1>5. ~Exists(BalanceRow(u))
    BY <1>3, <1>4 DEF IInv, RowsTogether
  <1>6. NewUser(c) \in UserType /\ [current |-> 0, withdrawn |-> 0] \in BalanceType
    BY <1>3 DEF NewUser, UserType, BalanceType
  <1>7. UserRow(u) \in Rows /\ BalanceRow(u) \in Rows
    BY <1>3, RowsAre
  <1>8. db'[UserRow(u)] = trx[c][UserRow(u)] /\ db'[BalanceRow(u)] = trx[c][BalanceRow(u)]
    BY <1>1, <1>4, <1>7 DEF Commits
  <1> QED  BY <1>1, <1>3, <1>4, <1>5, <1>6, <1>8, TableIs

\* An upload adds the order and its place in the queue.
LEMMA CommitUploads ==
  ASSUME IInv, NEW c \in Clients, Commit(c), call[c].op = "CreateOrder"
  PROVE  LET u == call[c].user
             o == call[c].order
         IN  /\ u \in Users /\ o \in Orders /\ Exists(UserRow(u))
             /\ ~Exists(OrderRow(o)) /\ ~Exists(AccrualRow(o))
             /\ db'[OrderRow(o)] = [owner |-> u, status |-> "NEW"]
             /\ db'[OrderRow(o)].owner = u /\ db'[OrderRow(o)].status = "NEW"
             /\ db'[OrderRow(o)] # NoRow /\ db'[QueueRow(o)] # NoRow
             /\ ChangesOnly({OrderRow(o), QueueRow(o)})
  <1> DEFINE u == call[c].user
             o == call[c].order
             row == [owner |-> u, status |-> "NEW"]
  <1>1. /\ TypeOK /\ Working(c) /\ Commits(c) /\ ChangesOnly(DOMAIN trx[c])
        /\ pc[c] = "commit"
    BY CommitCommits DEF IInv
  <1>2. Uploading(c) /\ u \in Users /\ o \in Orders
    BY <1>1, StatementOf, CallTypes DEF Working
  <1>3. /\ DOMAIN trx[c] = {OrderRow(o), QueueRow(o)} /\ Exists(UserRow(u))
        /\ trx[c][OrderRow(o)] = row /\ trx[c][QueueRow(o)] = [order |-> o]
        /\ ~Exists(OrderRow(o))
    BY <1>1, <1>2 DEF Uploading, Locks
  <1>4. ~Exists(AccrualRow(o))
    BY <1>2, <1>3 DEF IInv, RowsTogether
  <1>5. row \in OrderType /\ [order |-> o] \in QueueType
    BY <1>2 DEF OrderType, QueueType, Statuses, Processable
  <1>6. OrderRow(o) \in Rows /\ QueueRow(o) \in Rows
    BY <1>2, RowsAre
  <1>7. db'[OrderRow(o)] = row /\ db'[QueueRow(o)] = [order |-> o]
    BY <1>1, <1>3, <1>6 DEF Commits
  <1> QED  BY <1>1, <1>2, <1>3, <1>4, <1>5, <1>7, TableIs

\* A payment changes the balance of its user and is recorded once.
LEMMA CommitPays ==
  ASSUME IInv, NEW c \in Clients, Commit(c), call[c].op = "WithdrawFunds"
  PROVE  LET u == call[c].user
             b == BalanceRow(u)
             p == call[c].order
         IN  /\ u \in Users /\ p \in Purchases /\ Exists(UserRow(u))
             /\ Exists(b) /\ ~Exists(PaymentRow(p))
             /\ db'[b] = Charged(c, b) /\ Charged(c, b).current >= 0
             /\ db'[b] # NoRow
             /\ db'[PaymentRow(p)] = [user |-> u, amount |-> Column(call[c].amount)]
             /\ ChangesOnly({b, PaymentRow(p)})
  <1> DEFINE u == call[c].user
             b == BalanceRow(u)
             p == call[c].order
  <1>1. /\ TypeOK /\ Working(c) /\ Commits(c) /\ ChangesOnly(DOMAIN trx[c])
        /\ pc[c] = "commit"
    BY CommitCommits DEF IInv
  <1>2. Paying(c) /\ u \in Users /\ p \in Purchases
    BY <1>1, StatementOf, CallTypes DEF Working
  <1>3. /\ DOMAIN trx[c] = {b, PaymentRow(p)} /\ Exists(UserRow(u))
        /\ trx[c][b] = Charged(c, b) /\ Charged(c, b).current >= 0
        /\ trx[c][PaymentRow(p)] = [user |-> u, amount |-> Column(call[c].amount)]
        /\ ~Exists(PaymentRow(p))
    BY <1>1, <1>2 DEF Paying, Locks, BalanceUpdated
  <1>4. Exists(b)
    BY <1>2, <1>3 DEF IInv, RowsTogether
  <1>5. b \in Rows /\ PaymentRow(p) \in Rows
    BY <1>2, RowsAre
  <1>6. /\ db'[b] = Charged(c, b)
        /\ db'[PaymentRow(p)] = [user |-> u, amount |-> Column(call[c].amount)]
    BY <1>1, <1>3, <1>5 DEF Commits
  <1>7. Charged(c, b) \in BalanceType
    <2>1. BalanceOwner(c) = u
      BY DEF BalanceOwner
    <2>2. /\ db[b] \in BalanceType /\ db[b].current \in Nat
          /\ DiffCurrent(c) \in Int /\ DiffWithdrawn(c) \in Nat
      BY <1>1, <2>1, BalanceOfCall DEF Answers
    <2> QED  BY <2>2, ChargedTyped
  <1> QED  BY <1>1, <1>2, <1>3, <1>4, <1>6, <1>7, TableIs

\* What the three marks of an order have in common: the order exists, is one
\* that was being worked on, and changes its status only.
LEMMA CommitMarks ==
  ASSUME IInv, NEW c \in Clients, Commit(c),
         call[c].op \in {"MarkOrderProcessing", "MarkOrderInvalid", "MarkOrderProcessed"}
  PROVE  LET o == call[c].order
         IN  /\ o \in Orders /\ call[c] \in WorkerCalls
             /\ Exists(OrderRow(o)) /\ db[OrderRow(o)] \in OrderType
             /\ db[OrderRow(o)].status \in Processable
             /\ Exists(QueueRow(o)) /\ ~Exists(AccrualRow(o))
             /\ db'[OrderRow(o)] = [db[OrderRow(o)] EXCEPT !.status = NewStatus[call[c].op]]
             /\ db'[OrderRow(o)].owner = db[OrderRow(o)].owner
             /\ db'[OrderRow(o)].status = NewStatus[call[c].op]
             /\ db'[OrderRow(o)] # NoRow
             /\ db[OrderRow(o)].owner \in Users
  <1> DEFINE o == call[c].order
             r == OrderRow(o)
             row == [db[r] EXCEPT !.status = NewStatus[call[c].op]]
  <1>1. TypeOK /\ Working(c) /\ Commits(c) /\ pc[c] = "commit"
    BY CommitCommits DEF IInv
  <1>2. /\ o \in Orders /\ Marking(c) /\ db[r] \in OrderType
        /\ db[r].status \in Processable /\ Exists(QueueRow(o)) /\ ~Exists(AccrualRow(o))
    BY <1>1, MarkedOrder DEF Answers
  <1>3. Exists(r) /\ trx[c][r] = row
    BY <1>1, <1>2 DEF Marking, Answers
  <1>4. r \in DOMAIN trx[c]
    BY <1>1 DEF Working, MarkingProcessing, MarkingInvalid, MarkingProcessed, Locks
  <1>5. db'[r] = row
    BY <1>1, <1>2, <1>3, <1>4, RowsAre DEF Commits
  <1>6. /\ row \in OrderType /\ row.owner = db[r].owner /\ db[r].owner \in Users
        /\ row.status = NewStatus[call[c].op]
    BY <1>2 DEF OrderType, NewStatus, Statuses, Processable
  <1>7. call[c] \in WorkerCalls
    BY StatementOf, CallTypes
  <1> QED  BY <1>2, <1>3, <1>5, <1>6, <1>7, TableIs

LEMMA CommitMarksProcessing ==
  ASSUME IInv, NEW c \in Clients, Commit(c), call[c].op = "MarkOrderProcessing"
  PROVE  ChangesOnly({OrderRow(call[c].order)})
  <1>1. Working(c) /\ ChangesOnly(DOMAIN trx[c]) /\ pc[c] = "commit"
    BY CommitCommits DEF IInv
  <1>2. DOMAIN trx[c] = {OrderRow(call[c].order)}
    BY <1>1 DEF Working, MarkingProcessing, Locks
  <1> QED  BY <1>1, <1>2

LEMMA CommitMarksInvalid ==
  ASSUME IInv, NEW c \in Clients, Commit(c), call[c].op = "MarkOrderInvalid"
  PROVE  LET o == call[c].order
         IN  db'[QueueRow(o)] = NoRow /\ ChangesOnly({OrderRow(o), QueueRow(o)})
  <1> DEFINE o == call[c].order
  <1>1. Working(c) /\ Commits(c) /\ ChangesOnly(DOMAIN trx[c]) /\ pc[c] = "commit"
    BY CommitCommits DEF IInv
  <1>2. DOMAIN trx[c] = {OrderRow(o), QueueRow(o)} /\ trx[c][QueueRow(o)] = NoRow
    BY <1>1 DEF Working, MarkingInvalid, Locks
  <1>3. o \in Orders
    BY CommitMarks
  <1> QED  BY <1>1, <1>2, <1>3, RowsAre DEF Commits

\* The accrual is recorded once and added to the balance of the order's owner.
LEMMA CommitCredits ==
  ASSUME IInv, NEW c \in Clients, Commit(c), call[c].op = "MarkOrderProcessed"
  PROVE  LET o == call[c].order
             b == BalanceRow(db[OrderRow(o)].owner)
         IN  /\ db'[QueueRow(o)] = NoRow
             /\ db'[AccrualRow(o)] = Column(call[c].amount)
             /\ db'[AccrualRow(o)] # NoRow
             /\ Exists(b) /\ db'[b] = Charged(c, b) /\ Charged(c, b).current >= 0
             /\ db'[b] # NoRow
             /\ ChangesOnly({OrderRow(o), QueueRow(o), AccrualRow(o), b})
  <1> DEFINE o == call[c].order
             u == db[OrderRow(o)].owner
             b == BalanceRow(u)
  <1>1. /\ TypeOK /\ Working(c) /\ Commits(c) /\ ChangesOnly(DOMAIN trx[c])
        /\ pc[c] = "commit"
    BY CommitCommits DEF IInv
  <1>2. /\ DOMAIN trx[c] = {OrderRow(o), AccrualRow(o), b, QueueRow(o)}
        /\ trx[c][QueueRow(o)] = NoRow /\ trx[c][AccrualRow(o)] = Column(call[c].amount)
        /\ trx[c][b] = Charged(c, b) /\ Charged(c, b).current >= 0
    BY <1>1 DEF Working, MarkingProcessed, Locks, BalanceUpdated
  <1>3. o \in Orders /\ u \in Users
    BY CommitMarks
  <1>4. b \in Rows /\ QueueRow(o) \in Rows /\ AccrualRow(o) \in Rows
    BY <1>3, RowsAre
  <1>5. /\ db'[QueueRow(o)] = NoRow /\ db'[AccrualRow(o)] = Column(call[c].amount)
        /\ db'[b] = Charged(c, b)
    BY <1>1, <1>2, <1>4 DEF Commits
  <1>6. Column(call[c].amount) \in Nat
    BY StatementOf, CallTypes, ColumnNat
  <1>7. BalanceOwner(c) = u
    BY DEF BalanceOwner
  <1>8. /\ Exists(b) /\ db[b] \in BalanceType /\ db[b].current \in Nat
        /\ DiffCurrent(c) \in Int /\ DiffWithdrawn(c) \in Nat
    BY <1>1, <1>7, BalanceOfCall DEF Answers
  <1>9. Charged(c, b) \in BalanceType
    BY <1>8, ChargedTyped
  <1> QED  BY <1>1, <1>2, <1>5, <1>6, <1>8, <1>9, TableIs

\* A postponement changes no row that is kept here.
LEMMA CommitPostpones ==
  ASSUME IInv, NEW c \in Clients, Commit(c), call[c].op = "PostponeOrderProcessing"
  PROVE  ChangesOnly({})
  <1>1. Working(c) /\ Commits(c) /\ pc[c] = "commit"
    BY CommitCommits DEF IInv
  <1>2. /\ DOMAIN trx[c] = {QueueRow(call[c].order)}
        /\ trx[c][QueueRow(call[c].order)] = db[QueueRow(call[c].order)]
    BY <1>1 DEF Working, Postponing, Locks
  <1> QED  BY <1>1, <1>2 DEF Commits, ChangesOnly

-----------------------------------------------------------------------------
(* A commit preserves the invariant *)

Consistent == RowsTogether /\ OwnersRegistered /\ BalanceNeverNegative

\* Users never change; an order may, if c is the worker that has it.
UsersStay ==
  \A u \in Users : Exists(UserRow(u)) => db'[UserRow(u)] = db[UserRow(u)]
OrdersStay(c) ==
  \A o \in Orders : Exists(OrderRow(o)) =>
    \/ db'[OrderRow(o)] = db[OrderRow(o)]
    \/ call[c] \in WorkerCalls /\ call[c].order = o /\ Exists(OrderRow(o))'

CommitEffect(c) == Consistent' /\ UsersStay /\ OrdersStay(c)

\* What RowsTogether says of one order.
OrderTogether(o) ==
  LET status == IF Exists(OrderRow(o)) THEN db[OrderRow(o)].status ELSE "none"
  IN  /\ Exists(QueueRow(o)) <=> status \in Processable
      /\ Exists(AccrualRow(o)) <=> status = "PROCESSED"

LEMMA OrderKeepsTogether ==
  ASSUME IInv, NEW o \in Orders, db'[OrderRow(o)] = db[OrderRow(o)],
         db'[QueueRow(o)] = db[QueueRow(o)], db'[AccrualRow(o)] = db[AccrualRow(o)]
  PROVE  OrderTogether(o)'
  BY DEF IInv, RowsTogether, OrderTogether, Exists

\* A commit is consistent when each user and each order it touches is.
LEMMA StaysConsistent ==
  ASSUME IInv,
         \A u \in Users :
           \/ db'[UserRow(u)] = db[UserRow(u)] /\ db'[BalanceRow(u)] = db[BalanceRow(u)]
           \/ /\ Exists(UserRow(u))' /\ Exists(BalanceRow(u))'
              /\ db'[BalanceRow(u)].current >= 0,
         \A o \in Orders :
           \/ /\ db'[OrderRow(o)] = db[OrderRow(o)] /\ db'[QueueRow(o)] = db[QueueRow(o)]
              /\ db'[AccrualRow(o)] = db[AccrualRow(o)]
           \/ /\ OrderTogether(o)' /\ Exists(OrderRow(o))'
              /\ Exists(UserRow(db[OrderRow(o)].owner))'
  PROVE  Consistent'
  <1>1. \A o \in Orders : OrderTogether(o)'
    BY OrderKeepsTogether
  <1>2. \A u \in Users : Exists(UserRow(u))' <=> Exists(BalanceRow(u))'
    BY DEF IInv, RowsTogether, Exists
  <1>3. RowsTogether'
    BY <1>1, <1>2 DEF RowsTogether, OrderTogether
  <1>4. \A u \in Users : Exists(UserRow(u)) => Exists(UserRow(u))'
    BY DEF Exists
  <1>5. OwnersRegistered'
    <2> SUFFICES ASSUME NEW o \in Orders, Exists(OrderRow(o))',
                        db'[OrderRow(o)] = db[OrderRow(o)]
                 PROVE  Exists(UserRow(db[OrderRow(o)].owner))'
      BY DEF OwnersRegistered
    <2>1. Exists(OrderRow(o))
      BY DEF Exists
    <2>2. Exists(UserRow(db[OrderRow(o)].owner)) /\ db[OrderRow(o)].owner \in Users
      BY <2>1, OrderTyped DEF IInv, OwnersRegistered
    <2> QED  BY <1>4, <2>2
  <1>6. BalanceNeverNegative'
    BY DEF IInv, BalanceNeverNegative, Exists
  <1> QED  BY <1>3, <1>5, <1>6 DEF Consistent

LEMMA RegistrationCommitted ==
  ASSUME IInv, NEW c \in Clients, Commit(c), call[c].op = "CreateUser"
  PROVE  CommitEffect(c)
  <1>0. PICK u : u = call[c].user
    OBVIOUS
  <1>1. /\ ~Exists(UserRow(u)) /\ ~Exists(BalanceRow(u))
        /\ db'[BalanceRow(u)].current = 0
        /\ Exists(UserRow(u))' /\ Exists(BalanceRow(u))'
        /\ ChangesOnly({UserRow(u), BalanceRow(u)})
    BY <1>0, CommitRegisters DEF Exists
  <1>2. \A v \in Users : v # u =>
          db'[UserRow(v)] = db[UserRow(v)] /\ db'[BalanceRow(v)] = db[BalanceRow(v)]
    BY <1>0, <1>1, RowsAre, RowKeys DEF ChangesOnly
  <1>3. \A o \in Orders :
          /\ db'[OrderRow(o)] = db[OrderRow(o)] /\ db'[QueueRow(o)] = db[QueueRow(o)]
          /\ db'[AccrualRow(o)] = db[AccrualRow(o)]
    BY <1>0, <1>1, RowsAre, RowKeys DEF ChangesOnly
  <1>4. Consistent'
    BY <1>0, <1>1, <1>2, <1>3, StaysConsistent
  <1> QED  BY <1>0, <1>1, <1>2, <1>3, <1>4 DEF CommitEffect, UsersStay, OrdersStay

LEMMA UploadCommitted ==
  ASSUME IInv, NEW c \in Clients, Commit(c), call[c].op = "CreateOrder"
  PROVE  CommitEffect(c)
  <1>0. PICK u, o : u = call[c].user /\ o = call[c].order
    OBVIOUS
  <1>1. /\ u \in Users /\ o \in Orders /\ Exists(UserRow(u)) /\ ~Exists(OrderRow(o))
        /\ ~Exists(AccrualRow(o)) /\ Exists(OrderRow(o))' /\ Exists(QueueRow(o))'
        /\ db'[OrderRow(o)].status = "NEW" /\ db'[OrderRow(o)].owner = u
        /\ ChangesOnly({OrderRow(o), QueueRow(o)})
    BY <1>0, CommitUploads DEF Exists
  <1>2. \A v \in Users :
          db'[UserRow(v)] = db[UserRow(v)] /\ db'[BalanceRow(v)] = db[BalanceRow(v)]
    BY <1>0, <1>1, RowsAre, RowKeys DEF ChangesOnly
  <1>3. \A q \in Orders : q # o =>
          /\ db'[OrderRow(q)] = db[OrderRow(q)] /\ db'[QueueRow(q)] = db[QueueRow(q)]
          /\ db'[AccrualRow(q)] = db[AccrualRow(q)]
    BY <1>0, <1>1, RowsAre, RowKeys DEF ChangesOnly
  <1>4. db'[AccrualRow(o)] = db[AccrualRow(o)]
    BY <1>0, <1>1, RowsAre, RowKeys DEF ChangesOnly
  <1>5. OrderTogether(o)' /\ Exists(UserRow(db[OrderRow(o)].owner))'
    BY <1>0, <1>1, <1>2, <1>4 DEF OrderTogether, Exists, Processable
  <1>6. Consistent'
    BY <1>0, <1>1, <1>2, <1>3, <1>5, StaysConsistent
  <1> QED  BY <1>0, <1>1, <1>2, <1>3, <1>6 DEF CommitEffect, UsersStay, OrdersStay

LEMMA PaymentCommitted ==
  ASSUME IInv, NEW c \in Clients, Commit(c), call[c].op = "WithdrawFunds"
  PROVE  CommitEffect(c)
  <1>0. PICK u, p : u = call[c].user /\ p = PaymentRow(call[c].order)
    OBVIOUS
  <1>1. /\ u \in Users /\ Exists(UserRow(u)) /\ Exists(BalanceRow(u))'
        /\ db'[BalanceRow(u)].current >= 0 /\ ChangesOnly({BalanceRow(u), p})
    BY <1>0, CommitPays DEF Exists
  <1>2. \A v \in Users :
          /\ db'[UserRow(v)] = db[UserRow(v)]
          /\ v # u => db'[BalanceRow(v)] = db[BalanceRow(v)]
    BY <1>0, <1>1, RowsAre, RowKeys DEF ChangesOnly
  <1>3. \A o \in Orders :
          /\ db'[OrderRow(o)] = db[OrderRow(o)] /\ db'[QueueRow(o)] = db[QueueRow(o)]
          /\ db'[AccrualRow(o)] = db[AccrualRow(o)]
    BY <1>0, <1>1, RowsAre, RowKeys DEF ChangesOnly
  <1>4. Exists(UserRow(u))'
    BY <1>0, <1>1, <1>2 DEF Exists
  <1>5. Consistent'
    BY <1>0, <1>1, <1>2, <1>3, <1>4, StaysConsistent
  <1> QED  BY <1>0, <1>2, <1>3, <1>5 DEF CommitEffect, UsersStay, OrdersStay

LEMMA ProcessingCommitted ==
  ASSUME IInv, NEW c \in Clients, Commit(c), call[c].op = "MarkOrderProcessing"
  PROVE  CommitEffect(c)
  <1>0. PICK o, u : o = call[c].order /\ u = db[OrderRow(o)].owner
    OBVIOUS
  <1>1. /\ o \in Orders /\ call[c] \in WorkerCalls /\ Exists(OrderRow(o))
        /\ Exists(OrderRow(o))' /\ Exists(QueueRow(o)) /\ ~Exists(AccrualRow(o))
        /\ db'[OrderRow(o)].owner = u /\ u \in Users
        /\ db'[OrderRow(o)].status = "PROCESSING"
        /\ ChangesOnly({OrderRow(o)})
    <2>1. NewStatus[call[c].op] = "PROCESSING"
      BY DEF NewStatus
    <2> QED  BY <1>0, <2>1, CommitMarks, CommitMarksProcessing DEF Exists
  <1>2. \A v \in Users :
          db'[UserRow(v)] = db[UserRow(v)] /\ db'[BalanceRow(v)] = db[BalanceRow(v)]
    BY <1>0, <1>1, RowsAre, RowKeys DEF ChangesOnly
  <1>3. \A q \in Orders :
          /\ q # o => db'[OrderRow(q)] = db[OrderRow(q)]
          /\ db'[QueueRow(q)] = db[QueueRow(q)] /\ db'[AccrualRow(q)] = db[AccrualRow(q)]
    BY <1>0, <1>1, RowsAre, RowKeys DEF ChangesOnly
  <1>4. Exists(UserRow(db[OrderRow(o)].owner))'
    BY <1>0, <1>1, <1>2 DEF IInv, OwnersRegistered, Exists
  <1>5. OrderTogether(o)'
    BY <1>0, <1>1, <1>3 DEF OrderTogether, Exists, Processable
  <1>6. Consistent'
    BY <1>0, <1>1, <1>2, <1>3, <1>4, <1>5, StaysConsistent
  <1> QED  BY <1>0, <1>1, <1>2, <1>3, <1>6 DEF CommitEffect, UsersStay, OrdersStay

LEMMA InvalidCommitted ==
  ASSUME IInv, NEW c \in Clients, Commit(c), call[c].op = "MarkOrderInvalid"
  PROVE  CommitEffect(c)
  <1>0. PICK o, u : o = call[c].order /\ u = db[OrderRow(o)].owner
    OBVIOUS
  <1>1. /\ o \in Orders /\ call[c] \in WorkerCalls /\ Exists(OrderRow(o))
        /\ Exists(OrderRow(o))' /\ ~Exists(QueueRow(o))' /\ ~Exists(AccrualRow(o))
        /\ db'[OrderRow(o)].owner = u /\ u \in Users
        /\ db'[OrderRow(o)].status = "INVALID"
        /\ ChangesOnly({OrderRow(o), QueueRow(o)})
    <2>1. NewStatus[call[c].op] = "INVALID"
      BY DEF NewStatus
    <2> QED  BY <1>0, <2>1, CommitMarks, CommitMarksInvalid DEF Exists
  <1>2. \A v \in Users :
          db'[UserRow(v)] = db[UserRow(v)] /\ db'[BalanceRow(v)] = db[BalanceRow(v)]
    BY <1>0, <1>1, RowsAre, RowKeys DEF ChangesOnly
  <1>3. \A q \in Orders :
          /\ q # o => db'[OrderRow(q)] = db[OrderRow(q)] /\ db'[QueueRow(q)] = db[QueueRow(q)]
          /\ db'[AccrualRow(q)] = db[AccrualRow(q)]
    BY <1>0, <1>1, RowsAre, RowKeys DEF ChangesOnly
  <1>4. Exists(UserRow(db[OrderRow(o)].owner))'
    BY <1>0, <1>1, <1>2 DEF IInv, OwnersRegistered, Exists
  <1>5. OrderTogether(o)'
    BY <1>0, <1>1, <1>3 DEF OrderTogether, Exists, Processable
  <1>6. Consistent'
    BY <1>0, <1>1, <1>2, <1>3, <1>4, <1>5, StaysConsistent
  <1> QED  BY <1>0, <1>1, <1>2, <1>3, <1>6 DEF CommitEffect, UsersStay, OrdersStay

LEMMA CreditCommitted ==
  ASSUME IInv, NEW c \in Clients, Commit(c), call[c].op = "MarkOrderProcessed"
  PROVE  CommitEffect(c)
  <1>0. PICK o, u, b : o = call[c].order /\ u = db[OrderRow(o)].owner /\ b = BalanceRow(u)
    OBVIOUS
  <1>1. /\ o \in Orders /\ call[c] \in WorkerCalls /\ Exists(OrderRow(o))
        /\ Exists(OrderRow(o))' /\ db'[OrderRow(o)].owner = u /\ u \in Users
        /\ db'[OrderRow(o)].status = "PROCESSED"
    <2>1. NewStatus[call[c].op] = "PROCESSED"
      BY DEF NewStatus
    <2> QED  BY <1>0, <2>1, CommitMarks DEF Exists
  <1>2. /\ ~Exists(QueueRow(o))' /\ Exists(AccrualRow(o))' /\ Exists(b)'
        /\ db'[b].current >= 0
        /\ ChangesOnly({OrderRow(o), QueueRow(o), AccrualRow(o), b})
    BY <1>0, CommitCredits DEF Exists
  <1>3. \A v \in Users :
          /\ db'[UserRow(v)] = db[UserRow(v)]
          /\ v # u => db'[BalanceRow(v)] = db[BalanceRow(v)]
    BY <1>0, <1>2, RowsAre, RowKeys DEF ChangesOnly
  <1>4. \A q \in Orders : q # o =>
          /\ db'[OrderRow(q)] = db[OrderRow(q)] /\ db'[QueueRow(q)] = db[QueueRow(q)]
          /\ db'[AccrualRow(q)] = db[AccrualRow(q)]
    BY <1>0, <1>2, RowsAre, RowKeys DEF ChangesOnly
  <1>5. Exists(UserRow(db[OrderRow(o)].owner))'
    BY <1>0, <1>1, <1>3 DEF IInv, OwnersRegistered, Exists
  <1>6. OrderTogether(o)'
    BY <1>0, <1>1, <1>2 DEF OrderTogether, Processable
  <1>7. Exists(UserRow(u))'
    BY <1>0, <1>1, <1>5
  <1>8. Consistent'
    BY <1>0, <1>1, <1>2, <1>3, <1>4, <1>5, <1>6, <1>7, StaysConsistent
  <1> QED  BY <1>0, <1>1, <1>3, <1>4, <1>8 DEF CommitEffect, UsersStay, OrdersStay

LEMMA PostponementCommitted ==
  ASSUME IInv, NEW c \in Clients, Commit(c), call[c].op = "PostponeOrderProcessing"
  PROVE  CommitEffect(c)
  <1>1. /\ \A u \in Users :
             db'[UserRow(u)] = db[UserRow(u)] /\ db'[BalanceRow(u)] = db[BalanceRow(u)]
        /\ \A o \in Orders :
             /\ db'[OrderRow(o)] = db[OrderRow(o)] /\ db'[QueueRow(o)] = db[QueueRow(o)]
             /\ db'[AccrualRow(o)] = db[AccrualRow(o)]
    BY CommitPostpones, RowsAre DEF ChangesOnly
  <1>2. Consistent'
    BY <1>1, StaysConsistent
  <1> QED  BY <1>1, <1>2 DEF CommitEffect, UsersStay, OrdersStay

LEMMA AllCommitted ==
  ASSUME IInv, NEW c \in Clients, Commit(c) PROVE CommitEffect(c)
  <1>1. Working(c) /\ pc[c] = "commit" /\ call[c] \in Calls \cup {NoCall}
    BY DEF IInv, TypeOK, Commit
  <1>2. call[c].op # "none"
    BY <1>1, CallTypes DEF Working, AtRest
  <1> QED  BY <1>1, <1>2, CallTypes, RegistrationCommitted, UploadCommitted,
              PaymentCommitted, ProcessingCommitted, InvalidCommitted, CreditCommitted,
              PostponementCommitted

\* The transactions of the others hold other rows, and no order that another
\* client works on is changed.
LEMMA OthersWorkAfterCommit ==
  ASSUME IInv, NEW c \in Clients, Commit(c), NEW d \in Clients \ {c}
  PROVE  Working(d)'
  <1>1. /\ Commits(c) /\ ChangesOnly(DOMAIN trx[c]) /\ UsersStay /\ OrdersStay(c)
        /\ Working(d) /\ WellTyped(trx[d]) /\ DOMAIN trx[c] \cap DOMAIN trx[d] = {}
        /\ call[d] \in Calls \cup {NoCall}
    BY CommitCommits, AllCommitted DEF IInv, CommitEffect, TypeOK, LocksExclusive
  <1>2. trx'[d] = trx[d] /\ call'[d] = call[d] /\ pc'[d] = pc[d]
    BY <1>1 DEF Commits
  <1>3. \A r \in DOMAIN trx[d] : db'[r] = db[r]
    BY <1>1 DEF ChangesOnly, WellTyped
  <1>4. \A u \in Users : Exists(UserRow(u)) =>
          Exists(UserRow(u))' /\ db'[UserRow(u)] = db[UserRow(u)]
    BY <1>1 DEF UsersStay, Exists
  <1>5. AtRest(d)'
    BY <1>1, <1>2 DEF Working, AtRest, Locks
  <1>6. ASSUME call[d].op = "CreateUser"
        PROVE  Registering(d)'
    <2>1. PICK u : u = call[d].user
      OBVIOUS
    <2>2. Registering(d) /\ u \in Users /\ NewUser(d)' = NewUser(d)
      BY <1>1, <1>2, <1>6, <2>1, CallTypes DEF Working, NewUser
    <2>3. pc[d] \in {"insertBalance", "commit"} => UserRow(u) \in DOMAIN trx[d]
      BY <2>1, <2>2 DEF Registering, Locks
    <2>4. pc[d] = "ok" => db'[UserRow(u)] = NewUser(d)
      <3>1. NewUser(d) # NoRow
        BY <1>1, <1>6, CallTypes, TableIs DEF NewUser, UserType
      <3> QED  BY <1>4, <2>1, <2>2, <3>1 DEF Registering, Exists
    <2> QED  BY <1>2, <1>3, <2>1, <2>2, <2>3, <2>4 DEF Registering, Locks, Exists
  <1>7. ASSUME call[d].op = "CreateOrder"
        PROVE  Uploading(d)'
    <2>1. PICK u, o : u = call[d].user /\ o = call[d].order
      OBVIOUS
    <2>2. Uploading(d) /\ u \in Users
      BY <1>1, <1>7, <2>1, CallTypes DEF Working
    <2>3. pc[d] \in {"insertProcessable", "commit"} => OrderRow(o) \in DOMAIN trx[d]
      BY <2>1, <2>2 DEF Uploading, Locks
    <2>4. Exists(UserRow(u))'
      BY <1>4, <2>1, <2>2 DEF Uploading
    <2> QED  BY <1>2, <1>3, <2>1, <2>2, <2>3, <2>4 DEF Uploading, Locks, Exists
  <1>8. ASSUME NEW r \in DOMAIN trx[d]
        PROVE  /\ BalanceRead(d, r) => (BalanceRead(d, r))'
               /\ BalanceUpdated(d, r) => (BalanceUpdated(d, r))'
    BY <1>2, <1>3
       DEF BalanceRead, BalanceUpdated, Charged, DiffCurrent, DiffWithdrawn
  <1>9. ASSUME call[d].op = "WithdrawFunds"
        PROVE  Paying(d)'
    <2>1. PICK u, r, p : u = call[d].user /\ r = BalanceRow(u) /\ p = PaymentRow(call[d].order)
      OBVIOUS
    <2>2. Paying(d) /\ u \in Users
      BY <1>1, <1>9, <2>1, CallTypes DEF Working
    <2>3. /\ pc[d] \in {"updateBalance", "insertWithdrawal", "commit"} => r \in DOMAIN trx[d]
          /\ pc[d] = "commit" => p \in DOMAIN trx[d]
      BY <2>1, <2>2 DEF Paying, Locks
    <2>4. Exists(UserRow(u))'
      BY <1>4, <2>1, <2>2 DEF Paying
    <2>5. pc[d] = "updateBalance" => (BalanceRead(d, r))'
      BY <1>8, <2>1, <2>2, <2>3 DEF Paying
    <2>6. pc[d] \in {"insertWithdrawal", "commit"} => (BalanceUpdated(d, r))'
      BY <1>8, <2>1, <2>2, <2>3 DEF Paying
    <2>7. pc[d] = "commit" => ~Exists(p) /\ (~Exists(p))'
      BY <1>3, <2>1, <2>2, <2>3 DEF Paying, Exists
    <2> QED  BY <1>2, <2>1, <2>2, <2>4, <2>5, <2>6, <2>7 DEF Paying, Locks
  <1>10. ASSUME call[d].op \in {"MarkOrderProcessing", "MarkOrderInvalid", "MarkOrderProcessed"}
         PROVE  /\ Marking(d) /\ Marking(d)'
                /\ db'[OrderRow(call[d].order)] = db[OrderRow(call[d].order)]
    <2>1. PICK o : o = call[d].order
      OBVIOUS
    <2>2. call[d] \in WorkerCalls /\ o \in Orders
      BY <1>1, <1>10, <2>1, CallTypes
    <2>3. Marking(d)
      BY <1>1, <1>10 DEF Working, MarkingProcessing, MarkingInvalid, MarkingProcessed
    <2>4. call[c] \in WorkerCalls => call[c].order # o
      BY <2>1, <2>2 DEF IInv, WorkersApart
    <2>5. Exists(OrderRow(o)) /\ db'[OrderRow(o)] = db[OrderRow(o)]
      BY <1>1, <2>1, <2>2, <2>3, <2>4 DEF Marking, OrdersStay
    <2>6. Marking(d)'
      BY <1>2, <2>1, <2>3, <2>5 DEF Marking, Locks, Exists
    <2> QED  BY <2>1, <2>3, <2>5, <2>6
  <1>11. call[d].op = "MarkOrderProcessing" => MarkingProcessing(d)'
    BY <1>1, <1>2, <1>10 DEF Working, MarkingProcessing, Locks
  <1>12. call[d].op = "MarkOrderInvalid" => MarkingInvalid(d)'
    BY <1>1, <1>2, <1>10 DEF Working, MarkingInvalid, Locks
  <1>13. ASSUME call[d].op = "MarkOrderProcessed"
         PROVE  MarkingProcessed(d)'
    <2>1. PICK r, b : r = OrderRow(call[d].order) /\ b = BalanceRow(db[r].owner)
      OBVIOUS
    <2>2. MarkingProcessed(d) /\ Marking(d)' /\ db'[r] = db[r]
      BY <1>1, <1>10, <1>13, <2>1 DEF Working
    <2>3. pc[d] \in {"updateBalance", "removeProcessable", "commit"} => b \in DOMAIN trx[d]
      BY <2>1, <2>2 DEF MarkingProcessed, Locks
    <2>4. pc[d] = "updateBalance" => (BalanceRead(d, b))'
      BY <1>8, <2>1, <2>2, <2>3 DEF MarkingProcessed
    <2>5. pc[d] \in {"removeProcessable", "commit"} => (BalanceUpdated(d, b))'
      BY <1>8, <2>1, <2>2, <2>3 DEF MarkingProcessed
    <2> QED  BY <1>2, <2>1, <2>2, <2>4, <2>5 DEF MarkingProcessed, Locks
  <1>14. ASSUME call[d].op = "PostponeOrderProcessing"
         PROVE  Postponing(d)'
    <2>1. PICK q : q = QueueRow(call[d].order)
      OBVIOUS
    <2>2. Postponing(d)
      BY <1>1, <1>14 DEF Working
    <2>3. pc[d] = "commit" => q \in DOMAIN trx[d]
      BY <2>1, <2>2 DEF Postponing, Locks
    <2> QED  BY <1>2, <1>3, <2>1, <2>2, <2>3 DEF Postponing, Locks, Exists
  <1> QED  BY <1>1, <1>2, <1>5, <1>6, <1>7, <1>9, <1>11, <1>12, <1>13, <1>14 DEF Working

LEMMA CommitterDone ==
  ASSUME IInv, NEW c \in Clients, Commit(c)
  PROVE  Working(c)'
  <1>1. /\ Commits(c) /\ UsersStay /\ OrdersStay(c) /\ Working(c) /\ pc[c] = "commit"
        /\ call[c] \in Calls \cup {NoCall}
    BY CommitCommits, AllCommitted DEF IInv, CommitEffect, TypeOK
  <1>2. /\ call'[c] = call[c] /\ pc'[c] \in {"ok", "error"} /\ DOMAIN trx'[c] = {}
        /\ pc'[c] \in Answers /\ pc'[c] \notin Statements \cup {"idle"}
    BY <1>1 DEF Commits, Answers, Statements
  <1>3. AtRest(c)'
    BY <1>1, <1>2 DEF Working, AtRest, Locks
  <1>4. call[c].op = "CreateUser" => Registering(c)'
    BY <1>2, CommitRegisters DEF Registering, NewUser
  <1>5. ASSUME call[c].op \in {"CreateOrder", "WithdrawFunds"}
        PROVE  Exists(UserRow(call[c].user))'
    <2>1. PICK u : u = call[c].user
      OBVIOUS
    <2>2. Exists(UserRow(u)) /\ u \in Users
      BY <1>1, <1>5, <2>1, CallTypes DEF Working, Uploading, Paying
    <2> QED  BY <1>1, <1>2, <2>1, <2>2 DEF UsersStay, Exists
  <1>6. call[c].op = "CreateOrder" => Uploading(c)'
    BY <1>2, <1>5 DEF Uploading
  <1>7. call[c].op = "WithdrawFunds" => Paying(c)'
    BY <1>2, <1>5 DEF Paying
  <1>8. ASSUME call[c].op \in {"MarkOrderProcessing", "MarkOrderInvalid", "MarkOrderProcessed"}
        PROVE  Marking(c)'
    <2>1. PICK o : o = call[c].order
      OBVIOUS
    <2>2. db'[OrderRow(o)] # NoRow
      BY <1>8, <2>1, CommitMarks
    <2> QED  BY <1>2, <2>1, <2>2 DEF Marking, Exists
  <1>9. /\ call[c].op = "MarkOrderProcessing" => MarkingProcessing(c)'
        /\ call[c].op = "MarkOrderInvalid" => MarkingInvalid(c)'
        /\ call[c].op = "MarkOrderProcessed" => MarkingProcessed(c)'
    BY <1>2, <1>8 DEF MarkingProcessing, MarkingInvalid, MarkingProcessed
  <1>10. call[c].op = "PostponeOrderProcessing" => Postponing(c)'
    BY <1>2 DEF Postponing
  <1> QED  BY <1>2, <1>3, <1>4, <1>6, <1>7, <1>9, <1>10 DEF Working

LEMMA CommitPreserves ==
  ASSUME IInv, NEW c \in Clients, Commit(c) PROVE IInv'
  <1>1. TypeOK /\ Commits(c) /\ Consistent' /\ LocksExclusive /\ WorkersApart
    BY CommitCommits, AllCommitted DEF IInv, CommitEffect
  <1>2. TypeOK'
    <2>1. WellTyped(db)'
      BY <1>1 DEF Commits, WellTyped, TypeOK
    <2>2. \A d \in Clients : WellTyped(trx[d])'
      BY <1>1 DEF Commits, WellTyped, TypeOK
    <2> QED  BY <1>1, <2>1, <2>2 DEF Commits, TypeOK
  <1>3. LocksExclusive'
    <2> SUFFICES ASSUME NEW a \in Clients, NEW b \in Clients, a # b
                 PROVE  DOMAIN trx'[a] \cap DOMAIN trx'[b] = {}
      BY DEF LocksExclusive
    <2>1. DOMAIN trx[a] \cap DOMAIN trx[b] = {}
      BY <1>1 DEF LocksExclusive
    <2>2. CASE a = c \/ b = c
      BY <1>1, <2>2 DEF Commits
    <2>3. CASE a # c /\ b # c
      BY <1>1, <2>1, <2>3 DEF Commits
    <2> QED  BY <2>2, <2>3
  <1>4. WorkersApart'
    BY <1>1 DEF Commits, WorkersApart
  <1>5. \A d \in Clients : Working(d)'
    BY OthersWorkAfterCommit, CommitterDone
  <1> QED  BY <1>1, <1>2, <1>3, <1>4, <1>5 DEF IInv, Consistent

-----------------------------------------------------------------------------
(* The theorems *)

LEMMA InitIInv == Init => IInv
  <1> SUFFICES ASSUME Init PROVE IInv
    OBVIOUS
  <1>1. /\ \A c \in Clients : pc[c] = "idle" /\ call[c] = NoCall /\ DOMAIN trx[c] = {}
        /\ \A r \in Rows : db[r] = NoRow
        /\ NoCall.op = "none"
    BY NoRowsLocked DEF Init, NoCall
  <1>2. TypeOK
    <2>1. WellTyped(db) /\ DOMAIN db = Rows
      BY DEF Init, WellTyped
    <2>2. \A c \in Clients : WellTyped(trx[c])
      BY <1>1 DEF WellTyped
    <2> QED  BY <2>1, <2>2 DEF Init, TypeOK
  <1>3. RowsTogether /\ OwnersRegistered /\ BalanceNeverNegative
    BY <1>1, RowsAre DEF RowsTogether, OwnersRegistered, BalanceNeverNegative, Exists,
                         Processable
  <1>4. NoCall \notin WorkerCalls
    BY <1>1, CallTypes
  <1>5. LocksExclusive /\ WorkersApart
    BY <1>1, <1>4 DEF LocksExclusive, WorkersApart
  <1>6. \A c \in Clients : Working(c)
    BY <1>1 DEF Working, AtRest, Locks
  <1> QED  BY <1>2, <1>3, <1>5, <1>6 DEF IInv

\* Every step of a client preserves the invariant.
LEMMA NextIInv == IInv /\ [Next]_vars => IInv'
  <1> SUFFICES ASSUME IInv, [Next]_vars PROVE IInv'
    OBVIOUS
  <1>1. CASE UNCHANGED vars
    <2>1. db' = db /\ trx' = trx /\ call' = call /\ pc' = pc
      BY <1>1 DEF vars
    <2>2. TypeOK' /\ LocksExclusive' /\ WorkersApart'
      BY <2>1 DEF IInv, TypeOK, WellTyped, LocksExclusive, WorkersApart
    <2>3. RowsTogether' /\ OwnersRegistered' /\ BalanceNeverNegative'
      BY <2>1 DEF IInv, RowsTogether, OwnersRegistered, BalanceNeverNegative, Exists
    <2>4. ASSUME NEW d \in Clients PROVE Working(d)'
      BY <2>1, Unmoved
    <2> QED  BY <2>2, <2>3, <2>4 DEF IInv
  <1>2. CASE Next
    <2> PICK c \in Clients :
          (\E k \in Calls : Begin(c, k)) \/ Statement(c) \/ Fail(c) \/ Return(c)
      BY <1>2 DEF Next
    <2>1. CASE \E k \in Calls : Begin(c, k)
      BY <2>1, BeginPreserves
    <2>2. CASE Statement(c)
      BY <2>2, FindUserPreserves, InsertUserPreserves, InsertBalancePreserves,
         FindOrderPreserves, InsertOrderPreserves, InsertProcessablePreserves,
         SetOrderStatusPreserves, SetAccrualPointsPreserves,
         RemoveProcessableOrderPreserves, PostponeOrderProcessingPreserves,
         LockBalancePreserves, UpdateBalancePreserves,
         AddWithdrawalTransactionPreserves, CommitPreserves
         DEF Statement
    <2>3. CASE Fail(c)
      BY <2>3, FailPreserves
    <2>4. CASE Return(c)
      BY <2>4, ReturnPreserves
    <2> QED  BY <2>1, <2>2, <2>3, <2>4
  <1> QED  BY <1>1, <1>2

\* The invariant holds in every state the storage can reach.
THEOREM Invariant == Spec => []IInv
  BY InitIInv, NextIInv, PTL DEF Spec

\* Rows, calls and statements keep their types (all of Storage).
THEOREM TypeCorrect == Spec => []TypeOK
  <1>1. IInv => TypeOK
    BY DEF IInv
  <1> QED  BY <1>1, Invariant, PTL

\* No balance is negative in the database, whatever payments and accruals run at
\* the same time (maybeUpdateBalance).
THEOREM NeverNegative == Spec => []BalanceNeverNegative
  <1>1. IInv => BalanceNeverNegative
    BY DEF IInv
  <1> QED  BY <1>1, Invariant, PTL

\* What is written in one transaction is seen together, whatever fails
\* (transactionCreateUserAndBalance, transactionCreateOrder and the marks).
THEOREM Together == Spec => []RowsTogether
  <1>1. IInv => RowsTogether
    BY DEF IInv
  <1> QED  BY <1>1, Invariant, PTL

\* A registration that was confirmed is not overwritten by another (CreateUser).
THEOREM RegistrationKept == Spec => []RegistrationHolds
  <1>1. IInv => RegistrationHolds
    BY DEF IInv, RegistrationHolds, Working, Registering
  <1> QED  BY <1>1, Invariant, PTL

-----------------------------------------------------------------------------
(* Refusals *)

\* The coarse check on integer parts refuses nothing that the exact one accepts:
\* what is left out of the balance is less than a point.
LEMMA CoarseCheck ==
  ASSUME NEW current \in Nat, NEW amount \in Nat \ {0},
         Truncated(current, Point) + Truncated(-amount, Grid * Point) < 0
  PROVE  amount > current * Grid
  <1> DEFINE u == Grid * Point
             q == current \div Point
             p == amount \div u
  <1>1. Grid \in Nat \ {0} /\ Point \in Nat \ {0} /\ u \in Nat \ {0}
    BY StorageAssumption, Z3
  <1>2. q \in Int /\ p \in Int /\ current < Point * q + Point /\ u * p <= amount
    <2> HIDE DEF u
    <2>1. q \in Int /\ current < Point * q + Point
      BY <1>1, Quotient
    <2>2. p \in Int /\ u * p <= amount
      BY <1>1, Quotient
    <2> QED  BY <2>1, <2>2
  <1>3. Truncated(current, Point) = q /\ Truncated(-amount, u) = -p
    <2> HIDE DEF u
    <2>1. -(-amount) = amount /\ ~(-amount >= 0) /\ current >= 0
      OBVIOUS
    <2>2. Truncated(-amount, u) = -((-(-amount)) \div u)
      BY <2>1, Zenon DEF Truncated
    <2>3. Truncated(current, Point) = q
      BY <2>1, Zenon DEF Truncated
    <2> QED  BY <2>1, <2>2, <2>3, Zenon
  <1>4. q + 1 <= p
    BY <1>2, <1>3
  <1> HIDE DEF q, p
  <1>5. Point * q + Point <= Point * p
    BY <1>1, <1>2, <1>4, Z3
  <1>6. current < Point * p
    <2>1. Point * q \in Int /\ Point * p \in Int
      BY <1>1, <1>2, Z3
    <2> QED  BY <2>1, <1>1, <1>2, <1>5
  <1>7. current * Grid < (Point * p) * Grid
    BY <1>1, <1>2, <1>6, Z3
  <1>8. (Point * p) * Grid = u * p /\ u * p \in Int /\ current * Grid \in Int
    BY <1>1, <1>2, Z3
  <1> QED  BY <1>2, <1>7, <1>8

LEMMA TruncatedInt ==
  ASSUME NEW x \in Int, NEW unit \in Nat \ {0}
  PROVE  Truncated(x, unit) \in Int
  BY Quotient DEF Truncated

\* An accrual is never refused, a payment only when the balance is too small.
LEMMA RefusedAtLock ==
  ASSUME IInv, NEW c \in Clients, LockBalance(c), pc'[c] = "notEnough"
  PROVE  /\ call[c].op = "WithdrawFunds"
         /\ call[c].amount > db[BalanceRow(call[c].user)].current * Grid
  <1> DEFINE r == BalanceRow(BalanceOwner(c))
  <1>1. /\ TypeOK /\ Working(c) /\ pc[c] = "lockBalance" /\ pc[c] \notin Answers
        /\ call[c].op \in {"WithdrawFunds", "MarkOrderProcessed"}
        /\ call[c] \in Calls \cup {NoCall}
    BY StatementOf DEF LockBalance, IInv, Answers
  <1>2. db[r].current \in Nat /\ DiffCurrent(c) \in Int
    BY <1>1, BalanceOfCall
  <1>3. ~CoarselyEnough(Seen(c, r), DiffCurrent(c))
    <2>1. pc \in [Clients -> Statements \cup Answers \cup {"idle"}]
      BY <1>1 DEF TypeOK
    <2>2. ~GoTo(c, "updateBalance")
      BY <2>1 DEF GoTo
    <2> QED  BY <2>2 DEF LockBalance
  <1>4. r \notin DOMAIN trx[c]
    <2>1. CASE call[c].op = "WithdrawFunds"
      BY <1>1, <2>1 DEF Working, Paying, Locks
    <2>2. CASE call[c].op = "MarkOrderProcessed"
      <3>1. DOMAIN trx[c] = {OrderRow(call[c].order), AccrualRow(call[c].order)}
        BY <1>1, <2>2 DEF Working, MarkingProcessed, Locks
      <3> QED  BY <3>1, RowsDiffer
    <2> QED  BY <1>1, <2>1, <2>2
  <1>5. Truncated(db[r].current, Point) + Truncated(DiffCurrent(c), Grid * Point) < 0
    <2>1. /\ Truncated(db[r].current, Point) \in Int
          /\ Truncated(DiffCurrent(c), Grid * Point) \in Int
      BY <1>2, TruncatedInt, StorageAssumption, Z3
    <2> QED  BY <2>1, <1>3, <1>4 DEF CoarselyEnough, Seen
  <1>6. call[c].op # "MarkOrderProcessed"
    <2> SUFFICES ASSUME call[c].op = "MarkOrderProcessed" PROVE FALSE
      OBVIOUS
    <2>1. DiffCurrent(c) \in Nat
      BY <1>1, CallTypes DEF DiffCurrent
    <2>2. Grid * Point \in Nat \ {0} /\ Point \in Nat \ {0}
      BY StorageAssumption, Z3
    <2>3. /\ Truncated(db[r].current, Point) \in Nat
          /\ Truncated(DiffCurrent(c), Grid * Point) \in Nat
      BY <1>2, <2>1, <2>2, QuotientNat DEF Truncated
    <2> QED  BY <1>5, <2>3
  <1>7. call[c].op = "WithdrawFunds" /\ call[c].amount \in Nat \ {0}
    BY <1>1, <1>6, CallTypes
  <1>8. r = BalanceRow(call[c].user) /\ DiffCurrent(c) = -call[c].amount
    BY <1>7 DEF BalanceOwner, DiffCurrent
  <1> QED  BY <1>2, <1>5, <1>7, <1>8, CoarseCheck

LEMMA RefusedAtUpdate ==
  ASSUME IInv, NEW c \in Clients, UpdateBalance(c), pc'[c] = "notEnough"
  PROVE  /\ call[c].op = "WithdrawFunds"
         /\ call[c].amount > db[BalanceRow(call[c].user)].current * Grid
  <1> DEFINE r == BalanceRow(BalanceOwner(c))
  <1>1. /\ TypeOK /\ Working(c) /\ pc[c] = "updateBalance" /\ pc[c] \notin Answers
        /\ call[c].op \in {"WithdrawFunds", "MarkOrderProcessed"}
        /\ call[c] \in Calls \cup {NoCall}
    BY StatementOf DEF UpdateBalance, IInv, Answers
  <1>2. db[r].current \in Nat /\ DiffCurrent(c) \in Int
    BY <1>1, BalanceOfCall
  <1>3. Seen(c, r) = db[r]
    <2>1. CASE call[c].op = "WithdrawFunds"
      BY <1>1, <2>1 DEF Working, Paying, BalanceRead, BalanceOwner, Seen
    <2>2. CASE call[c].op = "MarkOrderProcessed"
      BY <1>1, <2>2 DEF Working, MarkingProcessed, BalanceRead, BalanceOwner, Seen
    <2> QED  BY <1>1, <2>1, <2>2
  <1>4. Column(db[r].current * Grid + DiffCurrent(c)) < 0
    <2>1. pc \in [Clients -> Statements \cup Answers \cup {"idle"}]
      BY <1>1 DEF TypeOK
    <2>2. /\ ~GoTo(c, "insertWithdrawal") /\ ~GoTo(c, "removeProcessable")
      BY <2>1 DEF GoTo
    <2> QED  BY <1>3, <2>2 DEF UpdateBalance
  <1>5. db[r].current * Grid \in Nat
    BY <1>2, StorageAssumption, Z3
  <1>6. db[r].current * Grid + DiffCurrent(c) < 0
    BY <1>2, <1>4, <1>5, ColumnInt
  <1>7. CASE call[c].op = "MarkOrderProcessed"
    BY <1>1, <1>5, <1>6, <1>7, CallTypes DEF DiffCurrent
  <1>8. CASE call[c].op = "WithdrawFunds"
    <2>1. r = BalanceRow(call[c].user) /\ DiffCurrent(c) = -call[c].amount
      BY <1>8 DEF BalanceOwner, DiffCurrent
    <2>2. call[c].amount \in Nat
      BY <1>1, <1>8, CallTypes
    <2> QED  BY <1>5, <1>6, <1>8, <2>1, <2>2
  <1> QED  BY <1>1, <1>7, <1>8

\* No other step answers that the balance is too small.
GoesOn(c) == \E s : s # "notEnough" /\ pc' = [pc EXCEPT ![c] = s]

LEMMA OnlyTheseRefuse ==
  ASSUME IInv, NEW c \in Clients,
         (\E k \in Calls : Begin(c, k)) \/ Statement(c) \/ Fail(c) \/ Return(c)
  PROVE  GoesOn(c) \/ LockBalance(c) \/ UpdateBalance(c)
  <1>1. CASE FindUser(c) \/ FindOrder(c)
    BY <1>1 DEF FindUser, FindOrder, GoTo, GoesOn
  <1>2. CASE InsertUser(c) \/ InsertOrder(c) \/ AddWithdrawalTransaction(c)
    BY <1>2 DEF InsertUser, InsertOrder, AddWithdrawalTransaction, Insert, Rollback,
                GoTo, GoesOn
  <1>3. CASE \/ InsertBalance(c) \/ InsertProcessable(c) \/ SetAccrualPoints(c)
             \/ RemoveProcessableOrder(c)
    BY <1>3 DEF InsertBalance, InsertProcessable, SetAccrualPoints,
                RemoveProcessableOrder, GoTo, GoesOn
  <1>4. CASE SetOrderStatus(c)
    <2>1. call[c].op \in {"MarkOrderProcessing", "MarkOrderInvalid", "MarkOrderProcessed"}
      BY <1>4, StatementOf DEF SetOrderStatus
    <2>2. AfterStatus[call[c].op] # "notEnough"
      BY <2>1 DEF AfterStatus
    <2> QED  BY <1>4, <2>2 DEF SetOrderStatus, GoTo, GoesOn
  <1>5. CASE PostponeOrderProcessing(c)
    BY <1>5 DEF PostponeOrderProcessing, Rollback, GoTo, GoesOn
  <1>6. CASE Commit(c)
    BY <1>6 DEF Commit, GoesOn
  <1>7. CASE Fail(c) \/ Return(c)
    BY <1>7 DEF Fail, Return, Rollback, GoTo, GoesOn
  <1>8. ASSUME NEW k \in Calls, Begin(c, k)
        PROVE  GoesOn(c)
    <2>1. FirstStatement(k.op) # "notEnough"
      BY DEF FirstStatement
    <2> QED  BY <1>8, <2>1 DEF Begin, GoesOn
  <1> QED  BY <1>1, <1>2, <1>3, <1>4, <1>5, <1>6, <1>7, <1>8 DEF Statement

\* A payment is refused for lack of funds only when the balance at that moment
\* is too small, for every precision of the columns and every size of a point,
\* and an accrual is never refused (maybeUpdateBalance, updateBalance).
THEOREM RefusedForLackOfFunds == Spec => RefusedOnlyForLackOfFunds
  <1> DEFINE Refused(c) == pc'[c] = "notEnough" /\ pc[c] # "notEnough"
             Lack(c) == /\ call[c].op = "WithdrawFunds"
                        /\ call[c].amount > db[BalanceRow(call[c].user)].current * Grid
  <1>1. ASSUME IInv, [Next]_vars, NEW c \in Clients, Refused(c)
        PROVE  Lack(c)
    <2>1. pc' # pc /\ pc \in [Clients -> Statements \cup Answers \cup {"idle"}]
      BY <1>1 DEF IInv, TypeOK
    <2>2. PICK d \in Clients :
            (\E k \in Calls : Begin(d, k)) \/ Statement(d) \/ Fail(d) \/ Return(d)
      BY <1>1, <2>1 DEF Next, vars
    <2>3. CASE GoesOn(d)
      BY <1>1, <2>1, <2>3 DEF GoesOn
    <2>4. CASE LockBalance(d)
      <3>1. c = d
        BY <1>1, <2>1, <2>4 DEF LockBalance, GoTo, Rollback
      <3> QED  BY <1>1, <2>4, <3>1, RefusedAtLock
    <2>5. CASE UpdateBalance(d)
      <3>1. c = d
        BY <1>1, <2>1, <2>5 DEF UpdateBalance, GoTo, Rollback
      <3> QED  BY <1>1, <2>5, <3>1, RefusedAtUpdate
    <2> QED  BY <1>1, <2>2, <2>3, <2>4, <2>5, OnlyTheseRefuse
  <1>2. IInv /\ [Next]_vars => [\A c \in Clients : Refused(c) => Lack(c)]_vars
    BY <1>1
  <1> QED  BY <1>2, Invariant, PTL DEF Spec, RefusedOnlyForLackOfFunds

-----------------------------------------------------------------------------
(* The refinement *)

LEMMA InitPromise == Init => Promise!Init
  BY RowsAre DEF Init, Promise!Init, RowsOf

\* As long as no transaction commits, nothing changes for the callers.
LEMMA SameLedger ==
  ASSUME \A r \in Rows : db'[r] = db[r]
  PROVE  UNCHANGED Promise!ledgerVars
  BY RowsAre DEF Promise!ledgerVars, RowsOf

\* Only a commit changes the database.
LEMMA OnlyCommitChanges ==
  ASSUME [Next]_vars
  PROVE  db' = db \/ \E c \in Clients : Commit(c)
  BY DEF Next, vars, Begin, Statement, Fail, Return, FindUser, InsertUser, InsertBalance,
         FindOrder, InsertOrder, InsertProcessable, SetOrderStatus, SetAccrualPoints,
         RemoveProcessableOrder, PostponeOrderProcessing, LockBalance, UpdateBalance,
         AddWithdrawalTransaction, GoTo, Rollback, Insert

LEMMA RegisterStep ==
  ASSUME IInv, NEW c \in Clients, Commit(c), call[c].op = "CreateUser"
  PROVE  Promise!Next
  <1>0. PICK u : u = call[c].user
    OBVIOUS
  <1>1. /\ u \in Users /\ ~Exists(BalanceRow(u))
        /\ db'[BalanceRow(u)] = [current |-> 0, withdrawn |-> 0]
        /\ ChangesOnly({UserRow(u), BalanceRow(u)})
    BY <1>0, CommitRegisters
  <1>2. \A v \in Users : v # u => db'[BalanceRow(v)] = db[BalanceRow(v)]
    BY <1>1, RowsAre, RowKeys DEF ChangesOnly
  <1>3. \A o \in Orders : /\ db'[OrderRow(o)] = db[OrderRow(o)]
                          /\ db'[AccrualRow(o)] = db[AccrualRow(o)]
    BY <1>1, RowsAre, RowKeys DEF ChangesOnly
  <1>4. \A p \in Purchases : db'[PaymentRow(p)] = db[PaymentRow(p)]
    BY <1>1, RowsAre, RowKeys DEF ChangesOnly
  <1>5. Promise!Register(u)
    BY <1>1, <1>2, <1>3, <1>4 DEF Promise!Register, Promise!Registered, RowsOf, Exists
  <1> QED  BY <1>1, <1>5 DEF Promise!Next

LEMMA UploadStep ==
  ASSUME IInv, NEW c \in Clients, Commit(c), call[c].op = "CreateOrder"
  PROVE  Promise!Next
  <1>0. PICK u, o : u = call[c].user /\ o = call[c].order
    OBVIOUS
  <1>1. /\ u \in Users /\ o \in Orders /\ Exists(UserRow(u)) /\ ~Exists(OrderRow(o))
        /\ db'[OrderRow(o)] = [owner |-> u, status |-> "NEW"]
        /\ ChangesOnly({OrderRow(o), QueueRow(o)})
    BY <1>0, CommitUploads
  <1>2. \A v \in Users : db'[BalanceRow(v)] = db[BalanceRow(v)]
    BY <1>1, RowsAre, RowKeys DEF ChangesOnly
  <1>3. \A q \in Orders : /\ q # o => db'[OrderRow(q)] = db[OrderRow(q)]
                          /\ db'[AccrualRow(q)] = db[AccrualRow(q)]
    BY <1>1, RowsAre, RowKeys DEF ChangesOnly
  <1>4. \A p \in Purchases : db'[PaymentRow(p)] = db[PaymentRow(p)]
    BY <1>1, RowsAre, RowKeys DEF ChangesOnly
  <1>5. Exists(BalanceRow(u))
    BY <1>1 DEF IInv, RowsTogether
  <1>6. Promise!Upload(u, o)
    BY <1>1, <1>2, <1>3, <1>4, <1>5 DEF Promise!Upload, Promise!Registered, RowsOf, Exists
  <1> QED  BY <1>1, <1>6 DEF Promise!Next

LEMMA MarkStep ==
  ASSUME IInv, NEW c \in Clients, Commit(c),
         call[c].op \in {"MarkOrderProcessing", "MarkOrderInvalid"}
  PROVE  Promise!Next
  <1>0. PICK o, status : o = call[c].order /\ status = NewStatus[call[c].op]
    OBVIOUS
  <1>1. /\ o \in Orders /\ Exists(OrderRow(o)) /\ db[OrderRow(o)].status \in Processable
        /\ db'[OrderRow(o)] = [db[OrderRow(o)] EXCEPT !.status = status]
    BY <1>0, CommitMarks
  <1>2. ChangesOnly({OrderRow(o), QueueRow(o)})
    BY <1>0, CommitMarksProcessing, CommitMarksInvalid DEF ChangesOnly
  <1>3. \A v \in Users : db'[BalanceRow(v)] = db[BalanceRow(v)]
    BY <1>1, <1>2, RowsAre, RowKeys DEF ChangesOnly
  <1>4. \A q \in Orders : /\ q # o => db'[OrderRow(q)] = db[OrderRow(q)]
                          /\ db'[AccrualRow(q)] = db[AccrualRow(q)]
    BY <1>1, <1>2, RowsAre, RowKeys DEF ChangesOnly
  <1>5. \A p \in Purchases : db'[PaymentRow(p)] = db[PaymentRow(p)]
    BY <1>1, <1>2, RowsAre, RowKeys DEF ChangesOnly
  <1>6. Promise!BeingWorkedOn(o)
    BY <1>1 DEF Promise!BeingWorkedOn, Promise!Processable, Processable, RowsOf, Exists
  <1>7. /\ UNCHANGED <<RowsOf(BalanceRow, Users), RowsOf(AccrualRow, Orders),
                       RowsOf(PaymentRow, Purchases)>>
        /\ RowsOf(OrderRow, Orders)' =
             [RowsOf(OrderRow, Orders) EXCEPT ![o].status = status]
    BY <1>1, <1>3, <1>4, <1>5 DEF RowsOf
  <1>8. CASE call[c].op = "MarkOrderProcessing"
    <2>1. status = "PROCESSING"
      BY <1>0, <1>8 DEF NewStatus
    <2>2. Promise!Process(o)
      BY <1>6, <1>7, <2>1 DEF Promise!Process
    <2> QED  BY <1>1, <2>2 DEF Promise!Next
  <1>9. CASE call[c].op = "MarkOrderInvalid"
    <2>1. status = "INVALID"
      BY <1>0, <1>9 DEF NewStatus
    <2>2. Promise!Reject(o)
      BY <1>6, <1>7, <2>1 DEF Promise!Reject
    <2> QED  BY <1>1, <2>2 DEF Promise!Next
  <1> QED  BY <1>8, <1>9

\* What is added to a column is rounded by itself, and only that.
LEMMA CreditStep ==
  ASSUME IInv, NEW c \in Clients, Commit(c), call[c].op = "MarkOrderProcessed"
  PROVE  Promise!Next
  <1>0. PICK o, u, b, x : /\ o = call[c].order /\ u = db[OrderRow(o)].owner
                          /\ b = BalanceRow(u) /\ x = call[c].amount
    OBVIOUS
  <1>1. /\ o \in Orders /\ Exists(OrderRow(o)) /\ db[OrderRow(o)].status \in Processable
        /\ u \in Users
        /\ db'[OrderRow(o)] = [db[OrderRow(o)] EXCEPT !.status = "PROCESSED"]
    <2>1. NewStatus[call[c].op] = "PROCESSED"
      BY DEF NewStatus
    <2> QED  BY <1>0, <2>1, CommitMarks
  <1>2. /\ db'[AccrualRow(o)] = Column(x) /\ db'[b] = Charged(c, b)
        /\ ChangesOnly({OrderRow(o), QueueRow(o), AccrualRow(o), b})
    BY <1>0, CommitCredits
  <1>3. x \in Accruals /\ x \in Nat
    BY <1>0, StatementOf, StorageAssumption, CallAmounts
  <1>4. /\ db[b] \in BalanceType /\ db[b].current \in Nat /\ db[b].withdrawn \in Nat
        /\ BalanceOwner(c) = u
    <2>1. BalanceOwner(c) = u /\ pc[c] \notin Answers
      BY <1>0 DEF BalanceOwner, Commit, Answers
    <2> QED  BY <1>0, <2>1, BalanceOfCall DEF BalanceType
  <1>5. /\ Charged(c, b).current = db[b].current + Column(x)
        /\ Charged(c, b).withdrawn = db[b].withdrawn
    <2>1. DiffCurrent(c) = x /\ DiffWithdrawn(c) = 0
      BY <1>0 DEF DiffCurrent, DiffWithdrawn
    <2>2. Column(0) = 0
      <3>1. (2 * 0 + Grid) \div (2 * Grid) = 0
        <4>1. /\ 2 * Grid \in Nat \ {0} /\ 2 * 0 + Grid = Grid /\ Grid \in Int
              /\ (2 * Grid) * 0 = 0 /\ 0 <= Grid /\ Grid < 2 * Grid
          BY StorageAssumption
        <4> QED  BY <4>1, QuotientIs
      <3> QED  BY <3>1 DEF Column
    <2>3. /\ Column(db[b].current * Grid + x) = db[b].current + Column(x)
          /\ Column(db[b].withdrawn * Grid + 0) = db[b].withdrawn + Column(0)
      BY <1>3, <1>4, ColumnAdds
    <2> QED  BY <1>4, <2>1, <2>2, <2>3 DEF Charged
  <1>6. db'[b] = [db[b] EXCEPT !.current = @ + Column(x)]
    BY <1>2, <1>4, <1>5 DEF BalanceType, Charged
  <1>7. \A v \in Users : v # u => db'[BalanceRow(v)] = db[BalanceRow(v)]
    BY <1>0, <1>2, RowsAre, RowKeys DEF ChangesOnly
  <1>8. \A q \in Orders : q # o => /\ db'[OrderRow(q)] = db[OrderRow(q)]
                                   /\ db'[AccrualRow(q)] = db[AccrualRow(q)]
    BY <1>0, <1>2, RowsAre, RowKeys DEF ChangesOnly
  <1>9. \A p \in Purchases : db'[PaymentRow(p)] = db[PaymentRow(p)]
    BY <1>0, <1>2, RowsAre, RowKeys DEF ChangesOnly
  <1>10. Promise!BeingWorkedOn(o)
    BY <1>1 DEF Promise!BeingWorkedOn, Promise!Processable, Processable, RowsOf, Exists
  <1>11. RowsOf(OrderRow, Orders)' =
           [RowsOf(OrderRow, Orders) EXCEPT ![o].status = "PROCESSED"]
    BY <1>1, <1>8 DEF RowsOf
  <1>12. RowsOf(AccrualRow, Orders)' = [RowsOf(AccrualRow, Orders) EXCEPT ![o] = Column(x)]
    BY <1>1, <1>2, <1>8 DEF RowsOf
  <1>13. RowsOf(BalanceRow, Users)' =
           [RowsOf(BalanceRow, Users) EXCEPT ![u].current = @ + Column(x)]
    BY <1>0, <1>1, <1>6, <1>7 DEF RowsOf
  <1>14. RowsOf(PaymentRow, Purchases)' = RowsOf(PaymentRow, Purchases)
    BY <1>9 DEF RowsOf
  <1>15. RowsOf(OrderRow, Orders)[o].owner = u
    BY <1>0, <1>1 DEF RowsOf
  <1>16. Promise!Credit(o, Column(x))
    BY <1>10, <1>11, <1>12, <1>13, <1>14, <1>15 DEF Promise!Credit
  <1> QED  BY <1>1, <1>3, <1>16 DEF Promise!Next

LEMMA PayStep ==
  ASSUME IInv, NEW c \in Clients, Commit(c), call[c].op = "WithdrawFunds"
  PROVE  Promise!Next
  <1>0. PICK u, p, b, x : /\ u = call[c].user /\ p = call[c].order
                          /\ b = BalanceRow(u) /\ x = call[c].amount
    OBVIOUS
  <1>1. /\ u \in Users /\ p \in Purchases /\ Exists(b) /\ ~Exists(PaymentRow(p))
        /\ db'[b] = Charged(c, b) /\ Charged(c, b).current >= 0
        /\ db'[PaymentRow(p)] = [user |-> u, amount |-> Column(x)]
        /\ ChangesOnly({b, PaymentRow(p)})
    BY <1>0, CommitPays
  <1>2. x \in Sums /\ x \in Nat
    BY <1>0, StatementOf, StorageAssumption, CallAmounts
  <1>3. db[b] \in BalanceType /\ db[b].current \in Nat /\ db[b].withdrawn \in Nat
    <2>1. BalanceOwner(c) = u /\ pc[c] \notin Answers
      BY <1>0 DEF BalanceOwner, Commit, Answers
    <2> QED  BY <1>0, <2>1, BalanceOfCall DEF BalanceType
  <1>4. PICK n, w, a : /\ n = db[b].current /\ w = db[b].withdrawn /\ a = Column(x)
                       /\ n \in Nat /\ w \in Nat /\ a \in Nat
    BY <1>2, <1>3, ColumnNat
  <1>5. PICK rest : rest = Column(n * Grid - x)
    OBVIOUS
  <1>6. Charged(c, b).current = rest /\ Charged(c, b).withdrawn = w + a
    <2>1. DiffCurrent(c) = -x /\ DiffWithdrawn(c) = x
      BY <1>0 DEF DiffCurrent, DiffWithdrawn
    <2>2. n * Grid \in Int /\ n * Grid + (-x) = n * Grid - x
      BY <1>2, <1>4, StorageAssumption, Z3
    <2>3. Column(w * Grid + x) = w + Column(x)
      BY <1>2, <1>4, ColumnAdds
    <2> QED  BY <1>4, <1>5, <2>1, <2>2, <2>3 DEF Charged
  <1>7. /\ rest \in Int /\ rest >= 0
        /\ rest - (n - a) \in 0 .. (IF Grid = 1 THEN 0 ELSE 1)
    <2>1. n * Grid - x \in Int
      BY <1>2, <1>4, StorageAssumption, Z3
    <2> QED  BY <1>1, <1>2, <1>4, <1>5, <1>6, <2>1, ColumnInt, ColumnSubtracts
  <1>8. PICK s \in 0 .. (IF Grid = 1 THEN 0 ELSE 1) : rest = n - (a - s) /\ a - s <= n
    <2>1. /\ rest - (n - a) \in Int
          /\ rest = n - (a - (rest - (n - a))) /\ a - (rest - (n - a)) <= n
      BY <1>4, <1>7
    <2> QED  BY <1>7, <2>1
  <1>9. db'[b] = [db[b] EXCEPT !.current = @ - (a - s), !.withdrawn = @ + a]
    BY <1>1, <1>3, <1>4, <1>6, <1>8 DEF BalanceType, Charged
  <1>10. \A v \in Users : v # u => db'[BalanceRow(v)] = db[BalanceRow(v)]
    BY <1>0, <1>1, RowsAre, RowKeys DEF ChangesOnly
  <1>11. \A o \in Orders : /\ db'[OrderRow(o)] = db[OrderRow(o)]
                           /\ db'[AccrualRow(o)] = db[AccrualRow(o)]
    BY <1>0, <1>1, RowsAre, RowKeys DEF ChangesOnly
  <1>12. \A q \in Purchases : q # p => db'[PaymentRow(q)] = db[PaymentRow(q)]
    BY <1>0, <1>1, RowsAre, RowKeys DEF ChangesOnly
  <1>13. RowsOf(BalanceRow, Users)' =
           [RowsOf(BalanceRow, Users) EXCEPT ![u].current = @ - (a - s),
                                             ![u].withdrawn = @ + a]
    BY <1>0, <1>1, <1>9, <1>10 DEF RowsOf
  <1>14. RowsOf(PaymentRow, Purchases)' =
           [RowsOf(PaymentRow, Purchases) EXCEPT ![p] = [user |-> u, amount |-> a]]
    BY <1>1, <1>4, <1>12 DEF RowsOf
  <1>15. UNCHANGED <<RowsOf(OrderRow, Orders), RowsOf(AccrualRow, Orders)>>
    BY <1>11 DEF RowsOf
  <1>16. /\ RowsOf(BalanceRow, Users)[u] # NoRow /\ RowsOf(PaymentRow, Purchases)[p] = NoRow
         /\ a - s <= RowsOf(BalanceRow, Users)[u].current
    BY <1>0, <1>1, <1>4, <1>8 DEF RowsOf, Exists
  <1>17. Promise!Pay(u, p, a, a - s)
    BY <1>13, <1>14, <1>15, <1>16 DEF Promise!Pay, Promise!Registered
  <1> QED  BY <1>1, <1>2, <1>4, <1>8, <1>17 DEF Promise!Next

\* Every step is a whole operation, or nothing a caller could see.
LEMMA LedgerStep ==
  ASSUME IInv, [Next]_vars
  PROVE  Promise!Next \/ \A r \in Rows : db'[r] = db[r]
  <1>1. CASE db' = db
    BY <1>1
  <1>2. ASSUME NEW c \in Clients, Commit(c)
        PROVE  Promise!Next \/ \A r \in Rows : db'[r] = db[r]
    <2>1. Working(c) /\ pc[c] = "commit" /\ call[c] \in Calls \cup {NoCall}
      BY <1>2 DEF IInv, TypeOK, Commit
    <2>2. call[c].op # "none"
      BY <2>1, CallTypes DEF Working, AtRest
    <2>3. CASE call[c].op = "PostponeOrderProcessing"
      BY <1>2, <2>3, CommitPostpones DEF ChangesOnly
    <2> QED  BY <1>2, <2>1, <2>2, <2>3, CallTypes, RegisterStep, UploadStep, MarkStep,
                CreditStep, PayStep
  <1> QED  BY <1>1, <1>2, OnlyCommitChanges

\* The transactions amount to whole operations on users, orders, balances and
\* payments, one at a time, whatever their statements interleave with and
\* whichever of them fail (transactionMarkOrderProcessed, WithdrawFunds, ...).
THEOREM Refinement == Spec => ImplementsLedger
  <1>1. IInv /\ [Next]_vars => [Promise!Next]_Promise!ledgerVars
    BY LedgerStep, SameLedger
  <1> QED  BY <1>1, InitPromise, Invariant, PTL DEF Spec, ImplementsLedger, Promise!Spec

-----------------------------------------------------------------------------
(* What the database keeps *)

\* Users and payments stay as they are; an order keeps its owner, and its status
\* once nobody works on it.
Grown ==
  /\ \A u \in Users : Exists(UserRow(u)) => db'[UserRow(u)] = db[UserRow(u)]
  /\ \A o \in Orders : Exists(OrderRow(o)) =>
       /\ db'[OrderRow(o)] # NoRow
       /\ db'[OrderRow(o)].owner = db[OrderRow(o)].owner
       /\ db[OrderRow(o)].status \notin Processable =>
            db'[OrderRow(o)].status = db[OrderRow(o)].status
  /\ \A p \in Purchases : Exists(PaymentRow(p)) => db'[PaymentRow(p)] = db[PaymentRow(p)]

LEMMA OrdersGrow ==
  ASSUME IInv, NEW c \in Clients, Commit(c), NEW o \in Orders, Exists(OrderRow(o))
  PROVE  /\ db'[OrderRow(o)] # NoRow
         /\ db'[OrderRow(o)].owner = db[OrderRow(o)].owner
         /\ db[OrderRow(o)].status \notin Processable =>
              db'[OrderRow(o)].status = db[OrderRow(o)].status
  <1>1. OrdersStay(c) /\ call[c] \in Calls \cup {NoCall}
    BY AllCommitted DEF CommitEffect, IInv, TypeOK
  <1>2. CASE db'[OrderRow(o)] = db[OrderRow(o)]
    BY <1>2 DEF Exists
  <1>3. CASE call[c] \in WorkerCalls /\ call[c].order = o
    <2>1. CASE call[c].op = "PostponeOrderProcessing"
      BY <1>2, <2>1, CommitPostpones, RowsAre DEF ChangesOnly
    <2>2. CASE call[c].op # "PostponeOrderProcessing"
      <3>1. call[c].op \in {"MarkOrderProcessing", "MarkOrderInvalid", "MarkOrderProcessed"}
        BY <1>1, <1>3, <2>2, CallTypes
      <3> QED  BY <1>3, <3>1, CommitMarks
    <2> QED  BY <2>1, <2>2
  <1> QED  BY <1>1, <1>2, <1>3 DEF OrdersStay

LEMMA PaymentsGrow ==
  ASSUME IInv, NEW c \in Clients, Commit(c), NEW p \in Purchases, Exists(PaymentRow(p))
  PROVE  db'[PaymentRow(p)] = db[PaymentRow(p)]
  <1>1. Working(c) /\ pc[c] = "commit" /\ call[c] \in Calls \cup {NoCall}
    BY DEF IInv, TypeOK, Commit
  <1>2. call[c].op # "none"
    BY <1>1, CallTypes DEF Working, AtRest
  <1>3. PaymentRow(p) \in Rows
    BY RowsAre
  <1>4. CASE call[c].op = "CreateUser"
    BY <1>3, <1>4, CommitRegisters, RowKeys DEF ChangesOnly
  <1>5. CASE call[c].op = "CreateOrder"
    <2>1. ChangesOnly({OrderRow(call[c].order), QueueRow(call[c].order)})
      BY <1>5, CommitUploads
    <2> QED  BY <1>3, <2>1, RowsDiffer DEF ChangesOnly
  <1>6. CASE call[c].op = "WithdrawFunds"
    <2>1. /\ ChangesOnly({BalanceRow(call[c].user), PaymentRow(call[c].order)})
          /\ ~Exists(PaymentRow(call[c].order))
      BY <1>6, CommitPays
    <2>2. PaymentRow(p) # PaymentRow(call[c].order)
      BY <2>1
    <2> QED  BY <1>3, <2>1, <2>2, RowsDiffer DEF ChangesOnly
  <1>7. CASE call[c].op = "MarkOrderProcessing"
    BY <1>3, <1>7, CommitMarksProcessing, RowKeys DEF ChangesOnly
  <1>8. CASE call[c].op = "MarkOrderInvalid"
    BY <1>3, <1>8, CommitMarksInvalid, RowKeys DEF ChangesOnly
  <1>9. CASE call[c].op = "MarkOrderProcessed"
    BY <1>3, <1>9, CommitCredits, RowKeys DEF ChangesOnly
  <1>10. CASE call[c].op = "PostponeOrderProcessing"
    BY <1>3, <1>10, CommitPostpones DEF ChangesOnly
  <1> QED  BY <1>1, <1>2, <1>4, <1>5, <1>6, <1>7, <1>8, <1>9, <1>10, CallTypes

LEMMA DatabaseGrows ==
  ASSUME IInv, [Next]_vars
  PROVE  Grown
  <1>1. CASE db' = db
    BY <1>1 DEF Grown, Exists
  <1>2. ASSUME NEW c \in Clients, Commit(c)
        PROVE  Grown
    <2>1. UsersStay
      BY <1>2, AllCommitted DEF CommitEffect
    <2> QED  BY <1>2, <2>1, OrdersGrow, PaymentsGrow DEF Grown, UsersStay
  <1> QED  BY <1>1, <1>2, OnlyCommitChanges
=============================================================================
