------------------------------ MODULE ApiProofs ------------------------------
(***************************************************************************)
(* Proofs about Api for any users, orders, payments and clients: what a    *)
(* client was told is so and stays so. The storage's invariant, proved in  *)
(* StorageProofs, says what is in the database when a call returns; here   *)
(* it is carried to the response and beyond it, restarts included.         *)
(***************************************************************************)
EXTENDS Api, MoneyProofs

-----------------------------------------------------------------------------
(* The inductive invariant *)

Owns(u, o) == Exists(OrderRow(o)) /\ db[OrderRow(o)].owner = u
PaidFor(u, p, x) == db[PaymentRow(p)] = [user |-> u, amount |-> Column(x)]

\* What the storage answered is in the database.
Kept(c) ==
  LET k == call[c]
  IN  /\ k.op = "CreateOrder" /\ pc[c] = "ok" => Owns(k.user, k.order)
      /\ k.op = "CreateOrder" /\ pc[c] = "exists" => Exists(OrderRow(k.order))
      /\ k.op = "WithdrawFunds" /\ pc[c] = "ok" => PaidFor(k.user, k.order, k.amount)

\* The request of c was successful, whether c knows of it already or not.
Successful == {<<"UploadOrder", 202>>, <<"RegisterUser", 200>>, <<"Withdraw", 200>>}

Told(c) ==
  /\ request[c].op \in {"UploadOrder", "RegisterUser", "Withdraw"}
  /\ \/ <<request[c].op, response[c]>> \in Successful
     \/ response[c] = None /\ pc[c] = "ok"

\* The row a successful request has added.
RowOf(r) ==
  CASE r.op = "RegisterUser" -> UserRow(r.user)
    [] r.op = "UploadOrder" -> OrderRow(r.order)
    [] OTHER -> PaymentRow(r.order)

\* A client that serves a request calls the storage for it, and has read only
\* what that request reads.
Linked(c) ==
  /\ request[c] \in Requests \cup {NoRequest}
  /\ request[c] # NoRequest =>
       call[c] = IF response[c] = None THEN CallOf(request[c]) ELSE NoCall
  /\ seen[c] # <<>> => request[c].op \in {"GetBalance", "ListOrders"}

\* The clause of ToldTheTruth for one client.
Truth(c) ==
  LET r == request[c]
  IN  /\ Answered(c, "UploadOrder", {200, 202}) => r.order \in OrdersOf(r.user)
      /\ Answered(c, "UploadOrder", {409}) =>
           \E u \in Users \ {r.user} : r.order \in OrdersOf(u)
      /\ Answered(c, "Withdraw", {200}) => PaidFor(r.user, r.order, r.amount)

\* The orders a client has listed are there, those with a final status as listed.
Listed(orders) ==
  \A o \in DOMAIN orders :
    /\ o \in Orders /\ Exists(OrderRow(o))
    /\ orders[o] \in {"PROCESSED", "INVALID"} => db[OrderRow(o)].status = orders[o]

Listing(c) ==
  request[c].op = "ListOrders" =>
    seen[c] = <<>> \/ (seen[c] = <<seen[c][1]>> /\ Listed(seen[c][1]))

Served(c) ==
  /\ Linked(c) /\ Truth(c) /\ Listing(c)
  /\ Told(c) => Exists(RowOf(request[c]))

\* No two clients are told that they have added the same row.
ToldApart ==
  \A c, d \in Clients :
    c # d /\ Told(c) /\ Told(d) => RowOf(request[c]) # RowOf(request[d])

AInv ==
  /\ IInv /\ \A c \in Clients : Kept(c)
  /\ DOMAIN request = Clients /\ DOMAIN response = Clients /\ DOMAIN seen = Clients
  /\ tokens \subseteq Users /\ TokensNameUsers
  /\ \A c \in Clients : Served(c)
  /\ ToldApart

-----------------------------------------------------------------------------
(* Steps of the storage *)

StepOf(c) ==
  (\E k \in Calls : Begin(c, k)) \/ Statement(c) \/ Fail(c) \/ Return(c)

\* The other clients do not move.
Still(c) == \A d \in Clients \ {c} : call'[d] = call[d] /\ pc'[d] = pc[d]

LEMMA StatementMoves ==
  ASSUME NEW c \in Clients, Statement(c) \/ Fail(c)
  PROVE  call' = call /\ \E s : pc' = [pc EXCEPT ![c] = s]
  <1>1. ASSUME NEW s, GoTo(c, s)
        PROVE  call' = call /\ \E t : pc' = [pc EXCEPT ![c] = t]
    BY <1>1 DEF GoTo
  <1>2. CASE Fail(c) \/ FindUser(c) \/ FindOrder(c)
    BY <1>1, <1>2 DEF Fail, Rollback, GoTo, FindUser, FindOrder
  <1>3. CASE InsertUser(c) \/ InsertOrder(c) \/ AddWithdrawalTransaction(c)
    BY <1>1, <1>3 DEF InsertUser, InsertOrder, AddWithdrawalTransaction, Insert,
                      Rollback, GoTo
  <1>4. CASE \/ InsertBalance(c) \/ InsertProcessable(c) \/ SetAccrualPoints(c)
             \/ RemoveProcessableOrder(c) \/ SetOrderStatus(c)
    BY <1>1, <1>4 DEF InsertBalance, InsertProcessable, SetAccrualPoints,
                      RemoveProcessableOrder, SetOrderStatus
  <1>5. CASE PostponeOrderProcessing(c) \/ LockBalance(c)
    BY <1>1, <1>5 DEF PostponeOrderProcessing, LockBalance, Rollback, GoTo
  <1>6. CASE UpdateBalance(c)
    BY <1>1, <1>6 DEF UpdateBalance, Rollback, GoTo
  <1>7. CASE Commit(c)
    BY <1>7 DEF Commit
  <1> QED  BY <1>2, <1>3, <1>4, <1>5, <1>6, <1>7 DEF Statement

LEMMA OneMoves ==
  ASSUME IInv, NEW c \in Clients, StepOf(c)
  PROVE  IInv' /\ Grown /\ Still(c)
  <1>0. /\ call \in [Clients -> Calls \cup {NoCall}]
        /\ pc \in [Clients -> Statements \cup Answers \cup {"idle"}]
    BY DEF IInv, TypeOK
  <1>1. [Next]_vars
    BY DEF StepOf, Next
  <1>2. IInv' /\ Grown
    BY <1>1, NextIInv, DatabaseGrows
  <1>3. ASSUME NEW k \in Calls, Begin(c, k)
        PROVE  Still(c)
    BY <1>0, <1>3 DEF Begin, Still
  <1>4. ASSUME Return(c)
        PROVE  Still(c)
    BY <1>0, <1>4 DEF Return, Still
  <1>5. ASSUME \E s : pc' = [pc EXCEPT ![c] = s], call' = call
        PROVE  Still(c)
    BY <1>0, <1>5 DEF Still
  <1>6. ASSUME Statement(c) \/ Fail(c)
        PROVE  Still(c)
    BY <1>5, <1>6, StatementMoves
  <1> QED  BY <1>2, <1>3, <1>4, <1>5, <1>6 DEF StepOf

\* Only a look-up or a commit ends a call with an answer that says something.
Silent(c) == \E s : s \notin {"ok", "exists"} /\ pc' = [pc EXCEPT ![c] = s]

LEMMA OnlyTheseAnswer ==
  ASSUME IInv, NEW c \in Clients, StepOf(c)
  PROVE  Silent(c) \/ FindOrder(c) \/ Commit(c)
  <1>1. CASE FindUser(c)
    BY <1>1 DEF FindUser, GoTo, Silent
  <1>2. CASE InsertUser(c) \/ InsertOrder(c) \/ AddWithdrawalTransaction(c)
    BY <1>2 DEF InsertUser, InsertOrder, AddWithdrawalTransaction, Insert, Rollback,
                GoTo, Silent
  <1>3. CASE \/ InsertBalance(c) \/ InsertProcessable(c) \/ SetAccrualPoints(c)
             \/ RemoveProcessableOrder(c)
    BY <1>3 DEF InsertBalance, InsertProcessable, SetAccrualPoints,
                RemoveProcessableOrder, GoTo, Silent
  <1>4. CASE SetOrderStatus(c)
    <2>1. call[c].op \in {"MarkOrderProcessing", "MarkOrderInvalid", "MarkOrderProcessed"}
      BY <1>4, StatementOf DEF SetOrderStatus
    <2>2. AfterStatus[call[c].op] \notin {"ok", "exists"}
      BY <2>1 DEF AfterStatus
    <2> QED  BY <1>4, <2>2 DEF SetOrderStatus, GoTo, Silent
  <1>5. CASE PostponeOrderProcessing(c)
    BY <1>5 DEF PostponeOrderProcessing, Rollback, GoTo, Silent
  <1>6. CASE LockBalance(c)
    BY <1>6 DEF LockBalance, Rollback, GoTo, Silent
  <1>7. CASE UpdateBalance(c)
    <2>1. \A b \in BOOLEAN : (IF b THEN "insertWithdrawal" ELSE "removeProcessable")
            \notin {"ok", "exists"}
      OBVIOUS
    <2> QED  BY <1>7, <2>1 DEF UpdateBalance, Rollback, GoTo, Silent
  <1>8. CASE Fail(c) \/ Return(c)
    BY <1>8 DEF Fail, Return, Rollback, GoTo, Silent
  <1>9. ASSUME NEW k \in Calls, Begin(c, k)
        PROVE  Silent(c)
    <2>1. FirstStatement(k.op) \notin {"ok", "exists"}
      BY DEF FirstStatement
    <2> QED  BY <1>9, <2>1 DEF Begin, Silent
  <1> QED  BY <1>1, <1>2, <1>3, <1>4, <1>5, <1>6, <1>7, <1>8, <1>9 DEF StepOf, Statement

\* What a client was answered stays true when others go on.
LEMMA KeptStays ==
  ASSUME IInv, Grown, NEW d \in Clients, Kept(d), call'[d] = call[d], pc'[d] = pc[d]
  PROVE  Kept(d)'
  <1>1. PICK k : k = call[d]
    OBVIOUS
  <1>2. k \in Calls \cup {NoCall}
    BY <1>1 DEF IInv, TypeOK
  <1>3. ASSUME k.op = "CreateOrder"
        PROVE  Exists(OrderRow(k.order)) =>
                 /\ db'[OrderRow(k.order)] # NoRow
                 /\ db'[OrderRow(k.order)].owner = db[OrderRow(k.order)].owner
    BY <1>2, <1>3, CallTypes DEF Grown
  <1>4. ASSUME k.op = "WithdrawFunds", PaidFor(k.user, k.order, k.amount)
        PROVE  PaidFor(k.user, k.order, k.amount)'
    <2>1. /\ k.user \in Users /\ k.order \in Purchases /\ k.amount \in Nat
      BY <1>2, <1>4, CallTypes
    <2>2. [user |-> k.user, amount |-> Column(k.amount)] \in PaymentType
      BY <2>1, ColumnNat DEF PaymentType
    <2>3. Exists(PaymentRow(k.order))
      BY <1>4, <2>2, TableIs DEF PaidFor, Exists
    <2> QED  BY <1>4, <2>1, <2>3 DEF Grown, PaidFor
  <1> QED  BY <1>1, <1>3, <1>4 DEF Kept, Owns, Exists

LEMMA KeptAfterStep ==
  ASSUME IInv, \A d \in Clients : Kept(d), NEW c \in Clients, StepOf(c)
  PROVE  \A d \in Clients : Kept(d)'
  <1>1. /\ Grown /\ Still(c)
        /\ pc \in [Clients -> Statements \cup Answers \cup {"idle"}]
    BY OneMoves DEF IInv, TypeOK
  <1>2. \A d \in Clients \ {c} : Kept(d)'
    BY <1>1, KeptStays DEF Still
  <1>3. CASE Silent(c)
    <2>1. pc'[c] \notin {"ok", "exists"}
      BY <1>1, <1>3 DEF Silent
    <2> QED  BY <1>2, <2>1 DEF Kept
  <1>4. CASE FindOrder(c)
    <2>1. /\ call[c].op = "CreateOrder" /\ call' = call /\ db' = db
          /\ pc'[c] \in {"exists", "insertOrder"}
          /\ pc'[c] = "exists" => Exists(OrderRow(call[c].order))
      BY <1>1, <1>4, StatementOf DEF FindOrder, GoTo
    <2>2. Kept(c)'
      BY <2>1 DEF Kept, Exists
    <2> QED  BY <1>2, <2>2
  <1>5. CASE Commit(c)
    <2>1. PICK k : k = call[c]
      OBVIOUS
    <2>2. call'[c] = k /\ pc'[c] \in {"ok", "error"}
      BY <1>5, <2>1, CommitCommits DEF Commits, IInv
    <2>3. k.op = "CreateOrder" =>
            db'[OrderRow(k.order)] # NoRow /\ db'[OrderRow(k.order)].owner = k.user
      BY <1>5, <2>1, CommitUploads
    <2>4. k.op = "WithdrawFunds" =>
            db'[PaymentRow(k.order)] = [user |-> k.user, amount |-> Column(k.amount)]
      BY <1>5, <2>1, CommitPays
    <2>5. Kept(c)'
      BY <2>2, <2>3, <2>4 DEF Kept, Owns, PaidFor, Exists
    <2> QED  BY <1>2, <2>5
  <1> QED  BY <1>3, <1>4, <1>5, OnlyTheseAnswer

-----------------------------------------------------------------------------
(* Requests *)

LEMMA RequestTypes ==
  ASSUME NEW r \in Requests
  PROVE  /\ r.op \in {"RegisterUser", "AuthenticateUser", "UploadOrder", "Withdraw",
                      "GetBalance", "ListOrders", "ListWithdrawals"}
         /\ r.user \in Users
         /\ r.op = "UploadOrder" => r.order \in Orders
         /\ r.op = "Withdraw" => r.order \in Purchases
         /\ r # NoRequest
  <1>1. CASE r \in [op : {"RegisterUser", "AuthenticateUser"}, user : Users,
                    password : Passwords]
    BY <1>1 DEF NoRequest
  <1>2. CASE r \in [op : {"UploadOrder"}, user : Users, order : Orders]
    BY <1>2 DEF NoRequest
  <1>3. CASE r \in [op : {"Withdraw"}, user : Users, order : Purchases, amount : Sums]
    BY <1>3 DEF NoRequest
  <1>4. CASE r \in [op : {"GetBalance", "ListOrders", "ListWithdrawals"}, user : Users]
    BY <1>4 DEF NoRequest
  <1> QED  BY <1>1, <1>2, <1>3, <1>4 DEF Requests

\* The call that serves a request names what the request names, and is no
\* worker's.
LEMMA CallServes ==
  ASSUME NEW r \in Requests
  PROVE  /\ CallOf(r) \in Calls \cup {NoCall}
         /\ r.op = "RegisterUser" =>
              CallOf(r).op = "CreateUser" /\ CallOf(r).user = r.user
         /\ r.op = "UploadOrder" =>
              /\ CallOf(r).op = "CreateOrder"
              /\ CallOf(r).user = r.user /\ CallOf(r).order = r.order
         /\ r.op = "Withdraw" =>
              /\ CallOf(r).op = "WithdrawFunds" /\ CallOf(r).user = r.user
              /\ CallOf(r).order = r.order /\ CallOf(r).amount = r.amount
         /\ CallOf(r) # NoCall <=> r.op \in {"RegisterUser", "UploadOrder", "Withdraw"}
  <1>1. CASE r \in [op : {"RegisterUser", "AuthenticateUser"}, user : Users,
                    password : Passwords]
    <2>1. CASE r.op = "RegisterUser"
      <3>1. CallOf(r) = [r EXCEPT !.op = "CreateUser"]
        BY <2>1 DEF CallOf
      <3>2. CallOf(r) \in [op : {"CreateUser"}, user : Users, password : Passwords]
        BY <1>1, <3>1
      <3> QED  BY <1>1, <2>1, <3>1, <3>2 DEF Calls, NoCall
    <2>2. CASE r.op = "AuthenticateUser"
      BY <2>2 DEF CallOf
    <2> QED  BY <1>1, <2>1, <2>2
  <1>2. CASE r \in [op : {"UploadOrder"}, user : Users, order : Orders]
    <2>1. CallOf(r) = [r EXCEPT !.op = "CreateOrder"]
      BY <1>2 DEF CallOf
    <2>2. CallOf(r) \in [op : {"CreateOrder"}, user : Users, order : Orders]
      BY <1>2, <2>1
    <2> QED  BY <1>2, <2>1, <2>2 DEF Calls, NoCall
  <1>3. CASE r \in [op : {"Withdraw"}, user : Users, order : Purchases, amount : Sums]
    <2>1. CallOf(r) = [r EXCEPT !.op = "WithdrawFunds"]
      BY <1>3 DEF CallOf
    <2>2. CallOf(r) \in [op : {"WithdrawFunds"}, user : Users, order : Purchases,
                         amount : Sums]
      BY <1>3, <2>1
    <2> QED  BY <1>3, <2>1, <2>2 DEF Calls, NoCall
  <1>4. CASE r \in [op : {"GetBalance", "ListOrders", "ListWithdrawals"}, user : Users]
    BY <1>4 DEF CallOf
  <1> QED  BY <1>1, <1>2, <1>3, <1>4 DEF Requests

\* An order is a user's when its row says so.
LEMMA OrdersOwned ==
  ASSUME NEW u, NEW o
  PROVE  o \in OrdersOf(u) <=> o \in Orders /\ Owns(u, o)
  BY DEF OrdersOf, Owns

-----------------------------------------------------------------------------
(* What was served stays served *)

\* Nothing about d moves except the database.
Waits(d) ==
  /\ call'[d] = call[d] /\ pc'[d] = pc[d]
  /\ request'[d] = request[d] /\ response'[d] = response[d] /\ seen'[d] = seen[d]

LEMMA OwnsStays ==
  ASSUME Grown, NEW o \in Orders, NEW u, Owns(u, o)
  PROVE  Owns(u, o)'
  BY DEF Grown, Owns, Exists

LEMMA PaidForStays ==
  ASSUME Grown, NEW u \in Users, NEW p \in Purchases, NEW x, Exists(PaymentRow(p)),
         PaidFor(u, p, x)
  PROVE  PaidFor(u, p, x)'
  BY DEF Grown, PaidFor

LEMMA RowStays ==
  ASSUME IInv, Grown, NEW r \in Requests,
         r.op \in {"UploadOrder", "RegisterUser", "Withdraw"}, Exists(RowOf(r))
  PROVE  db'[RowOf(r)] # NoRow
  <1>1. CASE r.op = "UploadOrder"
    BY <1>1, RequestTypes DEF Grown, Exists, RowOf
  <1>2. CASE r.op = "RegisterUser"
    BY <1>2, RequestTypes DEF Grown, Exists, RowOf
  <1>3. CASE r.op = "Withdraw"
    BY <1>3, RequestTypes DEF Grown, Exists, RowOf
  <1> QED  BY <1>1, <1>2, <1>3

LEMMA ListedStays ==
  ASSUME Grown, NEW orders, Listed(orders)
  PROVE  Listed(orders)'
  <1> SUFFICES ASSUME NEW o \in DOMAIN orders
               PROVE  /\ o \in Orders /\ db'[OrderRow(o)] # NoRow
                      /\ orders[o] \in {"PROCESSED", "INVALID"} =>
                           db'[OrderRow(o)].status = orders[o]
    BY DEF Listed, Exists
  <1>1. /\ o \in Orders /\ Exists(OrderRow(o))
        /\ orders[o] \in {"PROCESSED", "INVALID"} => db[OrderRow(o)].status = orders[o]
    BY DEF Listed
  <1>2. /\ db'[OrderRow(o)] # NoRow
        /\ db[OrderRow(o)].status \notin Processable =>
             db'[OrderRow(o)].status = db[OrderRow(o)].status
    BY <1>1 DEF Grown
  <1>3. "PROCESSED" \notin Processable /\ "INVALID" \notin Processable
    BY DEF Processable
  <1> QED  BY <1>1, <1>2, <1>3

LEMMA ServedStays ==
  ASSUME IInv, Grown, NEW d \in Clients, Served(d), Waits(d)
  PROVE  Served(d)'
  <1>0. PICK r, s, x, y : r = request[d] /\ s = response[d] /\ x = seen[d] /\ y = call[d]
    OBVIOUS
  <1>1. /\ request'[d] = r /\ response'[d] = s /\ seen'[d] = x /\ call'[d] = y
        /\ pc'[d] = pc[d]
    BY <1>0 DEF Waits
  <1>2. /\ r \in Requests \cup {NoRequest}
        /\ r # NoRequest => y = IF s = None THEN CallOf(r) ELSE NoCall
        /\ x # <<>> => r.op \in {"GetBalance", "ListOrders"}
    BY <1>0 DEF Served, Linked
  <1>3. Linked(d)'
    BY <1>1, <1>2 DEF Linked
  <1>4. NoRequest.op = "none"
    BY DEF NoRequest
  <1>5. Truth(d)'
    <2>1. CASE r.op = "UploadOrder" /\ s \in {200, 202}
      <3>1. r.order \in Orders /\ Owns(r.user, r.order)
        BY <1>0, <2>1, OrdersOwned DEF Served, Truth, Answered
      <3>2. Owns(r.user, r.order)'
        BY <3>1, OwnsStays
      <3>3. (r.order \in OrdersOf(r.user))'
        BY <3>1, <3>2 DEF OrdersOf, Owns
      <3> QED  BY <1>1, <2>1, <3>3 DEF Truth, Answered
    <2>2. CASE r.op = "UploadOrder" /\ s = 409
      <3>1. PICK u \in Users \ {r.user} : r.order \in OrdersOf(u)
        BY <1>0, <2>2 DEF Served, Truth, Answered
      <3>2. r.order \in Orders /\ Owns(u, r.order)'
        BY <3>1, OrdersOwned, OwnsStays
      <3>3. (r.order \in OrdersOf(u))'
        BY <3>2 DEF OrdersOf, Owns
      <3> QED  BY <1>1, <2>2, <3>1, <3>3 DEF Truth, Answered
    <2>3. CASE r.op = "Withdraw" /\ s = 200
      <3>1. PaidFor(r.user, r.order, r.amount)
        BY <1>0, <2>3 DEF Served, Truth, Answered
      <3>2. r.user \in Users /\ r.order \in Purchases
        BY <1>2, <1>4, <2>3, RequestTypes
      <3>3. Told(d)
        BY <1>0, <2>3 DEF Told, Successful
      <3>4. Exists(PaymentRow(r.order))
        BY <1>0, <2>3, <3>3 DEF Served, RowOf
      <3>5. PaidFor(r.user, r.order, r.amount)'
        BY <3>1, <3>2, <3>4, PaidForStays
      <3> QED  BY <1>1, <2>3, <3>5 DEF Truth, Answered
    <2> QED  BY <1>1, <2>1, <2>2, <2>3 DEF Truth, Answered
  <1>6. Listing(d)'
    <2>1. CASE r.op = "ListOrders" /\ x # <<>>
      <3>1. x = <<x[1]>> /\ Listed(x[1])
        BY <1>0, <2>1 DEF Served, Listing
      <3>2. Listed(x[1])'
        BY <3>1, ListedStays
      <3> QED  BY <1>1, <3>1, <3>2 DEF Listing
    <2> QED  BY <1>1, <2>1 DEF Listing
  <1>7. Told(d)' => Exists(RowOf(request[d]))'
    <2> SUFFICES ASSUME Told(d)' PROVE db'[RowOf(r)] # NoRow
      BY <1>0, <1>1 DEF Exists
    <2>1. Told(d)
      BY <1>0, <1>1 DEF Told
    <2>2. r.op \in {"UploadOrder", "RegisterUser", "Withdraw"} /\ Exists(RowOf(r))
      BY <1>0, <2>1 DEF Told, Served
    <2> QED  BY <1>2, <1>4, <2>2, RowStays
  <1> QED  BY <1>3, <1>5, <1>6, <1>7 DEF Served

-----------------------------------------------------------------------------
(* A step of one client *)

\* The others' requests are left alone.
OthersServed(c) ==
  /\ DOMAIN request' = Clients /\ DOMAIN response' = Clients /\ DOMAIN seen' = Clients
  /\ \A d \in Clients \ {c} :
       request'[d] = request[d] /\ response'[d] = response[d] /\ seen'[d] = seen[d]

\* If c is told that it has added a row, it was before, or the row was not there.
Fresh(c) ==
  Told(c)' => \/ Told(c) /\ request'[c] = request[c]
              \/ ~Exists(RowOf(request'[c]))

LEMMA StorageMoves ==
  ASSUME AInv, NEW c \in Clients, StepOf(c) \/ UNCHANGED vars
  PROVE  /\ IInv' /\ Grown /\ Still(c)
         /\ \A d \in Clients : Kept(d)'
  <1>1. CASE StepOf(c)
    BY <1>1, OneMoves, KeptAfterStep DEF AInv
  <1>2. CASE UNCHANGED vars
    <2>1. IInv' /\ Grown
      BY <1>2, NextIInv, DatabaseGrows DEF AInv
    <2>2. Still(c)
      BY <1>2 DEF vars, Still
    <2>3. ASSUME NEW d \in Clients PROVE Kept(d)'
      BY <1>2, <2>1, KeptStays DEF AInv, vars
    <2> QED  BY <2>1, <2>2, <2>3
  <1> QED  BY <1>1, <1>2

LEMMA CarriedOn ==
  ASSUME AInv, NEW c \in Clients, StepOf(c) \/ UNCHANGED vars, OthersServed(c),
         Served(c)', Fresh(c), tokens' \subseteq Users, \A u \in tokens' : Exists(UserRow(u))
  PROVE  AInv'
  <1>1. /\ IInv' /\ Grown /\ Still(c)
        /\ \A d \in Clients : Kept(d)'
    BY StorageMoves
  <1>2. ASSUME NEW d \in Clients \ {c}
        PROVE  Served(d)' /\ (Told(d)' => Told(d) /\ request'[d] = request[d])
    <2>1. Waits(d)
      BY <1>1 DEF Still, OthersServed, Waits
    <2>2. Served(d)'
      BY <1>1, <2>1, ServedStays DEF AInv
    <2>3. Told(d)' => Told(d) /\ request'[d] = request[d]
      BY <2>1 DEF Told, Waits
    <2> QED  BY <2>2, <2>3
  <1>3. ASSUME NEW d \in Clients \ {c}, Told(c)', Told(d)'
        PROVE  RowOf(request'[c]) # RowOf(request'[d])
    <2>1. Told(d) /\ request'[d] = request[d] /\ Exists(RowOf(request[d]))
      BY <1>2, <1>3 DEF AInv, Served
    <2>2. CASE Told(c) /\ request'[c] = request[c]
      BY <2>1, <2>2 DEF AInv, ToldApart
    <2>3. CASE ~Exists(RowOf(request'[c]))
      BY <2>1, <2>3
    <2> QED  BY <1>3, <2>2, <2>3 DEF Fresh
  <1>4. ToldApart'
    <2> SUFFICES ASSUME NEW d \in Clients, NEW e \in Clients, d # e, Told(d)', Told(e)'
                 PROVE  RowOf(request'[d]) # RowOf(request'[e])
      BY DEF ToldApart
    <2>1. CASE d = c
      BY <1>3, <2>1
    <2>2. CASE e = c
      BY <1>3, <2>2
    <2>3. CASE d # c /\ e # c
      BY <1>2, <2>3 DEF AInv, ToldApart
    <2> QED  BY <2>1, <2>2, <2>3
  <1>5. TokensNameUsers'
    BY <1>1 DEF TokensNameUsers, Exists, Grown
  <1> QED  BY <1>1, <1>2, <1>4, <1>5 DEF AInv, OthersServed

\* A client without a request is served.
LEMMA WithoutRequest ==
  ASSUME NEW c \in Clients, request'[c] = NoRequest, seen'[c] = <<>>
  PROVE  Served(c)' /\ Fresh(c)
  BY DEF Served, Linked, Truth, Answered, Listing, Told, NoRequest, Fresh

\* What the invariant says of a client that serves no request.
LEMMA Free ==
  ASSUME AInv, NEW c \in Clients, request[c] = NoRequest
  PROVE  seen[c] = <<>>
  BY DEF AInv, Served, Linked, NoRequest

LEMMA StatementIsBusy ==
  ASSUME NEW c \in Clients, Statement(c) \/ Fail(c)
  PROVE  pc[c] # "idle"
  BY DEF Statement, Fail, FindUser, InsertUser, InsertBalance, FindOrder, InsertOrder,
         InsertProcessable, SetOrderStatus, SetAccrualPoints, RemoveProcessableOrder,
         PostponeOrderProcessing, LockBalance, UpdateBalance, AddWithdrawalTransaction,
         Commit

\* The commit that makes a request successful adds the row it is about.
LEMMA CommitAdds ==
  ASSUME AInv, NEW c \in Clients, Commit(c), request[c] # NoRequest, response[c] = None,
         request[c].op \in {"UploadOrder", "RegisterUser", "Withdraw"}
  PROVE  ~Exists(RowOf(request[c])) /\ db'[RowOf(request[c])] # NoRow
  <1>0. PICK r, k : r = request[c] /\ k = call[c]
    OBVIOUS
  <1>1. r \in Requests /\ k = CallOf(r) /\ IInv
    BY <1>0 DEF AInv, Served, Linked
  <1>2. CASE r.op = "UploadOrder"
    <2>1. k.op = "CreateOrder" /\ k.order = r.order
      BY <1>1, <1>2, CallServes
    <2>2. ~Exists(OrderRow(k.order)) /\ db'[OrderRow(k.order)] # NoRow
      BY <1>0, <1>1, <2>1, CommitUploads
    <2> QED  BY <1>0, <1>2, <2>1, <2>2 DEF RowOf
  <1>3. CASE r.op = "RegisterUser"
    <2>1. k.op = "CreateUser" /\ k.user = r.user
      BY <1>1, <1>3, CallServes
    <2>2. ~Exists(UserRow(k.user)) /\ db'[UserRow(k.user)] # NoRow
      BY <1>0, <1>1, <2>1, CommitRegisters
    <2> QED  BY <1>0, <1>3, <2>1, <2>2 DEF RowOf
  <1>4. CASE r.op = "Withdraw"
    <2>1. k.op = "WithdrawFunds" /\ k.user = r.user /\ k.order = r.order
      BY <1>1, <1>4, CallServes
    <2>2. /\ k.user \in Users /\ ~Exists(PaymentRow(k.order))
          /\ db'[PaymentRow(k.order)] = [user |-> k.user, amount |-> Column(k.amount)]
      BY <1>0, <1>1, <2>1, CommitPays
    <2>3. Column(k.amount) \in Nat
      BY <1>1, <2>1, CallServes, CallTypes, ColumnNat
    <2>4. [user |-> k.user, amount |-> Column(k.amount)] \in PaymentType
      BY <2>2, <2>3 DEF PaymentType
    <2>5. db'[PaymentRow(k.order)] # NoRow
      BY <2>2, <2>4, TableIs
    <2> QED  BY <1>0, <1>4, <2>1, <2>2, <2>5 DEF RowOf
  <1> QED  BY <1>0, <1>2, <1>3, <1>4

LEMMA StatementServes ==
  ASSUME AInv, NEW c \in Clients, Statement(c) \/ Fail(c), UNCHANGED apiVars
  PROVE  AInv'
  <1>1. /\ StepOf(c) /\ call' = call
        /\ request' = request /\ response' = response /\ seen' = seen /\ tokens' = tokens
    BY StatementMoves DEF StepOf, apiVars
  <1>2. OthersServed(c)
    BY <1>1 DEF AInv, OthersServed
  <1>3. Served(c)' /\ Fresh(c)
    <2>1. CASE request[c] = NoRequest
      BY <1>1, <2>1, Free, WithoutRequest
    <2>2. CASE request[c] # NoRequest
      <3>1. response[c] = None
        <4>1. call[c] # NoCall
          BY StatementIsBusy, StatementOf DEF AInv, Working, AtRest
        <4> QED  BY <2>2, <4>1 DEF AInv, Served, Linked
      <3>2. Linked(c)' /\ Truth(c)'
        BY <1>1, <3>1 DEF AInv, Served, Linked, Truth, Answered, None
      <3>3. Listing(c)'
        <4>1. PICK x : x = seen[c]
          OBVIOUS
        <4>2. request[c].op = "ListOrders" => x = <<>> \/ (x = <<x[1]>> /\ Listed(x[1]))
          BY <4>1 DEF AInv, Served, Listing
        <4>3. Grown
          BY <1>1, StorageMoves
        <4>4. Listed(x[1]) => Listed(x[1])'
          BY <4>3, ListedStays
        <4> QED  BY <1>1, <4>1, <4>2, <4>4 DEF Listing
      <3>4. CASE Told(c)'
        <4>1. /\ request[c].op \in {"UploadOrder", "RegisterUser", "Withdraw"}
              /\ pc'[c] = "ok"
          BY <1>1, <3>1, <3>4 DEF Told, Successful, None
        <4>2. pc \in [Clients -> Statements \cup Answers \cup {"idle"}]
          BY DEF AInv, IInv, TypeOK
        <4>3. Commit(c)
          BY <1>1, <4>1, <4>2, OnlyTheseAnswer DEF AInv, Silent, FindOrder, GoTo
        <4>4. ~Exists(RowOf(request[c])) /\ db'[RowOf(request[c])] # NoRow
          BY <2>2, <3>1, <4>1, <4>3, CommitAdds
        <4> QED  BY <1>1, <3>2, <3>3, <4>4 DEF Served, Fresh, Exists
      <3> QED  BY <3>2, <3>3, <3>4 DEF Served, Fresh
    <2> QED  BY <2>1, <2>2
  <1>4. tokens' \subseteq Users /\ \A u \in tokens' : Exists(UserRow(u))
    BY <1>1 DEF AInv, TokensNameUsers
  <1> QED  BY <1>1, <1>2, <1>3, <1>4, CarriedOn

LEMMA AnswerLeavesOthers ==
  ASSUME AInv, NEW c \in Clients, NEW status, Answer(c, status)
  PROVE  OthersServed(c) /\ response'[c] = status
  BY DEF AInv, Answer, OthersServed

LEMMA AnswerForgets ==
  ASSUME AInv, NEW c \in Clients, NEW status, Answer(c, status)
  PROVE  /\ OthersServed(c) /\ response'[c] = status
         /\ IF <<request[c].op, status>> \in Remembered
            THEN request'[c] = request[c] /\ seen'[c] = seen[c]
            ELSE request'[c] = NoRequest /\ seen'[c] = <<>>
  <1>1. DOMAIN request = Clients /\ DOMAIN response = Clients /\ DOMAIN seen = Clients
    BY DEF AInv
  <1>2. CASE <<request[c].op, status>> \in Remembered
    BY <1>1, <1>2 DEF Answer, OthersServed
  <1>3. CASE <<request[c].op, status>> \notin Remembered
    BY <1>1, <1>3 DEF Answer, OthersServed
  <1> QED  BY <1>2, <1>3

LEMMA WorkServes ==
  ASSUME AInv, NEW c \in Clients, (\E k \in WorkerCalls : BeginWork(c, k)) \/ EndWork(c)
  PROVE  AInv'
  <1>1. StepOf(c) /\ request[c] = NoRequest /\ UNCHANGED apiVars
    BY DEF BeginWork, EndWork, Idle, StepOf, Calls
  <1>2. OthersServed(c) /\ tokens' = tokens
    BY <1>1 DEF AInv, OthersServed, apiVars
  <1>3. Served(c)' /\ Fresh(c)
    BY <1>1, Free, WithoutRequest DEF apiVars
  <1> QED  BY <1>1, <1>2, <1>3, CarriedOn DEF AInv, TokensNameUsers

LEMMA ReceiveServes ==
  ASSUME AInv, NEW c \in Clients, NEW r \in Requests, Receive(c, r)
  PROVE  AInv'
  <1>0. /\ pc[c] = "idle" /\ request[c] = NoRequest /\ response[c] = None
        /\ request' = [request EXCEPT ![c] = r]
        /\ seen' = seen /\ response' = response /\ tokens' = tokens
    BY DEF Receive, Idle
  <1>1. OthersServed(c) /\ request'[c] = r /\ seen'[c] = <<>> /\ response'[c] = None
    BY <1>0, Free DEF AInv, OthersServed
  <1>2. /\ StepOf(c) \/ UNCHANGED vars
        /\ call'[c] = CallOf(r) /\ pc'[c] # "ok"
    <2>1. /\ call \in [Clients -> Calls \cup {NoCall}]
          /\ pc \in [Clients -> Statements \cup Answers \cup {"idle"}]
      BY DEF AInv, IInv, TypeOK
    <2>2. CASE CallOf(r) = NoCall
      <3>1. call[c] = NoCall
        BY <1>0, StatementOf DEF AInv, Working, AtRest
      <3> QED  BY <1>0, <2>2, <3>1 DEF Receive, vars
    <2>3. CASE CallOf(r) # NoCall
      <3>1. Begin(c, CallOf(r)) /\ CallOf(r) \in Calls
        BY <2>3, CallServes DEF Receive
      <3>2. FirstStatement(CallOf(r).op) # "ok"
        BY DEF FirstStatement
      <3> QED  BY <2>1, <3>1, <3>2 DEF StepOf, Begin
    <2> QED  BY <2>2, <2>3
  <1>3. Served(c)' /\ Fresh(c)
    BY <1>1, <1>2 DEF Served, Linked, Truth, Answered, Listing, Told, Successful, Fresh, None
  <1> QED  BY <1>0, <1>1, <1>2, <1>3, CarriedOn DEF AInv, TokensNameUsers

\* A response that says nothing lasting ends the request.
LEMMA ForgetServes ==
  ASSUME AInv, NEW c \in Clients, StepOf(c) \/ UNCHANGED vars, NEW status,
         Answer(c, status), <<request[c].op, status>> \notin Remembered,
         tokens' \subseteq Users, \A u \in tokens' : Exists(UserRow(u))
  PROVE  AInv'
  <1>1. OthersServed(c) /\ Served(c)' /\ Fresh(c)
    BY AnswerForgets, WithoutRequest
  <1> QED  BY <1>1, CarriedOn

LEMMA RefuseServes ==
  ASSUME AInv, NEW c \in Clients, NEW r \in Requests, Refuse(c, r)
  PROVE  AInv'
  <1>1. PICK status : Answer(c, status)
    BY DEF Refuse
  <1>2. request[c].op = "none" /\ UNCHANGED vars /\ tokens' = tokens
    BY DEF Refuse, Idle, NoRequest
  <1>3. <<request[c].op, status>> \notin Remembered
    BY <1>2 DEF Remembered
  <1> QED  BY <1>1, <1>2, <1>3, ForgetServes DEF AInv, TokensNameUsers

LEMMA ReadFailsServes ==
  ASSUME AInv, NEW c \in Clients, ReadFails(c)
  PROVE  AInv'
  <1>1. Answer(c, 500) /\ UNCHANGED vars /\ tokens' = tokens
    BY DEF ReadFails
  <1>2. <<request[c].op, 500>> \notin Remembered
    BY DEF Remembered
  <1> QED  BY <1>1, <1>2, ForgetServes DEF AInv, TokensNameUsers

LEMMA CloseServes ==
  ASSUME AInv, NEW c \in Clients, Close(c)
  PROVE  AInv'
  <1>1. /\ OthersServed(c) /\ UNCHANGED vars /\ tokens' = tokens
        /\ request'[c] = NoRequest /\ seen'[c] = <<>>
    BY DEF AInv, Close, OthersServed
  <1>2. Served(c)' /\ Fresh(c)
    BY <1>1, WithoutRequest
  <1> QED  BY <1>1, <1>2, CarriedOn DEF AInv, TokensNameUsers

LEMMA ReadServes ==
  ASSUME AInv, NEW c \in Clients, Read(c)
  PROVE  AInv'
  <1>0. PICK r, x : r = request[c] /\ x = seen[c]
    OBVIOUS
  <1>1. /\ response[c] = None /\ Len(x) < Len(Reads(r.op)) /\ Len(x) + 1 # Len(Reads(r.op))
        /\ seen' = [seen EXCEPT ![c] = Values(c)]
        /\ UNCHANGED <<vars, request, response, tokens, credited>>
        /\ r \in Requests \cup {NoRequest}
        /\ x # <<>> => r.op \in {"GetBalance", "ListOrders"}
        /\ r.op = "ListOrders" => x = <<>> \/ x = <<x[1]>>
    BY <1>0 DEF Read, Reading, LastRead, AInv, Served, Linked, Listing
  <1>2. r.op \in {"GetBalance", "ListOrders"} /\ r \in Requests
    <2>1. r.op \in {"none", "RegisterUser", "AuthenticateUser", "UploadOrder", "Withdraw",
                    "GetBalance", "ListOrders", "ListWithdrawals"}
      BY <1>1, RequestTypes DEF NoRequest
    <2>2. ASSUME r.op \notin {"GetBalance", "ListOrders"}
          PROVE  FALSE
      <3>1. x = <<>>
        BY <1>1, <2>2
      <3>2. Reads(r.op) = <<>> \/ Reads(r.op) = <<"password">> \/ Reads(r.op) = <<"withdrawals">>
        BY <2>1, <2>2 DEF Reads
      <3> QED  BY <1>1, <3>1, <3>2
    <2> QED  BY <1>1, <2>2 DEF NoRequest
  <1>3. OthersServed(c) /\ request'[c] = r /\ response'[c] = None /\ seen'[c] = Values(c)
    BY <1>0, <1>1 DEF AInv, OthersServed
  <1>4. Listing(c)'
    <2>1. CASE r.op = "ListOrders"
      <3>1. Reads(r.op) = <<"orders", "accruals">>
        BY <2>1 DEF Reads
      <3>2. x = <<>>
        <4>1. ASSUME x = <<x[1]>> PROVE FALSE
          BY <1>1, <3>1, <4>1
        <4> QED  BY <1>1, <2>1, <4>1
      <3>3. Values(c) = <<ListedOrders(r.user)>>
        <4>1. Reading(c) /\ Reads(request[c].op)[Len(seen[c]) + 1] = "orders"
          BY <1>0, <1>1, <3>1, <3>2 DEF Reading
        <4> QED  BY <1>0, <3>2, <4>1 DEF Values, Value
      <3>4. db' = db
        BY <1>1 DEF vars
      <3>5. PICK list : list = ListedOrders(r.user)
        OBVIOUS
      <3>6. Listed(list)'
        BY <3>4, <3>5 DEF Listed, ListedOrders, OrdersOf, Exists
      <3> QED  BY <1>3, <3>3, <3>5, <3>6 DEF Listing
    <2> QED  BY <1>2, <1>3, <2>1 DEF Listing
  <1>5. Served(c)' /\ Fresh(c)
    <2>1. Linked(c)'
      BY <1>0, <1>1, <1>2, <1>3 DEF Linked, vars, AInv, Served
    <2>2. Truth(c)' /\ (Told(c)' => FALSE)
      BY <1>2, <1>3 DEF Truth, Answered, Told, None
    <2> QED  BY <1>4, <2>1, <2>2 DEF Served, Fresh
  <1>6. tokens' = tokens /\ UNCHANGED vars
    BY <1>1
  <1> QED  BY <1>3, <1>5, <1>6, CarriedOn DEF AInv, TokensNameUsers

\* A token is issued to a user who has been registered.
LEMMA IssuedToUsers ==
  ASSUME AInv, NEW c \in Clients, Respond(c),
         NEW u \in Issued(request[c], Status(request[c], pc[c], Values(c)))
  PROVE  u \in Users /\ Exists(UserRow(u))
  <1>0. PICK r, x, v, s : r = request[c] /\ x = seen[c] /\ v = Values(c)
                          /\ s = Status(r, pc[c], v)
    OBVIOUS
  <1>1. r \in Requests /\ response[c] = None /\ u = r.user /\ s = 200
        /\ r.op \in {"RegisterUser", "AuthenticateUser"}
    BY <1>0 DEF Respond, AInv, Served, Linked, Issued, Public
  <1>2. u \in Users
    BY <1>1, RequestTypes
  <1>3. CASE r.op = "RegisterUser"
    <2>1. pc[c] = "ok"
      BY <1>0, <1>1, <1>3 DEF Status, RegisterStatus
    <2>2. Told(c)
      BY <1>0, <1>1, <1>3, <2>1 DEF Told
    <2>3. RowOf(r) = UserRow(u)
      BY <1>1, <1>3 DEF RowOf
    <2> QED  BY <1>0, <1>2, <2>2, <2>3 DEF AInv, Served
  <1>4. CASE r.op = "AuthenticateUser"
    <2>1. x = <<>> /\ Reads(r.op) = <<"password">>
      BY <1>0, <1>4 DEF AInv, Served, Linked, Reads
    <2>2. Reading(c) /\ Reads(request[c].op)[Len(seen[c]) + 1] = "password"
      BY <1>0, <1>1, <2>1 DEF Reading
    <2>3. v = <<PasswordsOf(u)>>
      BY <1>0, <1>1, <2>1, <2>2 DEF Values, Value
    <2>4. r.password \in PasswordsOf(u)
      BY <1>0, <1>1, <1>4, <2>3 DEF Status, AuthenticateStatus
    <2> QED  BY <1>2, <2>4 DEF PasswordsOf
  <1> QED  BY <1>1, <1>3, <1>4

\* A response that is remembered says what the storage has kept.
LEMMA RespondTruth ==
  ASSUME AInv, NEW c \in Clients, Respond(c),
         <<request[c].op, Status(request[c], pc[c], Values(c))>> \in Remembered
  PROVE  Served(c)' /\ Fresh(c) /\ Return(c)
  <1>0. PICK r, s : r = request[c] /\ s = Status(r, pc[c], Values(c))
    OBVIOUS
  <1>1. /\ r \in Requests /\ response[c] = None /\ call[c] = CallOf(r)
        /\ Answer(c, s) /\ <<r.op, s>> \in Remembered
    BY <1>0 DEF Respond, AInv, Served, Linked
  <1>2. /\ r.op \in {"RegisterUser", "UploadOrder", "Withdraw"}
        /\ r.op \in {"RegisterUser", "Withdraw"} => s = 200
        /\ s \in {200, 202, 409}
    BY <1>1 DEF Remembered
  <1>3. Return(c)
    BY <1>0, <1>1, <1>2, CallServes DEF Respond
  <1>4. /\ OthersServed(c) /\ request'[c] = r /\ seen'[c] = seen[c] /\ response'[c] = s
    BY <1>0, <1>1, AnswerForgets
  <1>5. db' = db /\ call'[c] = NoCall
    BY <1>3 DEF Return, AInv, IInv, TypeOK
  <1>6. Linked(c)' /\ Listing(c)'
    BY <1>0, <1>1, <1>2, <1>4, <1>5 DEF Linked, Listing, AInv, Served, None
  <1>7. r.op = "UploadOrder" =>
          /\ s = 202 => pc[c] = "ok"
          /\ s = 200 => pc[c] = "exists" /\ db[OrderRow(r.order)].owner = r.user
          /\ s = 409 => pc[c] = "exists" /\ db[OrderRow(r.order)].owner # r.user
    BY <1>0 DEF Status, UploadStatus
  <1>8. r.op \in {"RegisterUser", "Withdraw"} => pc[c] = "ok"
    BY <1>0, <1>2 DEF Status, RegisterStatus, WithdrawStatus
  <1>9. Truth(c)'
    <2>1. CASE r.op = "UploadOrder"
      <3>1. /\ call[c].op = "CreateOrder" /\ call[c].user = r.user
            /\ call[c].order = r.order /\ r.order \in Orders
        BY <1>1, <2>1, CallServes, RequestTypes
      <3>2. /\ Exists(OrderRow(r.order))
            /\ s = 202 => db[OrderRow(r.order)].owner = r.user
        BY <1>2, <1>7, <2>1, <3>1 DEF AInv, Kept, Owns, Remembered
      <3>3. db[OrderRow(r.order)].owner \in Users
        BY <3>1, <3>2, OrderTyped DEF AInv, IInv, OrderType
      <3>4. PICK u : u = db[OrderRow(r.order)].owner
        OBVIOUS
      <3>5. (r.order \in OrdersOf(u))'
        BY <1>5, <3>1, <3>2, <3>4 DEF OrdersOf, Exists
      <3> QED  BY <1>2, <1>4, <1>7, <2>1, <3>2, <3>3, <3>4, <3>5 DEF Truth, Answered
    <2>2. CASE r.op = "Withdraw"
      <3>1. /\ call[c].op = "WithdrawFunds" /\ call[c].user = r.user
            /\ call[c].order = r.order /\ call[c].amount = r.amount
        BY <1>1, <2>2, CallServes
      <3>2. PaidFor(r.user, r.order, r.amount)
        BY <1>8, <2>2, <3>1 DEF AInv, Kept
      <3> QED  BY <1>4, <1>5, <2>2, <3>2 DEF Truth, Answered, PaidFor
    <2>3. CASE r.op = "RegisterUser"
      BY <1>4, <2>3 DEF Truth, Answered
    <2> QED  BY <1>2, <2>1, <2>2, <2>3
  <1>10. Told(c)' => Told(c) /\ request'[c] = request[c]
    BY <1>0, <1>1, <1>2, <1>4, <1>7, <1>8 DEF Told, Successful, None
  <1>11. Told(c)' => db'[RowOf(r)] # NoRow
    BY <1>0, <1>5, <1>10 DEF AInv, Served, Exists
  <1> QED  BY <1>3, <1>4, <1>6, <1>9, <1>10, <1>11 DEF Served, Fresh, Exists

LEMMA RespondServes ==
  ASSUME AInv, NEW c \in Clients, Respond(c)
  PROVE  AInv'
  <1>0. PICK s : s = Status(request[c], pc[c], Values(c))
    OBVIOUS
  <1>1. Answer(c, s) /\ (StepOf(c) \/ UNCHANGED vars)
    BY <1>0 DEF Respond, StepOf
  <1>2. tokens' \subseteq Users /\ \A u \in tokens' : Exists(UserRow(u))
    <2>1. tokens' = tokens \cup Issued(request[c], s)
      BY <1>0 DEF Respond
    <2> QED  BY <1>0, <2>1, IssuedToUsers DEF AInv, TokensNameUsers
  <1>3. CASE <<request[c].op, s>> \in Remembered
    <2>1. Served(c)' /\ Fresh(c) /\ OthersServed(c)
      BY <1>0, <1>1, <1>3, RespondTruth, AnswerForgets
    <2> QED  BY <1>1, <1>2, <2>1, CarriedOn
  <1>4. CASE <<request[c].op, s>> \notin Remembered
    BY <1>1, <1>2, <1>4, ForgetServes
  <1> QED  BY <1>3, <1>4

-----------------------------------------------------------------------------
(* Steps of no client *)

LEMMA NothingServed ==
  ASSUME AInv, UNCHANGED <<vars, request, seen, response>>, tokens' \subseteq tokens
  PROVE  AInv'
  <1>1. IInv' /\ Grown
    BY NextIInv, DatabaseGrows DEF AInv
  <1>2. ASSUME NEW d \in Clients
        PROVE  Kept(d)' /\ Served(d)' /\ Waits(d)
    <2>1. Waits(d)
      BY DEF Waits, vars
    <2> QED  BY <1>1, <2>1, KeptStays, ServedStays DEF AInv, Waits
  <1>3. ToldApart'
    BY DEF AInv, ToldApart, Told, vars
  <1>4. TokensNameUsers'
    BY <1>1 DEF AInv, TokensNameUsers, Grown, Exists
  <1> QED  BY <1>1, <1>2, <1>3, <1>4 DEF AInv

\* A process that starts finds the committed rows, and no call has begun.
LEMMA RestartIInv ==
  ASSUME IInv, Restart
  PROVE  IInv'
  <1>1. /\ db' = db /\ DOMAIN trx' = Clients
        /\ call' \in [Clients -> Calls \cup {NoCall}]
        /\ pc' \in [Clients -> Statements \cup Answers \cup {"idle"}]
        /\ \A c \in Clients : trx'[c] = <<>> /\ call'[c] = NoCall /\ pc'[c] = "idle"
    BY DEF Restart
  <1>2. TypeOK'
    <2>1. WellTyped(db)' /\ DOMAIN db' = Rows
      BY <1>1 DEF IInv, TypeOK, WellTyped
    <2>2. \A c \in Clients : WellTyped(trx[c])'
      BY <1>1, NoRowsLocked DEF WellTyped
    <2> QED  BY <1>1, <2>1, <2>2 DEF TypeOK
  <1>3. RowsTogether' /\ OwnersRegistered' /\ BalanceNeverNegative'
    BY <1>1 DEF IInv, RowsTogether, OwnersRegistered, BalanceNeverNegative, Exists
  <1>4. LocksExclusive'
    BY <1>1, NoRowsLocked DEF LocksExclusive
  <1>5. NoCall \notin WorkerCalls /\ NoCall.op = "none"
    BY CallTypes DEF NoCall
  <1>6. WorkersApart'
    BY <1>1, <1>5 DEF WorkersApart
  <1>7. ASSUME NEW c \in Clients PROVE Working(c)'
    BY <1>1, <1>5, NoRowsLocked DEF Working, AtRest, Locks
  <1> QED  BY <1>2, <1>3, <1>4, <1>6, <1>7 DEF IInv

LEMMA RestartServes ==
  ASSUME AInv, Restart
  PROVE  AInv'
  <1>1. IInv' /\ db' = db
    BY RestartIInv DEF AInv, Restart
  <1>2. /\ DOMAIN request' = Clients /\ DOMAIN response' = Clients /\ DOMAIN seen' = Clients
        /\ \A c \in Clients : /\ request'[c] = NoRequest /\ seen'[c] = <<>>
                              /\ pc'[c] = "idle" /\ call'[c] = NoCall
    BY DEF Restart
  <1>3. ASSUME NEW c \in Clients
        PROVE  Kept(c)' /\ Served(c)' /\ ~Told(c)'
    <2>1. Served(c)'
      BY <1>2, WithoutRequest
    <2> QED  BY <1>2, <2>1 DEF Kept, Told, NoRequest, NoCall
  <1>4. tokens' \subseteq Users /\ TokensNameUsers'
    BY <1>1 DEF AInv, Restart, TokensNameUsers, Exists
  <1> QED  BY <1>1, <1>2, <1>3, <1>4 DEF AInv, ToldApart

-----------------------------------------------------------------------------
(* The invariant *)

LEMMA InitAInv == ApiInit => AInv
  <1> SUFFICES ASSUME ApiInit PROVE AInv
    OBVIOUS
  <1>1. IInv
    BY InitIInv DEF ApiInit
  <1>2. /\ DOMAIN request = Clients /\ DOMAIN response = Clients /\ DOMAIN seen = Clients
        /\ \A c \in Clients : /\ request[c] = NoRequest /\ seen[c] = <<>>
                              /\ pc[c] = "idle" /\ call[c] = NoCall
        /\ tokens = {}
    BY DEF ApiInit, Init
  <1>3. ASSUME NEW c \in Clients
        PROVE  Kept(c) /\ Served(c) /\ ~Told(c)
    BY <1>2 DEF Kept, Served, Linked, Truth, Answered, Listing, Told, NoRequest, NoCall
  <1> QED  BY <1>1, <1>2, <1>3 DEF AInv, ToldApart, TokensNameUsers

LEMMA NextAInv == AInv /\ [ApiNext]_apiAllVars => AInv'
  <1> SUFFICES ASSUME AInv, [ApiNext]_apiAllVars PROVE AInv'
    OBVIOUS
  <1>1. CASE UNCHANGED apiAllVars
    BY <1>1, NothingServed DEF apiAllVars, apiVars
  <1>2. ASSUME NEW c \in Clients,
               (\E k \in WorkerCalls : BeginWork(c, k)) \/ EndWork(c)
        PROVE  AInv'
    BY <1>2, WorkServes
  <1>3. ASSUME NEW c \in Clients, NEW r \in Requests, Receive(c, r) \/ Refuse(c, r)
        PROVE  AInv'
    BY <1>3, ReceiveServes, RefuseServes
  <1>4. ASSUME NEW c \in Clients, Statement(c) \/ Fail(c), UNCHANGED apiVars
        PROVE  AInv'
    BY <1>4, StatementServes
  <1>5. ASSUME NEW c \in Clients, Read(c) \/ ReadFails(c)
        PROVE  AInv'
    BY <1>5, ReadServes, ReadFailsServes
  <1>6. ASSUME NEW c \in Clients, Respond(c) \/ Close(c)
        PROVE  AInv'
    BY <1>6, RespondServes, CloseServes
  <1>7. ASSUME NEW u \in Users, Expire(u)
        PROVE  AInv'
    BY <1>7, NothingServed DEF Expire
  <1>8. CASE Restart
    BY <1>8, RestartServes
  <1> QED  BY <1>1, <1>2, <1>3, <1>4, <1>5, <1>6, <1>7, <1>8 DEF ApiNext, Serve

\* The invariant holds in every state of the service, restarts included.
THEOREM ApiInvariant == ApiSpec => []AInv
  BY InitAInv, NextAInv, PTL DEF ApiSpec

-----------------------------------------------------------------------------
(* What follows *)

\* A restart, at whatever statement of whatever transactions, leaves no balance
\* negative and no row without those it belongs with.
THEOREM RestartsKeepRows == ApiSpec => [](BalanceNeverNegative /\ RowsTogether)
  <1>1. AInv => BalanceNeverNegative /\ RowsTogether
    BY DEF AInv, IInv
  <1> QED  BY <1>1, ApiInvariant, PTL

\* An order that a client was told to be accepted, its own or another's stays
\* so, and a payment that was confirmed is there with its sum, whatever comes
\* later (processUploadOrderError, WithdrawFunds).
THEOREM Truthful == ApiSpec => []ToldTheTruth
  <1>1. AInv => ToldTheTruth
    BY DEF AInv, Served, Truth, ToldTheTruth, PaidFor
  <1> QED  BY <1>1, ApiInvariant, PTL

\* No two clients are told that they uploaded the same order, registered the
\* same login or paid for the same purchase (maybeCreateOrder, CreateUser).
THEOREM OnceAccepted == ApiSpec => []AcceptedOnce
  <1>1. ASSUME AInv, NEW c \in Clients, NEW d \in Clients, c # d,
               request[c].op = request[d].op,
               \/ Answered(c, "UploadOrder", {202}) /\ response[d] = 202
               \/ Answered(c, "RegisterUser", {200}) /\ response[d] = 200
               \/ Answered(c, "Withdraw", {200}) /\ response[d] = 200
        PROVE  IF request[c].op = "RegisterUser"
               THEN request[c].user # request[d].user
               ELSE request[c].order # request[d].order
    <2>1. Told(c) /\ Told(d)
      BY <1>1 DEF Answered, Told, Successful
    <2>2. RowOf(request[c]) # RowOf(request[d])
      BY <1>1, <2>1 DEF AInv, ToldApart
    <2>3. CASE request[c].op = "RegisterUser"
      BY <1>1, <2>2, <2>3 DEF RowOf
    <2>4. CASE request[c].op = "UploadOrder"
      BY <1>1, <2>2, <2>4 DEF RowOf
    <2>5. CASE request[c].op = "Withdraw"
      BY <1>1, <2>2, <2>5 DEF RowOf
    <2> QED  BY <1>1, <2>3, <2>4, <2>5 DEF Answered
  <1>2. AInv => AcceptedOnce
    BY <1>1 DEF AcceptedOnce
  <1> QED  BY <1>2, ApiInvariant, PTL

\* Every token in use names a registered user (IssueToken).
THEOREM TokensNamed == ApiSpec => []TokensNameUsers
  <1>1. AInv => TokensNameUsers
    BY DEF AInv
  <1> QED  BY <1>1, ApiInvariant, PTL

LEMMA AppendedToOne ==
  ASSUME NEW x, NEW y
  PROVE  Append(<<x>>, y)[1] = x /\ Append(<<x>>, y)[2] = y
  <1>1. <<x>> \in Seq({x, y}) /\ y \in {x, y}
    OBVIOUS
  <1> QED  BY <1>1

\* What is shown is shown by the response, not by a failed read or a refusal.
LEMMA ShownByRespond ==
  ASSUME AInv, ApiNext, NEW c \in Clients, NEW op, op # "none", Shown(c, op)
  PROVE  Respond(c)
  <1>1. ASSUME NEW d \in Clients, OthersServed(d)
        PROVE  d = c
    BY <1>1 DEF Shown, None, OthersServed
  <1>2. response' # response
    BY DEF Shown, None
  <1>3. ASSUME NEW d \in Clients, NEW r \in Requests, Receive(d, r)
        PROVE  FALSE
    BY <1>2, <1>3 DEF Receive
  <1>4. ASSUME NEW d \in Clients, NEW r \in Requests, Refuse(d, r)
        PROVE  FALSE
    <2>1. PICK status : Answer(d, status)
      BY <1>4 DEF Refuse
    <2>2. OthersServed(d) /\ request[d].op = "none"
      BY <1>4, <2>1, AnswerLeavesOthers DEF Refuse, Idle, NoRequest
    <2> QED  BY <1>1, <2>2 DEF Shown
  <1>5. ASSUME NEW d \in Clients, ReadFails(d)
        PROVE  FALSE
    <2>1. Answer(d, 500)
      BY <1>5 DEF ReadFails
    <2>2. OthersServed(d) /\ response'[d] = 500
      BY <1>5, <2>1, AnswerLeavesOthers
    <2> QED  BY <1>1, <2>2 DEF Shown
  <1>6. ASSUME NEW d \in Clients, Respond(d)
        PROVE  Respond(c)
    <2>1. OthersServed(d)
      BY <1>6, AnswerLeavesOthers DEF Respond
    <2> QED  BY <1>1, <1>6, <2>1
  <1>7. ASSUME NEW d \in Clients, Close(d)
        PROVE  FALSE
    BY <1>7 DEF Close, Shown, None, AInv
  <1>8. ASSUME NEW d \in Clients, Read(d)
        PROVE  FALSE
    BY <1>2, <1>8 DEF Read
  <1>9. CASE Restart
    BY <1>9 DEF Restart, Shown, None
  <1>10. CASE \E u \in Users : Expire(u)
    BY <1>2, <1>10 DEF Expire
  <1>11. CASE UNCHANGED apiVars
    BY <1>2, <1>11 DEF apiVars
  <1> QED  BY <1>3, <1>4, <1>5, <1>6, <1>7, <1>8, <1>9, <1>10, <1>11
           DEF ApiNext, Serve, BeginWork, EndWork

\* The statuses and the accruals of the list of orders are read by two queries;
\* a status that is final when it is read has its accrual, or none, then and for
\* ever (createListOrdersResponse).
THEOREM ListedTogether == ApiSpec => ProcessedShowsAccrual
  <1> DEFINE Matched(c) ==
        LET status == Values(c)[1]
            accrual == Values(c)[2]
        IN  \A o \in DOMAIN status :
              /\ status[o] = "PROCESSED" => o \in DOMAIN accrual
              /\ status[o] = "INVALID" => o \notin DOMAIN accrual
  <1>1. ASSUME AInv, [ApiNext]_apiAllVars, NEW c \in Clients, Shown(c, "ListOrders")
        PROVE  Matched(c)
    <2>1. ApiNext
      BY <1>1 DEF Shown, None, apiAllVars, apiVars
    <2>2. Respond(c)
      BY <1>1, <2>1, ShownByRespond
    <2>3. PICK x : x = seen[c]
      OBVIOUS
    <2>4. Reads(request[c].op) = <<"orders", "accruals">> /\ response[c] = None
      BY <1>1 DEF Shown, Reads
    <2>5. x = <<>> \/ (x = <<x[1]>> /\ Listed(x[1]))
      BY <1>1, <2>3 DEF AInv, Served, Listing, Shown
    <2>6. x # <<>>
      BY <2>2, <2>3, <2>4 DEF Respond, Reading, LastRead
    <2>7. PICK list : x = <<list>> /\ Listed(list)
      BY <2>5, <2>6
    <2>8. Reading(c) /\ Reads(request[c].op)[Len(seen[c]) + 1] = "accruals"
      BY <2>3, <2>4, <2>7 DEF Reading
    <2>9. Values(c)[1] = list /\ Values(c)[2] = AccrualsFor(DOMAIN list)
      <3>1. Value("accruals", request[c].user, x) = AccrualsFor(DOMAIN list)
        BY <2>7 DEF Value
      <3>2. Values(c) = Append(x, Value("accruals", request[c].user, x))
        BY <2>3, <2>8 DEF Values
      <3> QED  BY <2>7, <3>1, <3>2, AppendedToOne
    <2>10. ASSUME NEW o \in DOMAIN list
           PROVE  /\ list[o] = "PROCESSED" => o \in DOMAIN AccrualsFor(DOMAIN list)
                  /\ list[o] = "INVALID" => o \notin DOMAIN AccrualsFor(DOMAIN list)
      <3>1. /\ o \in Orders /\ Exists(OrderRow(o))
            /\ list[o] \in {"PROCESSED", "INVALID"} => db[OrderRow(o)].status = list[o]
        BY <2>7, <2>10 DEF Listed
      <3>2. Exists(AccrualRow(o)) <=> db[OrderRow(o)].status = "PROCESSED"
        BY <1>1, <3>1 DEF AInv, IInv, RowsTogether
      <3> QED  BY <2>10, <3>1, <3>2 DEF AccrualsFor
    <2> QED  BY <2>9, <2>10
  <1>2. AInv /\ [ApiNext]_apiAllVars =>
          (\A c \in Clients : Shown(c, "ListOrders") => Matched(c))
    BY <1>1
  <1> QED  BY <1>2, ApiInvariant, PTL DEF ApiSpec, ProcessedShowsAccrual

-----------------------------------------------------------------------------
(* The balance page *)

\* What a GetBalance of c will show is no less than what its user had been
\* credited with when the request arrived: nothing is read yet, or the current
\* balance is, and what is withdrawn can only grow.
Balanced(c) ==
  LET u == request[c].user
  IN  request[c].op = "GetBalance" =>
        /\ Exists(BalanceRow(u))
        /\ \/ seen[c] = <<>> /\ credited[c] <= CreditedTo(u)
           \/ \E x \in Int : /\ seen[c] = <<x>>
                             /\ credited[c] <= x + db[BalanceRow(u)].withdrawn

BInv ==
  /\ MoneyInv
  /\ credited \in [Clients -> Nat]
  /\ \A c \in Clients : Balanced(c)

\* A step of the API is one of the storage, or a restart, which leaves the rows.
LEMMA ApiStep ==
  ASSUME [ApiNext]_apiAllVars
  PROVE  [Next]_vars \/ Restart
  <1>1. ASSUME NEW c \in Clients, StepOf(c)
        PROVE  [Next]_vars
    BY <1>1 DEF StepOf, Next
  <1>2. ASSUME NEW c \in Clients, NEW k \in WorkerCalls, BeginWork(c, k)
        PROVE  [Next]_vars
    BY <1>1, <1>2 DEF BeginWork, StepOf, Calls
  <1>3. ASSUME NEW c \in Clients, NEW r \in Requests, Receive(c, r)
        PROVE  [Next]_vars
    BY <1>1, <1>3, CallServes DEF Receive, StepOf
  <1>4. ASSUME NEW c \in Clients, Respond(c) \/ EndWork(c)
        PROVE  [Next]_vars
    BY <1>1, <1>4 DEF Respond, EndWork, StepOf
  <1>5. ASSUME NEW c \in Clients, Statement(c) \/ Fail(c)
        PROVE  [Next]_vars
    BY <1>1, <1>5 DEF StepOf
  <1>6. ASSUME NEW c \in Clients, Read(c) \/ ReadFails(c) \/ Close(c)
        PROVE  [Next]_vars
    BY <1>6 DEF Read, ReadFails, Close
  <1>7. ASSUME NEW c \in Clients, NEW r \in Requests, Refuse(c, r)
        PROVE  [Next]_vars
    BY <1>7 DEF Refuse
  <1>8. ASSUME NEW u \in Users, Expire(u)
        PROVE  [Next]_vars
    BY <1>8 DEF Expire
  <1>9. CASE UNCHANGED apiAllVars
    BY <1>9 DEF apiAllVars
  <1> QED  BY <1>2, <1>3, <1>4, <1>5, <1>6, <1>7, <1>8, <1>9 DEF ApiNext, Serve

\* What the storage owes to each user is there after any step, and not less.
LEMMA MoneyGrows ==
  ASSUME AInv, MoneyInv, [ApiNext]_apiAllVars
  PROVE  /\ MoneyInv'
         /\ \A u \in Users : Exists(BalanceRow(u)) =>
              /\ db'[BalanceRow(u)] # NoRow
              /\ CreditedTo(u)' >= CreditedTo(u)
              /\ db'[BalanceRow(u)].withdrawn >= db[BalanceRow(u)].withdrawn
  <1>1. CASE [Next]_vars
    BY <1>1, NextMoney, SumsGrow DEF AInv
  <1>2. CASE Restart
    <2>1. db' = db
      BY <1>2 DEF Restart
    <2>2. \A u \in Users : /\ IsFiniteSet(PaymentsOf(u)') /\ IsFiniteSet(CreditsOf(u)')
                           /\ Exists(BalanceRow(u))' => Accounted(u)'
      BY <2>1, HiddenAccounted
    <2>3. PayersRegistered'
      BY <2>1 DEF MoneyInv, PayersRegistered, Exists
    <2>4. ASSUME NEW u \in Users, Exists(BalanceRow(u))
          PROVE  /\ CreditedTo(u)' >= CreditedTo(u)
                 /\ db'[BalanceRow(u)].withdrawn >= db[BalanceRow(u)].withdrawn
      <3>1. IsFiniteSet(CreditsOf(u)) /\ IsFiniteSet(PaymentsOf(u)) /\ TypeOK
        BY DEF MoneyInv, FinitelyMany, AInv, IInv
      <3>2. CreditedTo(u)' = CreditedTo(u) /\ CreditedTo(u) \in Nat
        BY <2>1, <3>1, SameCredits, SumsTyped
      <3>3. db[BalanceRow(u)].withdrawn \in Nat
        BY <2>4, <3>1, BalanceTyped
      <3> QED  BY <2>1, <3>2, <3>3
    <2> QED  BY <2>1, <2>2, <2>3, <2>4 DEF MoneyInv, FinitelyMany, Exists
  <1> QED  BY <1>1, <1>2, ApiStep

\* What is credited and the balance add up for a registered user.
LEMMA CreditedCovered ==
  ASSUME AInv, MoneyInv, NEW u \in Users, Exists(BalanceRow(u))
  PROVE  /\ CreditedTo(u) \in Nat
         /\ db[BalanceRow(u)].current \in Int /\ db[BalanceRow(u)].withdrawn \in Nat
         /\ CreditedTo(u) <= db[BalanceRow(u)].current + db[BalanceRow(u)].withdrawn
  <1>1. TypeOK /\ IsFiniteSet(CreditsOf(u)) /\ IsFiniteSet(PaymentsOf(u)) /\ Accounted(u)
    BY DEF AInv, IInv, MoneyInv, FinitelyMany
  <1>2. PICK x, w, s : /\ x = db[BalanceRow(u)].current /\ w = db[BalanceRow(u)].withdrawn
                       /\ s = CreditedTo(u) /\ x \in Int /\ w \in Nat /\ s \in Nat
    BY <1>1, BalanceTyped, SumsTyped
  <1>3. x + w - s \in Nat
    <2>1. Cardinality(PaymentsOf(u)) \in Nat
      BY <1>1, SumsTyped
    <2> QED  BY <1>1, <1>2, <2>1 DEF Accounted, Rounding
  <1> QED  BY <1>2, <1>3

Covered ==
  \A u \in Users : Exists(BalanceRow(u)) =>
    CreditedTo(u) \in Nat /\ db[BalanceRow(u)].withdrawn \in Nat

LEMMA CoveredAfter == AInv' /\ MoneyInv' => Covered'
  <1>1. AInv /\ MoneyInv => Covered
    BY CreditedCovered DEF Covered
  <1> QED  BY <1>1, PTL

-----------------------------------------------------------------------------
(* Who moves *)

\* The request of c, and what it has read, are as before.
SameRequest(c) ==
  request'[c] = request[c] /\ seen'[c] = seen[c] /\ credited'[c] = credited[c]

LEMMA AnswerLeavesBalances ==
  ASSUME AInv, credited \in [Clients -> Nat], NEW d \in Clients, NEW status,
         Answer(d, status), NEW c \in Clients
  PROVE  /\ credited' \in [Clients -> Nat]
         /\ SameRequest(c) \/ request'[c].op = "none"
  <1>1. DOMAIN request = Clients /\ DOMAIN seen = Clients
    BY DEF AInv
  <1>2. CASE <<request[d].op, status>> \in Remembered
    BY <1>2 DEF Answer, SameRequest
  <1>3. CASE <<request[d].op, status>> \notin Remembered
    <2>1. /\ request' = [request EXCEPT ![d] = NoRequest]
          /\ seen' = [seen EXCEPT ![d] = <<>>]
          /\ credited' = [credited EXCEPT ![d] = 0]
      BY <1>3 DEF Answer
    <2> QED  BY <1>1, <2>1 DEF SameRequest, NoRequest
  <1> QED  BY <1>2, <1>3

\* A GetBalance goes on only by its arrival and its first read.
PageMoves(c) ==
  \/ SameRequest(c) \/ request'[c].op = "none"
  \/ \E r \in Requests : Receive(c, r)
  \/ Read(c)

LEMMA BalancePageMoves ==
  ASSUME AInv, credited \in [Clients -> Nat], MoneyInv, [ApiNext]_apiAllVars
  PROVE  credited' \in [Clients -> Nat] /\ \A c \in Clients : PageMoves(c)
  <1> DEFINE Goal == credited' \in [Clients -> Nat] /\ \A c \in Clients : PageMoves(c)
  <1>1. DOMAIN request = Clients /\ DOMAIN seen = Clients
    BY DEF AInv
  <1>2. CASE UNCHANGED <<request, seen, credited>>
    BY <1>2 DEF SameRequest, PageMoves
  <1>3. ASSUME NEW d \in Clients, NEW status, Answer(d, status)
        PROVE  Goal
    BY <1>3, AnswerLeavesBalances DEF PageMoves
  <1>4. ASSUME NEW d \in Clients, NEW r \in Requests, Receive(d, r)
        PROVE  Goal
    <2>1. /\ request' = [request EXCEPT ![d] = r] /\ seen' = seen
          /\ credited' = [credited EXCEPT ![d] = IF r.op = "GetBalance" THEN CreditedTo(r.user) ELSE 0]
      BY <1>4 DEF Receive
    <2>2. r.op = "GetBalance" => CreditedTo(r.user) \in Nat
      <3>1. TypeOK /\ r.user \in Users
        BY RequestTypes DEF AInv, IInv
      <3> QED  BY <3>1, SumsTyped DEF MoneyInv, FinitelyMany
    <2>3. credited' \in [Clients -> Nat]
      BY <2>1, <2>2
    <2>4. ASSUME NEW c \in Clients, c # d
          PROVE  SameRequest(c)
      BY <1>1, <2>1, <2>4 DEF SameRequest
    <2> QED  BY <1>4, <2>3, <2>4 DEF PageMoves
  <1>5. ASSUME NEW d \in Clients, Read(d)
        PROVE  Goal
    <2>1. UNCHANGED <<request, credited>> /\ seen' = [seen EXCEPT ![d] = Values(d)]
      BY <1>5 DEF Read
    <2> QED  BY <1>1, <1>5, <2>1 DEF SameRequest, PageMoves
  <1>6. ASSUME NEW d \in Clients, Close(d)
        PROVE  Goal
    <2>1. /\ request' = [request EXCEPT ![d] = NoRequest]
          /\ seen' = [seen EXCEPT ![d] = <<>>]
          /\ credited' = [credited EXCEPT ![d] = 0]
      BY <1>6 DEF Close
    <2> QED  BY <1>1, <2>1 DEF SameRequest, NoRequest, PageMoves
  <1>7. CASE Restart
    BY <1>7 DEF Restart, NoRequest, PageMoves
  <1>8. CASE \E u \in Users : Expire(u)
    BY <1>2, <1>8 DEF Expire
  <1>9. CASE UNCHANGED apiVars
    BY <1>2, <1>9 DEF apiVars
  <1>10. ASSUME NEW d \in Clients, \/ \E r \in Requests : Refuse(d, r)
                                   \/ Respond(d) \/ ReadFails(d)
         PROVE  Goal
    BY <1>3, <1>10 DEF Refuse, Respond, ReadFails
  <1> QED  BY <1>4, <1>5, <1>6, <1>7, <1>8, <1>9, <1>10
           DEF ApiNext, Serve, BeginWork, EndWork, apiAllVars

-----------------------------------------------------------------------------
(* The steps of a GetBalance *)

\* A request that does not move: others only add to what it will show.
LEMMA BalancedStays ==
  ASSUME AInv, BInv, [ApiNext]_apiAllVars, NEW c \in Clients, SameRequest(c)
  PROVE  Balanced(c)'
  <1>1. PICK r, x, n : r = request[c] /\ x = seen[c] /\ n = credited[c]
    OBVIOUS
  <1>2. request'[c] = r /\ seen'[c] = x /\ credited'[c] = n /\ n \in Nat
    BY <1>1 DEF SameRequest, BInv
  <1> SUFFICES ASSUME r.op = "GetBalance"
               PROVE  /\ db'[BalanceRow(r.user)] # NoRow
                      /\ \/ x = <<>> /\ n <= CreditedTo(r.user)'
                         \/ \E y \in Int : /\ x = <<y>>
                                           /\ n <= y + db'[BalanceRow(r.user)].withdrawn
    BY <1>2 DEF Balanced, Exists
  <1>3. r.user \in Users
    BY <1>1, RequestTypes DEF AInv, Served, Linked, NoRequest
  <1>4. Exists(BalanceRow(r.user))
    BY <1>1 DEF BInv, Balanced
  <1>5. /\ MoneyInv' /\ AInv' /\ db'[BalanceRow(r.user)] # NoRow
        /\ CreditedTo(r.user)' >= CreditedTo(r.user)
        /\ db'[BalanceRow(r.user)].withdrawn >= db[BalanceRow(r.user)].withdrawn
    BY <1>3, <1>4, MoneyGrows, NextAInv DEF BInv
  <1>6. /\ CreditedTo(r.user) \in Nat /\ db[BalanceRow(r.user)].withdrawn \in Nat
        /\ CreditedTo(r.user)' \in Nat /\ db'[BalanceRow(r.user)].withdrawn \in Nat
    BY <1>3, <1>4, <1>5, CreditedCovered, CoveredAfter DEF BInv, Exists, Covered
  <1>7. CASE x = <<>> /\ n <= CreditedTo(r.user)
    BY <1>2, <1>5, <1>6, <1>7
  <1>8. ASSUME NEW y \in Int, x = <<y>>, n <= y + db[BalanceRow(r.user)].withdrawn
        PROVE  n <= y + db'[BalanceRow(r.user)].withdrawn
    BY <1>2, <1>5, <1>6, <1>8
  <1> QED  BY <1>1, <1>5, <1>7, <1>8 DEF BInv, Balanced

LEMMA BalancedWhenReceived ==
  ASSUME AInv, BInv, NEW c \in Clients, NEW r \in Requests, Receive(c, r)
  PROVE  Balanced(c)'
  <1>1. /\ request'[c] = r /\ seen'[c] = <<>>
        /\ r.op = "GetBalance" => credited'[c] = CreditedTo(r.user)
    BY Free DEF Receive, Idle, AInv, BInv
  <1> SUFFICES ASSUME r.op = "GetBalance" PROVE Balanced(c)'
    BY <1>1 DEF Balanced
  <1>2. r.user \in Users /\ r.user \in tokens /\ db' = db
    <2>1. CallOf(r) = NoCall
      BY CallServes
    <2> QED  BY <2>1, RequestTypes DEF Receive, Public, vars
  <1>3. Exists(BalanceRow(r.user))
    BY <1>2 DEF AInv, TokensNameUsers, IInv, RowsTogether
  <1>4. CreditedTo(r.user)' = CreditedTo(r.user) /\ CreditedTo(r.user) \in Nat
    <2>1. IsFiniteSet(CreditsOf(r.user))
      BY <1>2 DEF BInv, MoneyInv, FinitelyMany
    <2> QED  BY <1>2, <1>3, <2>1, SameCredits, CreditedCovered DEF BInv
  <1> QED  BY <1>1, <1>2, <1>3, <1>4 DEF Balanced, Exists

\* The current balance is read first.
LEMMA BalancedWhenRead ==
  ASSUME AInv, BInv, NEW c \in Clients, Read(c)
  PROVE  Balanced(c)'
  <1>1. PICK r, x, n : r = request[c] /\ x = seen[c] /\ n = credited[c]
    OBVIOUS
  <1>2. /\ request'[c] = r /\ credited'[c] = n /\ n \in Nat /\ db' = db
        /\ seen'[c] = Values(c)
        /\ response[c] = None /\ Len(x) < Len(Reads(r.op)) /\ Len(x) + 1 # Len(Reads(r.op))
    BY <1>1 DEF Read, Reading, LastRead, AInv, BInv, vars
  <1> SUFFICES ASSUME r.op = "GetBalance" PROVE Balanced(c)'
    BY <1>2 DEF Balanced
  <1>3. r.user \in Users
    BY <1>1, RequestTypes DEF AInv, Served, Linked, NoRequest
  <1>4. Reads(r.op) = <<"current", "withdrawn">>
    BY DEF Reads
  <1>5. Exists(BalanceRow(r.user)) /\ (x = <<>> \/ \E y : x = <<y>>)
        /\ (x = <<>> => n <= CreditedTo(r.user))
    BY <1>1 DEF BInv, Balanced
  <1>6. x = <<>> /\ n <= CreditedTo(r.user)
    <2>1. ASSUME NEW y, x = <<y>> PROVE FALSE
      BY <1>2, <1>4, <2>1
    <2> QED  BY <1>5, <2>1
  <1>7. Values(c) = <<db[BalanceRow(r.user)].current>>
    <2>1. Reading(c) /\ Reads(request[c].op)[Len(seen[c]) + 1] = "current"
      BY <1>1, <1>2, <1>4, <1>6 DEF Reading
    <2> QED  BY <1>1, <1>6, <2>1 DEF Values, Value
  <1>8. PICK y, w : /\ y = db[BalanceRow(r.user)].current /\ w = db[BalanceRow(r.user)].withdrawn
                    /\ y \in Int /\ n <= y + w
    BY <1>2, <1>3, <1>5, <1>6, CreditedCovered DEF BInv
  <1> QED  BY <1>2, <1>5, <1>7, <1>8 DEF Balanced, Exists

LEMMA InitBInv == ApiInit => BInv
  BY InitMoney DEF ApiInit, BInv, Balanced, NoRequest

LEMMA NextBInv == AInv /\ BInv /\ [ApiNext]_apiAllVars => BInv'
  <1> SUFFICES ASSUME AInv, BInv, [ApiNext]_apiAllVars PROVE BInv'
    OBVIOUS
  <1>1. MoneyInv' /\ credited \in [Clients -> Nat] /\ MoneyInv
    BY MoneyGrows DEF BInv
  <1>2. ASSUME NEW c \in Clients
        PROVE  Balanced(c)'
    <2>1. CASE request'[c].op = "none"
      BY <2>1 DEF Balanced
    <2>2. PageMoves(c)
      BY <1>1, BalancePageMoves
    <2> QED  BY <2>1, <2>2, BalancedStays, BalancedWhenReceived, BalancedWhenRead DEF PageMoves
  <1>3. credited' \in [Clients -> Nat]
    BY <1>1, BalancePageMoves
  <1> QED  BY <1>1, <1>2, <1>3 DEF BInv

\* The invariant of the storage's accounts holds under the API too, restarts
\* included.
THEOREM ApiMoney == ApiSpec => [](BInv /\ MoneyAccountedFor)
  <1>1. MoneyInv => MoneyAccountedFor
    BY MoneyInvSuffices
  <1>2. BInv => MoneyInv
    BY DEF BInv
  <1> QED  BY <1>1, <1>2, InitBInv, NextBInv, ApiInvariant, PTL DEF ApiSpec

\* The balance page, whose two numbers are read by two queries, never shows less
\* than the user had been credited with when the request arrived, whatever is
\* paid and credited in between (GetBalance of the balance manager).
THEOREM BalancePage == ApiSpec => BalanceShowsEveryPayment
  <1>1. ASSUME AInv, BInv, [ApiNext]_apiAllVars, NEW c \in Clients, Shown(c, "GetBalance")
        PROVE  Values(c)[1] + Values(c)[2] >= credited[c]
    <2>1. Respond(c)
      <3>1. ApiNext
        BY <1>1 DEF Shown, None, apiAllVars, apiVars
      <3> QED  BY <1>1, <3>1, ShownByRespond
    <2>2. PICK r, x, n : r = request[c] /\ x = seen[c] /\ n = credited[c]
      OBVIOUS
    <2>3. /\ r.op = "GetBalance" /\ Reads(r.op) = <<"current", "withdrawn">> /\ response[c] = None
          /\ r.user \in Users /\ n \in Nat
      BY <1>1, <2>2, RequestTypes DEF Shown, Reads, AInv, Served, Linked, NoRequest, BInv
    <2>4. /\ Exists(BalanceRow(r.user))
          /\ \/ x = <<>>
             \/ \E y \in Int : x = <<y>> /\ n <= y + db[BalanceRow(r.user)].withdrawn
      BY <1>1, <2>2, <2>3 DEF BInv, Balanced
    <2>5. x # <<>>
      <3>1. Len(x) < Len(Reads(r.op)) => Len(x) + 1 = Len(Reads(r.op))
        BY <2>1, <2>2, <2>3 DEF Respond, Reading, LastRead
      <3>2. Len(Reads(r.op)) = 2
        BY <2>3
      <3> QED  BY <3>1, <3>2
    <2>6. PICK y \in Int : x = <<y>> /\ n <= y + db[BalanceRow(r.user)].withdrawn
      BY <2>4, <2>5
    <2>7. Reading(c) /\ Reads(request[c].op)[Len(seen[c]) + 1] = "withdrawn"
      BY <2>2, <2>3, <2>6 DEF Reading
    <2>8. PICK w : w = db[BalanceRow(r.user)].withdrawn /\ w \in Nat
      BY <1>1, <2>3, <2>4, CreditedCovered DEF BInv
    <2>9. Values(c) = Append(x, w)
      <3>1. Value("withdrawn", r.user, x) = w
        BY <2>8 DEF Value
      <3> QED  BY <2>2, <2>7, <3>1 DEF Values
    <2>10. Values(c)[1] = y /\ Values(c)[2] = w
      BY <2>6, <2>9, AppendedToOne
    <2> QED  BY <2>2, <2>3, <2>6, <2>8, <2>10
  <1>2. AInv /\ BInv /\ [ApiNext]_apiAllVars =>
          (\A c \in Clients : Shown(c, "GetBalance") =>
             Values(c)[1] + Values(c)[2] >= credited[c])
    BY <1>1
  <1> QED  BY <1>2, ApiInvariant, ApiMoney, PTL DEF ApiSpec, BalanceShowsEveryPayment

-----------------------------------------------------------------------------
(* Types *)

Answering ==
  /\ request \in [Clients -> Requests \cup {NoRequest}]
  /\ response \in [Clients -> Responses]

LEMMA AnswersTyped ==
  ASSUME Answering, NEW c \in Clients, NEW status \in Responses, Answer(c, status)
  PROVE  Answering'
  BY DEF Answering, Answer

\* A response is one of the documented ones.
LEMMA StatusTyped ==
  ASSUME NEW r, NEW answer, NEW values
  PROVE  Status(r, answer, values) \in Responses
  <1>1. /\ RegisterStatus(answer) \in Responses /\ UploadStatus(r, answer) \in Responses
        /\ WithdrawStatus(answer) \in Responses
    BY DEF RegisterStatus, UploadStatus, WithdrawStatus, Responses
  <1>2. AuthenticateStatus(r, values[1]) \in Responses /\ ListStatus(values[1]) \in Responses
        /\ 200 \in Responses
    BY DEF AuthenticateStatus, ListStatus, Responses
  <1> QED  BY <1>1, <1>2 DEF Status

LEMMA AnsweringStays ==
  ASSUME Answering, [ApiNext]_apiAllVars
  PROVE  Answering'
  <1>1. CASE UNCHANGED <<request, response>>
    BY <1>1 DEF Answering
  <1>2. ASSUME NEW c \in Clients, NEW r \in Requests, Receive(c, r)
        PROVE  Answering'
    BY <1>2 DEF Receive, Answering
  <1>3. ASSUME NEW c \in Clients, NEW r \in Requests, Refuse(c, r)
        PROVE  Answering'
    <2>1. PICK status \in IF r.op \notin Public /\ r.user \notin tokens THEN {401}
                          ELSE IF r.op \in DOMAIN BadBody THEN BadBody[r.op] ELSE {} :
            Answer(c, status)
      BY <1>3 DEF Refuse
    <2>2. \A op \in DOMAIN BadBody : BadBody[op] \subseteq Responses
      BY DEF BadBody, Responses
    <2>3. status \in Responses
      BY <2>1, <2>2 DEF Responses
    <2> QED  BY <2>1, <2>3, AnswersTyped
  <1>4. ASSUME NEW c \in Clients, Respond(c)
        PROVE  Answering'
    BY <1>4, StatusTyped, AnswersTyped DEF Respond
  <1>5. ASSUME NEW c \in Clients, ReadFails(c)
        PROVE  Answering'
    <2>1. 500 \in Responses
      BY DEF Responses
    <2> QED  BY <1>5, <2>1, AnswersTyped DEF ReadFails
  <1>6. ASSUME NEW c \in Clients, Close(c)
        PROVE  Answering'
    BY <1>6 DEF Close, Answering, Responses
  <1>7. CASE Restart
    BY <1>7 DEF Restart, Answering, Responses
  <1>8. CASE \E c \in Clients : Read(c)
    BY <1>1, <1>8 DEF Read
  <1>9. CASE \E u \in Users : Expire(u)
    BY <1>1, <1>9 DEF Expire
  <1>10. CASE UNCHANGED apiVars
    BY <1>1, <1>10 DEF apiVars
  <1> QED  BY <1>2, <1>3, <1>4, <1>5, <1>6, <1>7, <1>8, <1>9, <1>10
           DEF ApiNext, Serve, BeginWork, EndWork, apiAllVars

\* Every response is one of the documented statuses, and a client that serves a
\* request calls the storage for that request and no other, until it has answered.
THEOREM ApiTyped == ApiSpec => []ApiTypeOK
  <1>1. ApiInit => Answering
    BY DEF ApiInit, Answering, Responses
  <1>2. Answering /\ [ApiNext]_apiAllVars => Answering'
    BY AnsweringStays
  <1>3. AInv /\ BInv /\ Answering => ApiTypeOK
    BY DEF AInv, BInv, Answering, Served, Linked, ApiTypeOK
  <1> QED  BY <1>1, <1>2, <1>3, ApiInvariant, ApiMoney, PTL DEF ApiSpec
=============================================================================
