-------------------------------- MODULE Api --------------------------------
(***************************************************************************)
(* The HTTP API (internal/gophermart/handler, .../handler/api) and the     *)
(* managers under it (internal/gophermart/service), on top of the storage  *)
(* they call. A client is a goroutine that serves one request at a time,   *)
(* or one worker of the order processor. The requests that write are one   *)
(* call of Storage; those that read are one or two reads, each of its own  *)
(* snapshot, with anything in between.                                     *)
(*                                                                         *)
(* What a request that writes was answered with stays with its client,     *)
(* together with the request, until the client goes on, so that what one   *)
(* client was told can be held against the database, and against what      *)
(* another was told, at any later moment.                                  *)
(***************************************************************************)
EXTENDS Storage, Sequences

CONSTANT KeyFile   \* the secret key is read from a file

ASSUME ApiAssumption == KeyFile \in BOOLEAN

VARIABLES
  request,    \* request[c]: the request c serves, or NoRequest
  seen,       \* seen[c]: what the first reads of the request returned
  response,   \* response[c]: the HTTP status c was answered with, or None
  tokens,     \* users who hold a token that is valid now
  credited    \* history: what the user of a GetBalance had been credited with
              \* when the request arrived

apiVars == <<request, seen, response, tokens, credited>>

-----------------------------------------------------------------------------
(* Requests *)

\* The user of a secured request is the one its token names.
Requests ==
  [op : {"RegisterUser", "AuthenticateUser"}, user : Users, password : Passwords]
    \cup [op : {"UploadOrder"}, user : Users, order : Orders]
    \cup [op : {"Withdraw"}, user : Users, order : Purchases, amount : Sums]
    \cup [op : {"GetBalance", "ListOrders", "ListWithdrawals"}, user : Users]

NoRequest == [op |-> "none"]
None == 0

Public == {"RegisterUser", "AuthenticateUser"}

\* What a body that cannot be read, or whose order number fails the check of
\* its digits, is answered with; 500 is for a password bcrypt does not hash (64
\* characters may be more than its 72 bytes).
BadBody == [RegisterUser |-> {400, 500}, AuthenticateUser |-> {400},
            UploadOrder |-> {400, 422}, Withdraw |-> {422}]

\* The call to the storage that serves a request; what follows the call that accepts
\* an upload is Notifying.
CallOf(r) ==
  CASE r.op = "RegisterUser" -> [r EXCEPT !.op = "CreateUser"]
    [] r.op = "UploadOrder" -> [r EXCEPT !.op = "CreateOrder"]
    [] r.op = "Withdraw" -> [r EXCEPT !.op = "WithdrawFunds"]
    [] OTHER -> NoCall

\* The responses that say something lasting.
Remembered ==
  {<<"RegisterUser", 200>>, <<"UploadOrder", 200>>, <<"UploadOrder", 202>>,
   <<"UploadOrder", 409>>, <<"Withdraw", 200>>}

\* The response is sent; of one that says nothing lasting no more than the status
\* is remembered.
Answer(c, status) ==
  /\ response' = [response EXCEPT ![c] = status]
  /\ IF <<request[c].op, status>> \in Remembered
     THEN UNCHANGED <<request, seen, credited>>
     ELSE /\ request' = [request EXCEPT ![c] = NoRequest]
          /\ seen' = [seen EXCEPT ![c] = <<>>]
          /\ credited' = [credited EXCEPT ![c] = 0]

Idle(c) == pc[c] = "idle" /\ request[c] = NoRequest /\ response[c] = None

\* A worker of the order processor calls the storage.
BeginWork(c, k) == Idle(c) /\ Begin(c, k) /\ UNCHANGED apiVars

EndWork(c) == request[c] = NoRequest /\ Return(c) /\ UNCHANGED apiVars

\* The request is refused before the storage is called.
Refuse(c, r) ==
  /\ Idle(c)
  /\ \E status \in IF r.op \notin Public /\ r.user \notin tokens THEN {401}
                   ELSE IF r.op \in DOMAIN BadBody THEN BadBody[r.op] ELSE {} :
       Answer(c, status)
  /\ UNCHANGED <<vars, tokens>>

Receive(c, r) ==
  /\ Idle(c)
  /\ r.op \in Public \/ r.user \in tokens
  /\ request' = [request EXCEPT ![c] = r]
  /\ credited' = [credited EXCEPT ![c] = IF r.op = "GetBalance" THEN CreditedTo(r.user) ELSE 0]
  /\ IF CallOf(r) = NoCall THEN UNCHANGED vars ELSE Begin(c, CallOf(r))
  /\ UNCHANGED <<seen, response, tokens>>

-----------------------------------------------------------------------------
(* Requests that read *)

\* Mutant of Reads: the other way round.
ReadsReversed(op) ==
  CASE op = "AuthenticateUser" -> <<"password">>
    [] op = "GetBalance" -> <<"withdrawn", "current">>
    [] op = "ListOrders" -> <<"orders", "accruals">>
    [] op = "ListWithdrawals" -> <<"withdrawals">>
    [] OTHER -> <<>>

\* The reads an operation makes, in order.
Reads(op) ==
  CASE op = "AuthenticateUser" -> <<"password">>
    [] op = "GetBalance" -> <<"current", "withdrawn">>
    [] op = "ListOrders" -> <<"orders", "accruals">>
    [] op = "ListWithdrawals" -> <<"withdrawals">>
    [] OTHER -> <<>>

\* GetPasswordHash: none for a user who does not exist, and no error.
PasswordsOf(u) == IF Exists(UserRow(u)) THEN {db[UserRow(u)].password} ELSE {}

OrdersOf(u) == {o \in Orders : Exists(OrderRow(o)) /\ db[OrderRow(o)].owner = u}

\* GetOrders, and GetOrderAccruals for the orders that returned.
ListedOrders(u) == [o \in OrdersOf(u) |-> db[OrderRow(o)].status]
AccrualsFor(orders) ==
  [o \in {p \in orders : Exists(AccrualRow(p))} |-> db[AccrualRow(o)]]

\* GetWithdrawalTransactions.
ListedWithdrawals(u) == [p \in PaymentsOf(u) |-> db[PaymentRow(p)].amount]

\* What a read returns, for user u, after the reads that returned before.
Value(read, u, before) ==
  CASE read = "password" -> PasswordsOf(u)
    [] read = "current" -> db[BalanceRow(u)].current
    [] read = "withdrawn" -> db[BalanceRow(u)].withdrawn
    [] read = "orders" -> ListedOrders(u)
    [] read = "accruals" -> AccrualsFor(DOMAIN before[1])
    [] read = "withdrawals" -> ListedWithdrawals(u)

Reading(c) == response[c] = None /\ Len(seen[c]) < Len(Reads(request[c].op))

LastRead(c) == Len(seen[c]) + 1 = Len(Reads(request[c].op))

\* What the request has read, with the read that is next.
Values(c) ==
  IF Reading(c)
  THEN Append(seen[c], Value(Reads(request[c].op)[Len(seen[c]) + 1], request[c].user, seen[c]))
  ELSE seen[c]

\* A read that another follows; the last one is part of Respond, which uses no
\* other shared state.
Read(c) ==
  /\ Reading(c) /\ ~LastRead(c)
  /\ seen' = [seen EXCEPT ![c] = Values(c)]
  /\ UNCHANGED <<vars, request, response, tokens, credited>>

\* No accruals are read when there are no orders.
NothingListed(c) == request[c].op = "ListOrders" /\ LastRead(c) /\ DOMAIN seen[c][1] = {}

ReadFails(c) ==
  /\ Unreliable /\ Reading(c) /\ ~NothingListed(c)
  /\ Answer(c, 500)
  /\ UNCHANGED <<vars, tokens>>

-----------------------------------------------------------------------------
(* Responses *)

\* Mutant of UploadStatus: the owner is not compared with the user.
UploadStatusAlwaysOK(r, answer) ==
  CASE answer = "ok" -> 202
    [] answer = "exists" -> 200
    [] OTHER -> 500

\* processUploadOrderError: an order of the user's own is no conflict.
UploadStatus(r, answer) ==
  CASE answer = "ok" -> 202
    [] answer = "exists" -> IF db[OrderRow(r.order)].owner = r.user THEN 200 ELSE 409
    [] OTHER -> 500

\* Mutant of RegisterStatus: a status the API does not document.
RegisterStatusCreated(answer) ==
  CASE answer = "ok" -> 201 [] answer = "conflict" -> 409 [] OTHER -> 500

RegisterStatus(answer) ==
  CASE answer = "ok" -> 200 [] answer = "conflict" -> 409 [] OTHER -> 500

WithdrawStatus(answer) ==
  CASE answer = "ok" -> 200 [] answer = "notEnough" -> 402 [] OTHER -> 500

AuthenticateStatus(r, passwords) == IF r.password \in passwords THEN 200 ELSE 401

ListStatus(list) == IF DOMAIN list = {} THEN 204 ELSE 200

\* The response of a request that is done: the storage answered the call with
\* answer, or the reads returned values.
Status(r, answer, values) ==
  CASE r.op = "RegisterUser" -> RegisterStatus(answer)
    [] r.op = "UploadOrder" -> UploadStatus(r, answer)
    [] r.op = "Withdraw" -> WithdrawStatus(answer)
    [] r.op = "AuthenticateUser" -> AuthenticateStatus(r, values[1])
    [] r.op = "GetBalance" -> 200
    [] OTHER -> ListStatus(values[1])

\* Mutant of Issued: processRegisterUserError without the return.
IssuedAnyway(r, status) ==
  IF r.op = "RegisterUser" \/ (r.op = "AuthenticateUser" /\ status = 200) THEN {r.user} ELSE {}

\* issueUserToken.
Issued(r, status) == IF r.op \in Public /\ status = 200 THEN {r.user} ELSE {}

\* CreateOrder of the manager has the order stored, and notifies the processor before
\* it returns (NewOrderArrived). It may wait there, with no transaction open, for as
\* long as the process runs: OrderProcessor shows when.
Notifying(c) ==
  request[c].op = "UploadOrder" /\ response[c] = None /\ pc[c] = "ok"

\* The handler is done: for an upload that is accepted, the notification has returned.
Respond(c) ==
  /\ request[c] # NoRequest /\ response[c] = None
  /\ Reading(c) => LastRead(c)
  /\ LET r == request[c]
         status == Status(r, pc[c], Values(c))
     IN  /\ IF CallOf(r) = NoCall THEN UNCHANGED vars ELSE Return(c)
         /\ Answer(c, status)
         /\ tokens' = tokens \cup Issued(r, status)

\* The client goes on.
Close(c) ==
  /\ response[c] # None
  /\ request' = [request EXCEPT ![c] = NoRequest]
  /\ seen' = [seen EXCEPT ![c] = <<>>]
  /\ response' = [response EXCEPT ![c] = None]
  /\ credited' = [credited EXCEPT ![c] = 0]
  /\ UNCHANGED <<vars, tokens>>

-----------------------------------------------------------------------------
(* Tokens and restarts *)

Expire(u) == u \in tokens /\ tokens' = tokens \ {u}
             /\ UNCHANGED <<vars, request, seen, response, credited>>

\* The process ends and starts again: its transactions are rolled back, its
\* requests get no answer, and a secret key that is not in a file is a new one.
Restart ==
  /\ trx' = [c \in Clients |-> <<>>]
  /\ call' = [c \in Clients |-> NoCall]
  /\ pc' = [c \in Clients |-> "idle"]
  /\ request' = [c \in Clients |-> NoRequest]
  /\ seen' = [c \in Clients |-> <<>>]
  /\ response' = [c \in Clients |-> None]
  /\ credited' = [c \in Clients |-> 0]
  /\ tokens' = IF KeyFile THEN tokens ELSE {}
  /\ UNCHANGED db

-----------------------------------------------------------------------------
ApiInit ==
  /\ Init
  /\ request = [c \in Clients |-> NoRequest]
  /\ seen = [c \in Clients |-> <<>>]
  /\ response = [c \in Clients |-> None]
  /\ tokens = {}
  /\ credited = [c \in Clients |-> 0]

\* What the goroutine of c does once it has begun.
Serve(c) ==
  \/ Statement(c) /\ UNCHANGED apiVars
  \/ Read(c) \/ Respond(c) \/ EndWork(c)

ApiNext ==
  \/ \E c \in Clients :
       \/ \E k \in WorkerCalls : BeginWork(c, k)
       \/ \E r \in Requests : Receive(c, r) \/ Refuse(c, r)
       \/ Serve(c) \/ ReadFails(c) \/ Close(c)
       \/ Fail(c) /\ UNCHANGED apiVars
  \/ \E u \in Users : Expire(u)
  \/ Restart

apiAllVars == <<vars, apiVars>>

ApiSpec == ApiInit /\ [][ApiNext]_apiAllVars

\* The scheduler runs every goroutine; a statement returns, and PostgreSQL
\* grants a lock in the order of the requests for it: a transaction whose lock
\* is free again and again gets it. Requests need not arrive, nor clients go on, nor
\* notifications of the processor return.
FairApiSpec ==
  ApiSpec /\ \A c \in Clients : SF_apiAllVars(~Notifying(c) /\ Serve(c))

-----------------------------------------------------------------------------
(* Properties *)

Responses == {None, 200, 202, 204, 400, 401, 402, 409, 422, 500}

\* The type of every variable the API adds, the documented statuses among them;
\* a client that serves a request calls the storage for that request, and for no
\* other.
ApiTypeOK ==
  /\ request \in [Clients -> Requests \cup {NoRequest}]
  /\ response \in [Clients -> Responses]
  /\ tokens \subseteq Users
  /\ credited \in [Clients -> Nat]
  /\ \A c \in Clients :
       /\ seen[c] # <<>> => request[c].op \in {"GetBalance", "ListOrders"}
       /\ request[c] # NoRequest =>
            call[c] = IF response[c] = None THEN CallOf(request[c]) ELSE NoCall

Answered(c, op, statuses) == request[c].op = op /\ response[c] \in statuses

\* What a client was told stays true, whatever other requests, workers and
\* restarts do afterwards: an order it uploaded is there and its own, one that
\* was a conflict is another user's, and a payment is there with its sum
\* (processUploadOrderError, CreateOrder, WithdrawFunds).
ToldTheTruth ==
  \A c \in Clients :
    LET r == request[c]
    IN  /\ Answered(c, "UploadOrder", {200, 202}) => r.order \in OrdersOf(r.user)
        /\ Answered(c, "UploadOrder", {409}) =>
             \E u \in Users \ {r.user} : r.order \in OrdersOf(u)
        /\ Answered(c, "Withdraw", {200}) =>
             db[PaymentRow(r.order)] = [user |-> r.user, amount |-> Column(r.amount)]

\* Two clients are never both told that an order is accepted, that a login is
\* theirs, or that the same purchase is paid, although the look-ups of both may
\* come before the inserts of either (maybeCreateOrder, CreateUser).
AcceptedOnce ==
  \A c, d \in Clients :
    /\ c # d /\ request[c].op = request[d].op
    /\ \/ Answered(c, "UploadOrder", {202}) /\ response[d] = 202
       \/ Answered(c, "RegisterUser", {200}) /\ response[d] = 200
       \/ Answered(c, "Withdraw", {200}) /\ response[d] = 200
    => IF request[c].op = "RegisterUser" THEN request[c].user # request[d].user
                                         ELSE request[c].order # request[d].order

\* A token names a user the storage knows: IssueToken leaves it to its callers
\* to see to that (token_mgr.go:35-36), and every secured request relies on it.
TokensNameUsers == \A u \in tokens : Exists(UserRow(u))

\* What the reads of the request return is being sent.
Shown(c, op) == request[c].op = op /\ response[c] = None /\ response'[c] = 200

\* The balance page is read by two queries: what it shows as current and as
\* withdrawn adds up to no less than what the user had been credited with when
\* the request arrived. A payment in between may show twice, but is not lost.
BalanceShowsEveryPayment ==
  [][\A c \in Clients :
       Shown(c, "GetBalance") => Values(c)[1] + Values(c)[2] >= credited[c]]_apiAllVars

\* The list of orders is read by two queries: an order listed as PROCESSED is
\* listed with its accrual, and one listed as INVALID without
\* (createListOrdersResponse).
ProcessedShowsAccrual ==
  [][\A c \in Clients :
       Shown(c, "ListOrders") =>
         LET status == Values(c)[1]
             accrual == Values(c)[2]
         IN  \A o \in DOMAIN status :
               /\ status[o] = "PROCESSED" => o \in DOMAIN accrual
               /\ status[o] = "INVALID" => o \notin DOMAIN accrual]_apiAllVars

Busy(c) ==
  \/ request[c] # NoRequest /\ response[c] = None
  \/ request[c] = NoRequest /\ pc[c] # "idle"

\* No transaction waits for ever for the rows of others: every call of a worker
\* returns and every request is answered, or the process ends, or the request is an
\* upload whose order is stored and that has come to its notification. That one may
\* never return, and keeps nobody else from an answer.
AnsweredOrNotifying == \A c \in Clients : Busy(c) ~> ~Busy(c) \/ Notifying(c)
=============================================================================
