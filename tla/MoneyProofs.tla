----------------------------- MODULE MoneyProofs -----------------------------
(***************************************************************************)
(* Proofs that the storage accounts for all the money (MoneyAccountedFor), *)
(* for any users, orders, payments, sums and any precision of the columns. *)
(*                                                                         *)
(* The transactions are dealt with in StorageProofs: every step that       *)
(* changes what callers see is one operation of Ledger. Here each of those *)
(* operations is held against the sums over the rows.                      *)
(***************************************************************************)
EXTENDS StorageProofs, InductionFacts

AmountOf(rows) == [p \in Purchases |-> rows[PaymentRow(p)].amount]
AccrualOf(rows) == [o \in Orders |-> rows[AccrualRow(o)]]

-----------------------------------------------------------------------------
(* The sums of the model are sums of functions *)

\* What a user has paid is the sum of the amounts,
LEMMA PaidByIs ==
  \A u : IsFiniteSet(PaymentsOf(u)) => PaidBy(u) = SumOf(AmountOf(db), PaymentsOf(u))
<1> SUFFICES ASSUME NEW u, IsFiniteSet(PaymentsOf(u))
             PROVE  PaidBy(u) = SumOf(AmountOf(db), PaymentsOf(u))
  OBVIOUS
<1> DEFINE S == PaymentsOf(u)
           h == AmountOf(db)
           Taken(g) == g = [s \in SUBSET S |->
                         IF s = {} THEN 0
                         ELSE db[PaymentRow(CHOOSE x \in s : TRUE)].amount
                                + g[s \ {CHOOSE x \in s : TRUE}]]
<1>1. PaidBy(u) = (CHOOSE g : Taken(g))[S]
  BY DEF PaidBy, MapThenSumSet, MapThenFoldSet
<1>2. ASSUME NEW g PROVE Taken(g) <=> Totals(h, S, g)
  <2>1. ASSUME NEW s \in SUBSET S
        PROVE  Total(h, g, s) = IF s = {} THEN 0
                                ELSE db[PaymentRow(CHOOSE x \in s : TRUE)].amount
                                       + g[s \ {CHOOSE x \in s : TRUE}]
    BY ChosenElement DEF Total, Chosen, AmountOf, PaymentsOf
  <2> QED BY <2>1 DEF Totals
<1>3. PICK g : Totals(h, S, g)
  <2>1. IsFiniteSet(S)
    OBVIOUS
  <2> HIDE DEF h, S
  <2> QED BY <2>1, TotalsExist
<1>4. Taken(CHOOSE f : Taken(f))
  <2> HIDE DEF Taken, S, h
  <2>1. \E f : Taken(f)
    BY <1>2, <1>3
  <2> QED BY <2>1
<1>5. Totals(h, S, CHOOSE f : Taken(f))
  BY <1>2, <1>4
<1> HIDE DEF Taken
<1> QED BY <1>1, <1>5, SumOfIs

\* and what a user was credited with that of the accruals.
LEMMA CreditedToIs ==
  \A u : IsFiniteSet(CreditsOf(u)) => CreditedTo(u) = SumOf(AccrualOf(db), CreditsOf(u))
<1> SUFFICES ASSUME NEW u, IsFiniteSet(CreditsOf(u))
             PROVE  CreditedTo(u) = SumOf(AccrualOf(db), CreditsOf(u))
  OBVIOUS
<1> DEFINE S == CreditsOf(u)
           h == AccrualOf(db)
           Taken(g) == g = [s \in SUBSET S |->
                         IF s = {} THEN 0
                         ELSE db[AccrualRow(CHOOSE x \in s : TRUE)]
                                + g[s \ {CHOOSE x \in s : TRUE}]]
<1>1. CreditedTo(u) = (CHOOSE g : Taken(g))[S]
  BY DEF CreditedTo, MapThenSumSet, MapThenFoldSet
<1>2. ASSUME NEW g PROVE Taken(g) <=> Totals(h, S, g)
  <2>1. ASSUME NEW s \in SUBSET S
        PROVE  Total(h, g, s) = IF s = {} THEN 0
                                ELSE db[AccrualRow(CHOOSE x \in s : TRUE)]
                                       + g[s \ {CHOOSE x \in s : TRUE}]
    BY ChosenElement DEF Total, Chosen, AccrualOf, CreditsOf
  <2> QED BY <2>1 DEF Totals
<1>3. PICK g : Totals(h, S, g)
  <2>1. IsFiniteSet(S)
    OBVIOUS
  <2> HIDE DEF h, S
  <2> QED BY <2>1, TotalsExist
<1>4. Taken(CHOOSE f : Taken(f))
  <2> HIDE DEF Taken, S, h
  <2>1. \E f : Taken(f)
    BY <1>2, <1>3
  <2> QED BY <2>1
<1>5. Totals(h, S, CHOOSE f : Taken(f))
  BY <1>2, <1>4
<1> HIDE DEF Taken
<1> QED BY <1>1, <1>5, SumOfIs

\* The same after a step.
LEMMA SumsAfter ==
  \A u : /\ IsFiniteSet(PaymentsOf(u))' =>
              PaidBy(u)' = SumOf(AmountOf(db'), PaymentsOf(u)')
         /\ IsFiniteSet(CreditsOf(u))' =>
              CreditedTo(u)' = SumOf(AccrualOf(db'), CreditsOf(u)')
<1>1. (\A u : IsFiniteSet(PaymentsOf(u)) => PaidBy(u) = SumOf(AmountOf(db), PaymentsOf(u)))'
  BY PaidByIs, PTL
<1>2. (\A u : IsFiniteSet(CreditsOf(u)) => CreditedTo(u) = SumOf(AccrualOf(db), CreditsOf(u)))'
  BY CreditedToIs, PTL
<1> QED BY <1>1, <1>2

-----------------------------------------------------------------------------
(* How the sums change with the rows *)

\* Payments that do not change have the same sum.
LEMMA SamePayments ==
  ASSUME NEW u, IsFiniteSet(PaymentsOf(u)),
         \A p \in Purchases : db'[PaymentRow(p)] = db[PaymentRow(p)]
  PROVE  PaymentsOf(u)' = PaymentsOf(u) /\ PaidBy(u)' = PaidBy(u)
<1>1. PaymentsOf(u)' = PaymentsOf(u)
  BY DEF PaymentsOf, Exists
<1>2. AmountOf(db') = AmountOf(db)
  BY DEF AmountOf
<1> QED BY <1>1, <1>2, PaidByIs, SumsAfter

\* A payment has a payer and an amount,
LEMMA PaymentTyped ==
  ASSUME TypeOK, NEW p \in Purchases, Exists(PaymentRow(p))
  PROVE  db[PaymentRow(p)].user \in Users /\ db[PaymentRow(p)].amount \in Nat
<1>1. WellTyped(db) /\ DOMAIN db = Rows
  BY DEF TypeOK
<1>2. db[PaymentRow(p)] \in PaymentType
  BY <1>1, TypedRows, RowsAre DEF Typed, Exists
<1> QED BY <1>2 DEF PaymentType

\* and an accrual is a number.
LEMMA AccrualTyped ==
  ASSUME TypeOK, NEW o \in Orders, Exists(AccrualRow(o))
  PROVE  db[AccrualRow(o)] \in Nat
<1>1. WellTyped(db) /\ DOMAIN db = Rows
  BY DEF TypeOK
<1> QED BY <1>1, TypedRows, RowsAre DEF Typed, Exists

\* A new payment is added to those of its user, and to no others.
LEMMA MorePayments ==
  ASSUME TypeOK, NEW u, IsFiniteSet(PaymentsOf(u)),
         NEW p \in Purchases, ~Exists(PaymentRow(p)),
         NEW v, NEW a \in Nat, db'[PaymentRow(p)] = [user |-> v, amount |-> a],
         [user |-> v, amount |-> a] # NoRow,
         \A q \in Purchases : q # p => db'[PaymentRow(q)] = db[PaymentRow(q)]
  PROVE  IF u = v
         THEN /\ IsFiniteSet(PaymentsOf(u)')
              /\ Cardinality(PaymentsOf(u)') = Cardinality(PaymentsOf(u)) + 1
              /\ PaidBy(u)' = PaidBy(u) + a
         ELSE PaymentsOf(u)' = PaymentsOf(u) /\ PaidBy(u)' = PaidBy(u)
<1> DEFINE S == PaymentsOf(u)
           h == AmountOf(db')
<1>1. p \notin S /\ \A q \in S : h[q] = AmountOf(db)[q] /\ h[q] \in Nat
  BY PaymentTyped DEF PaymentsOf, AmountOf
<1>2. SumOf(h, S) = SumOf(AmountOf(db), S) /\ SumOf(h, S) \in Nat
  <2> HIDE DEF S, h
  <2>1. IsFiniteSet(S)
    BY DEF S
  <2> QED BY <1>1, <2>1, SumOfSame, SumOfNat
<1>3. PaidBy(u) = SumOf(h, S)
  BY <1>2, PaidByIs
<1>4. CASE u = v
  <2>1. PaymentsOf(u)' = S \cup {p}
    BY <1>4 DEF PaymentsOf, Exists
  <2>2. h[p] = a
    BY DEF AmountOf
  <2>3. \A q \in S \cup {p} : h[q] \in Nat
    BY <1>1, <2>2
  <2>4. /\ IsFiniteSet(S \cup {p}) /\ Cardinality(S \cup {p}) = Cardinality(S) + 1
        /\ SumOf(h, S \cup {p}) = h[p] + SumOf(h, S)
    <3>1. IsFiniteSet(S) /\ p \notin S
      BY <1>1
    <3> HIDE DEF S, h
    <3> QED BY <2>3, <3>1, SumOfAdded, FS_AddElement
  <2>5. PaidBy(u)' = SumOf(h, S \cup {p})
    BY <2>1, <2>4, SumsAfter
  <2> HIDE DEF h
  <2> QED BY <1>2, <1>3, <1>4, <2>1, <2>2, <2>4, <2>5
<1>5. CASE u # v
  <2>1. PaymentsOf(u)' = S
    BY <1>5 DEF PaymentsOf, Exists
  <2>2. PaidBy(u)' = SumOf(h, S)
    BY <2>1, SumsAfter
  <2> QED BY <1>3, <1>5, <2>1, <2>2
<1> QED BY <1>4, <1>5

\* Uploads and marks other than "processed" change the order, but not what was
\* credited, and to whom.
LEMMA SameCredits ==
  ASSUME NEW u, IsFiniteSet(CreditsOf(u)),
         \A o \in Orders :
           /\ db'[AccrualRow(o)] = db[AccrualRow(o)]
           /\ Exists(AccrualRow(o)) => db'[OrderRow(o)].owner = db[OrderRow(o)].owner
  PROVE  CreditsOf(u)' = CreditsOf(u) /\ CreditedTo(u)' = CreditedTo(u)
<1>1. CreditsOf(u)' = CreditsOf(u)
  BY DEF CreditsOf, Exists
<1>2. AccrualOf(db') = AccrualOf(db)
  BY DEF AccrualOf
<1> QED BY <1>1, <1>2, CreditedToIs, SumsAfter

\* An order that is credited is credited to its owner.
LEMMA MoreCredits ==
  ASSUME TypeOK, NEW u, IsFiniteSet(CreditsOf(u)),
         NEW o \in Orders, ~Exists(AccrualRow(o)),
         NEW v, db'[OrderRow(o)].owner = v,
         NEW a \in Nat, db'[AccrualRow(o)] = a, a # NoRow,
         \A q \in Orders : q # o => /\ db'[AccrualRow(q)] = db[AccrualRow(q)]
                                    /\ db'[OrderRow(q)] = db[OrderRow(q)]
  PROVE  IF u = v
         THEN /\ IsFiniteSet(CreditsOf(u)')
              /\ CreditedTo(u)' = CreditedTo(u) + a
         ELSE CreditsOf(u)' = CreditsOf(u) /\ CreditedTo(u)' = CreditedTo(u)
<1> DEFINE S == CreditsOf(u)
           h == AccrualOf(db')
<1>1. o \notin S /\ \A q \in S : h[q] = AccrualOf(db)[q] /\ h[q] \in Nat
  BY AccrualTyped DEF CreditsOf, AccrualOf
<1>2. SumOf(h, S) = SumOf(AccrualOf(db), S) /\ SumOf(h, S) \in Nat
  <2> HIDE DEF S, h
  <2>1. IsFiniteSet(S)
    BY DEF S
  <2> QED BY <1>1, <2>1, SumOfSame, SumOfNat
<1>3. CreditedTo(u) = SumOf(h, S)
  BY <1>2, CreditedToIs
<1>4. CASE u = v
  <2>1. CreditsOf(u)' = S \cup {o}
    BY <1>4 DEF CreditsOf, Exists
  <2>2. \A q \in S \cup {o} : h[q] \in Nat
    BY <1>1 DEF AccrualOf
  <2>3. h[o] = a
    BY DEF AccrualOf
  <2>4. IsFiniteSet(S \cup {o}) /\ SumOf(h, S \cup {o}) = h[o] + SumOf(h, S)
    <3>1. IsFiniteSet(S) /\ o \notin S
      BY <1>1
    <3> HIDE DEF S, h
    <3> QED BY <2>2, <3>1, SumOfAdded
  <2>5. CreditedTo(u)' = SumOf(h, S \cup {o})
    BY <2>1, <2>4, SumsAfter
  <2> HIDE DEF h
  <2> QED BY <1>2, <1>3, <1>4, <2>1, <2>3, <2>4, <2>5
<1>5. CASE u # v
  <2>1. CreditsOf(u)' = S
    BY <1>5 DEF CreditsOf, Exists
  <2>2. CreditedTo(u)' = SumOf(h, S)
    BY <2>1, SumsAfter
  <2> QED BY <1>3, <1>5, <2>1, <2>2
<1> QED BY <1>4, <1>5

-----------------------------------------------------------------------------
(* The invariant *)

Rounding(u) == db[BalanceRow(u)].current + db[BalanceRow(u)].withdrawn - CreditedTo(u)

\* What MoneyAccountedFor says of one user.
Accounted(u) ==
  /\ db[BalanceRow(u)].withdrawn = PaidBy(u)
  /\ Rounding(u) \in 0 .. (IF Grid = 1 THEN 0 ELSE Cardinality(PaymentsOf(u)))

\* Only who is registered has payments, and everybody has finitely many rows.
PayersRegistered ==
  \A p \in Purchases : Exists(PaymentRow(p)) => Exists(UserRow(db[PaymentRow(p)].user))

FinitelyMany == \A u \in Users : IsFiniteSet(PaymentsOf(u)) /\ IsFiniteSet(CreditsOf(u))

MoneyInv ==
  /\ PayersRegistered /\ FinitelyMany
  /\ \A u \in Users : Exists(BalanceRow(u)) => Accounted(u)

\* At first nobody has a balance.
LEMMA InitMoney == Init => MoneyInv
<1> SUFFICES ASSUME Init PROVE MoneyInv
  OBVIOUS
<1>1. /\ \A u \in Users : ~Exists(BalanceRow(u))
      /\ \A p \in Purchases : ~Exists(PaymentRow(p))
      /\ \A o \in Orders : ~Exists(AccrualRow(o))
  BY RowsAre DEF Init, Exists
<1>2. \A u \in Users : PaymentsOf(u) = {} /\ CreditsOf(u) = {}
  BY <1>1 DEF PaymentsOf, CreditsOf
<1> QED BY <1>1, <1>2, FS_EmptySet DEF MoneyInv, PayersRegistered, FinitelyMany

\* The numbers in a user's rows.
LEMMA BalanceTyped ==
  ASSUME TypeOK, NEW u \in Users, Exists(BalanceRow(u))
  PROVE  /\ db[BalanceRow(u)].current \in Int /\ db[BalanceRow(u)].withdrawn \in Nat
         /\ DOMAIN db[BalanceRow(u)] = {"current", "withdrawn"}
<1>1. WellTyped(db) /\ DOMAIN db = Rows
  BY DEF TypeOK
<1>2. db[BalanceRow(u)] \in BalanceType
  BY <1>1, TypedRows, RowsAre DEF Typed, Exists
<1> QED BY <1>2 DEF BalanceType

\* So their sums are numbers.
LEMMA SumsTyped ==
  ASSUME TypeOK, NEW u, IsFiniteSet(PaymentsOf(u)), IsFiniteSet(CreditsOf(u))
  PROVE  PaidBy(u) \in Nat /\ CreditedTo(u) \in Nat /\ Cardinality(PaymentsOf(u)) \in Nat
<1>1. \A p \in PaymentsOf(u) : AmountOf(db)[p] \in Nat
  BY PaymentTyped DEF PaymentsOf, AmountOf
<1>2. \A o \in CreditsOf(u) : AccrualOf(db)[o] \in Nat
  BY AccrualTyped DEF CreditsOf, AccrualOf
<1>3. SumOf(AmountOf(db), PaymentsOf(u)) \in Nat
  BY <1>1, SumOfNat
<1>4. SumOf(AccrualOf(db), CreditsOf(u)) \in Nat
  BY <1>2, SumOfNat
<1> QED BY <1>3, <1>4, PaidByIs, CreditedToIs, FS_CardinalityType

\* A user whose rows stay is accounted for as before.
LEMMA StaysAccounted ==
  ASSUME NEW u, Exists(BalanceRow(u)) => Accounted(u),
         db'[BalanceRow(u)] = db[BalanceRow(u)],
         PaymentsOf(u)' = PaymentsOf(u), PaidBy(u)' = PaidBy(u),
         CreditedTo(u)' = CreditedTo(u)
  PROVE  Exists(BalanceRow(u))' => Accounted(u)'
BY DEF Exists, Accounted, Rounding

-----------------------------------------------------------------------------
(* The operations of Ledger *)

\* Who is not registered has no payment and no order.
LEMMA NothingYet ==
  ASSUME IInv, MoneyInv, NEW u \in Users, ~Exists(BalanceRow(u))
  PROVE  PaymentsOf(u) = {} /\ CreditsOf(u) = {}
<1>1. ~Exists(UserRow(u))
  BY DEF IInv, RowsTogether
<1>2. PaymentsOf(u) = {}
  BY <1>1 DEF PaymentsOf, MoneyInv, PayersRegistered
<1>3. \A o \in Orders : Exists(AccrualRow(o)) => Exists(OrderRow(o))
  BY DEF IInv, RowsTogether
<1>4. CreditsOf(u) = {}
  BY <1>1, <1>3 DEF CreditsOf, IInv, OwnersRegistered
<1> QED BY <1>2, <1>4

\* Register: the new user has no payment and no credit yet.
LEMMA RegisterAccounted ==
  ASSUME IInv, MoneyInv, NEW v \in Users, Promise!Register(v)
  PROVE  \A u \in Users : /\ IsFiniteSet(PaymentsOf(u)') /\ IsFiniteSet(CreditsOf(u)')
                          /\ Exists(BalanceRow(u))' => Accounted(u)'
<1>1. /\ ~Exists(BalanceRow(v))
      /\ db'[BalanceRow(v)] = [current |-> 0, withdrawn |-> 0]
      /\ \A u \in Users : u # v => db'[BalanceRow(u)] = db[BalanceRow(u)]
      /\ \A o \in Orders : /\ db'[OrderRow(o)] = db[OrderRow(o)]
                           /\ db'[AccrualRow(o)] = db[AccrualRow(o)]
      /\ \A p \in Purchases : db'[PaymentRow(p)] = db[PaymentRow(p)]
  BY DEF Promise!Register, Promise!Registered, RowsOf, Exists
<1> SUFFICES ASSUME NEW u \in Users
             PROVE  /\ IsFiniteSet(PaymentsOf(u)') /\ IsFiniteSet(CreditsOf(u)')
                    /\ Exists(BalanceRow(u))' => Accounted(u)'
  OBVIOUS
<1>2. IsFiniteSet(PaymentsOf(u)) /\ IsFiniteSet(CreditsOf(u))
  BY DEF MoneyInv, FinitelyMany
<1>3. /\ PaymentsOf(u)' = PaymentsOf(u) /\ PaidBy(u)' = PaidBy(u)
      /\ CreditsOf(u)' = CreditsOf(u) /\ CreditedTo(u)' = CreditedTo(u)
  BY <1>1, <1>2, SamePayments, SameCredits
<1>4. CASE u # v
  BY <1>1, <1>2, <1>3, <1>4, StaysAccounted DEF MoneyInv
<1>5. CASE u = v
  <2>1. PaymentsOf(u) = {} /\ CreditsOf(u) = {}
    BY <1>1, <1>5, NothingYet
  <2>2. PaidBy(u) = 0 /\ CreditedTo(u) = 0 /\ Cardinality(PaymentsOf(u)) = 0
    BY <1>2, <2>1, PaidByIs, CreditedToIs, SumOfEmpty, FS_EmptySet
  <2> QED BY <1>1, <1>2, <1>3, <1>5, <2>2 DEF Accounted, Rounding
<1> QED BY <1>4, <1>5

\* Upload, Process and Reject.
LEMMA OrderAccounted ==
  ASSUME IInv, MoneyInv, NEW o \in Orders,
         \/ \E u \in Users : Promise!Upload(u, o)
         \/ Promise!Process(o) \/ Promise!Reject(o)
  PROVE  \A u \in Users : /\ IsFiniteSet(PaymentsOf(u)') /\ IsFiniteSet(CreditsOf(u)')
                          /\ Exists(BalanceRow(u))' => Accounted(u)'
<1>1. /\ \A u \in Users : db'[BalanceRow(u)] = db[BalanceRow(u)]
      /\ \A q \in Orders : /\ q # o => db'[OrderRow(q)] = db[OrderRow(q)]
                           /\ db'[AccrualRow(q)] = db[AccrualRow(q)]
      /\ \A p \in Purchases : db'[PaymentRow(p)] = db[PaymentRow(p)]
  BY DEF Promise!Upload, Promise!Process, Promise!Reject, RowsOf
<1>2. ~Exists(AccrualRow(o))
  <2>1. ~Exists(OrderRow(o)) \/ db[OrderRow(o)].status \in Processable
    BY DEF Promise!Upload, Promise!Process, Promise!Reject, Promise!BeingWorkedOn,
           Promise!Processable, Processable, RowsOf, Exists
  <2> QED BY <2>1 DEF IInv, RowsTogether, Processable
<1> SUFFICES ASSUME NEW u \in Users
             PROVE  /\ IsFiniteSet(PaymentsOf(u)') /\ IsFiniteSet(CreditsOf(u)')
                    /\ Exists(BalanceRow(u))' => Accounted(u)'
  OBVIOUS
<1>3. IsFiniteSet(PaymentsOf(u)) /\ IsFiniteSet(CreditsOf(u))
  BY DEF MoneyInv, FinitelyMany
<1>4. /\ PaymentsOf(u)' = PaymentsOf(u) /\ PaidBy(u)' = PaidBy(u)
      /\ CreditsOf(u)' = CreditsOf(u) /\ CreditedTo(u)' = CreditedTo(u)
  BY <1>1, <1>2, <1>3, SamePayments, SameCredits
<1> QED BY <1>1, <1>3, <1>4, StaysAccounted DEF MoneyInv

\* Credit: the owner has one more summand, which is what the balance gains.
LEMMA CreditAccounted ==
  ASSUME IInv, MoneyInv, NEW o \in Orders, NEW a \in Nat, Promise!Credit(o, a)
  PROVE  \A u \in Users : /\ IsFiniteSet(PaymentsOf(u)') /\ IsFiniteSet(CreditsOf(u)')
                          /\ Exists(BalanceRow(u))' => Accounted(u)'
<1> DEFINE v == db[OrderRow(o)].owner
<1>1. /\ Exists(OrderRow(o)) /\ db[OrderRow(o)].status \in Processable
      /\ db'[OrderRow(o)] = [db[OrderRow(o)] EXCEPT !.status = "PROCESSED"]
      /\ db'[AccrualRow(o)] = a
      /\ \A q \in Orders : q # o => /\ db'[OrderRow(q)] = db[OrderRow(q)]
                                    /\ db'[AccrualRow(q)] = db[AccrualRow(q)]
      /\ \A p \in Purchases : db'[PaymentRow(p)] = db[PaymentRow(p)]
  BY DEF Promise!Credit, Promise!BeingWorkedOn, Promise!Processable, Processable, RowsOf, Exists
<1>2. db[OrderRow(o)] \in OrderType /\ v \in Users
  BY <1>1, OrderTyped
<1>3. /\ db'[BalanceRow(v)] = [db[BalanceRow(v)] EXCEPT !.current = @ + a]
      /\ \A u \in Users : u # v => db'[BalanceRow(u)] = db[BalanceRow(u)]
  BY <1>2 DEF Promise!Credit, RowsOf
<1>4. ~Exists(AccrualRow(o)) /\ Exists(BalanceRow(v))
  BY <1>1, <1>2 DEF IInv, RowsTogether, OwnersRegistered, Processable
<1>5. db'[OrderRow(o)].owner = v /\ a # NoRow /\ TypeOK
  BY <1>1, <1>2, TableIs DEF OrderType, IInv
<1> SUFFICES ASSUME NEW u \in Users
             PROVE  /\ IsFiniteSet(PaymentsOf(u)') /\ IsFiniteSet(CreditsOf(u)')
                    /\ Exists(BalanceRow(u))' => Accounted(u)'
  OBVIOUS
<1>6. IsFiniteSet(PaymentsOf(u)) /\ IsFiniteSet(CreditsOf(u))
  BY DEF MoneyInv, FinitelyMany
<1>7. PaymentsOf(u)' = PaymentsOf(u) /\ PaidBy(u)' = PaidBy(u)
  BY <1>1, <1>6, SamePayments
<1>8. IF u = v
      THEN IsFiniteSet(CreditsOf(u)') /\ CreditedTo(u)' = CreditedTo(u) + a
      ELSE CreditsOf(u)' = CreditsOf(u) /\ CreditedTo(u)' = CreditedTo(u)
  <2>1. PICK w : w = v
    OBVIOUS
  <2> HIDE DEF v
  <2>2. /\ ~Exists(AccrualRow(o)) /\ db'[OrderRow(o)].owner = w
        /\ db'[AccrualRow(o)] = a /\ a # NoRow /\ TypeOK
        /\ \A q \in Orders : q # o => /\ db'[AccrualRow(q)] = db[AccrualRow(q)]
                                      /\ db'[OrderRow(q)] = db[OrderRow(q)]
    BY <1>1, <1>4, <1>5, <2>1
  <2> QED BY <1>6, <2>1, <2>2, MoreCredits
<1>9. CASE u # v
  BY <1>3, <1>6, <1>7, <1>8, <1>9, StaysAccounted DEF MoneyInv
<1>10. CASE u = v
  <2>1. /\ db'[BalanceRow(u)].current = db[BalanceRow(u)].current + a
        /\ db'[BalanceRow(u)].withdrawn = db[BalanceRow(u)].withdrawn
    BY <1>3, <1>4, <1>5, <1>10, BalanceTyped
  <2>2. db[BalanceRow(u)].current \in Int /\ db[BalanceRow(u)].withdrawn \in Nat
    BY <1>4, <1>5, <1>10, BalanceTyped
  <2>3. PaidBy(u) \in Nat /\ CreditedTo(u) \in Nat
    BY <1>5, <1>6, SumsTyped
  <2>4. Rounding(u)' = Rounding(u)
    BY <1>8, <1>10, <2>1, <2>2, <2>3 DEF Rounding
  <2>5. Accounted(u)
    BY <1>4, <1>10 DEF MoneyInv
  <2>6. Accounted(u)'
    BY <1>7, <2>1, <2>4, <2>5 DEF Accounted
  <2> QED BY <1>6, <1>7, <1>8, <1>10, <2>6
<1> QED BY <1>9, <1>10

\* A payment may cost less than is recorded for it, by one unit of the rounding.
LEMMA PayAccounted ==
  ASSUME IInv, MoneyInv, NEW v \in Users, NEW p \in Purchases, NEW a \in Nat,
         NEW s \in 0 .. (IF Grid = 1 THEN 0 ELSE 1), Promise!Pay(v, p, a, a - s)
  PROVE  \A u \in Users : /\ IsFiniteSet(PaymentsOf(u)') /\ IsFiniteSet(CreditsOf(u)')
                          /\ Exists(BalanceRow(u))' => Accounted(u)'
<1>1. /\ Exists(BalanceRow(v)) /\ ~Exists(PaymentRow(p))
      /\ db'[BalanceRow(v)] = [db[BalanceRow(v)] EXCEPT !.current = @ - (a - s),
                                                       !.withdrawn = @ + a]
      /\ db'[PaymentRow(p)] = [user |-> v, amount |-> a]
      /\ \A u \in Users : u # v => db'[BalanceRow(u)] = db[BalanceRow(u)]
      /\ \A o \in Orders : /\ db'[OrderRow(o)] = db[OrderRow(o)]
                           /\ db'[AccrualRow(o)] = db[AccrualRow(o)]
      /\ \A q \in Purchases : q # p => db'[PaymentRow(q)] = db[PaymentRow(q)]
  BY DEF Promise!Pay, Promise!Registered, RowsOf, Exists
<1>2. [user |-> v, amount |-> a] # NoRow /\ TypeOK
  BY TableIs DEF PaymentType, IInv
<1> SUFFICES ASSUME NEW u \in Users
             PROVE  /\ IsFiniteSet(PaymentsOf(u)') /\ IsFiniteSet(CreditsOf(u)')
                    /\ Exists(BalanceRow(u))' => Accounted(u)'
  OBVIOUS
<1>3. IsFiniteSet(PaymentsOf(u)) /\ IsFiniteSet(CreditsOf(u))
  BY DEF MoneyInv, FinitelyMany
<1>4. CreditsOf(u)' = CreditsOf(u) /\ CreditedTo(u)' = CreditedTo(u)
  BY <1>1, <1>3, SameCredits
<1>5. IF u = v
      THEN /\ IsFiniteSet(PaymentsOf(u)')
           /\ Cardinality(PaymentsOf(u)') = Cardinality(PaymentsOf(u)) + 1
           /\ PaidBy(u)' = PaidBy(u) + a
      ELSE PaymentsOf(u)' = PaymentsOf(u) /\ PaidBy(u)' = PaidBy(u)
  BY <1>1, <1>2, <1>3, MorePayments
<1>6. CASE u # v
  BY <1>1, <1>3, <1>4, <1>5, <1>6, StaysAccounted DEF MoneyInv
<1>7. CASE u = v
  <2>1. PICK c, w, paid, credited, n :
          /\ c = db[BalanceRow(u)].current /\ w = db[BalanceRow(u)].withdrawn
          /\ paid = PaidBy(u) /\ credited = CreditedTo(u)
          /\ n = Cardinality(PaymentsOf(u))
          /\ c \in Int /\ w \in Nat /\ paid \in Nat /\ credited \in Nat /\ n \in Nat
    BY <1>1, <1>2, <1>3, <1>7, BalanceTyped, SumsTyped
  <2>2. /\ db'[BalanceRow(u)].current = c - (a - s)
        /\ db'[BalanceRow(u)].withdrawn = w + a
    BY <1>1, <1>2, <1>7, <2>1, BalanceTyped
  <2>3. w = paid /\ c + w - credited \in 0 .. (IF Grid = 1 THEN 0 ELSE n)
    <3>1. Accounted(u)
      BY <1>1, <1>7 DEF MoneyInv
    <3> QED BY <2>1, <3>1 DEF Accounted, Rounding
  <2>4. (c - (a - s)) + (w + a) - credited = (c + w - credited) + s
    BY <2>1
  <2>5. (c + w - credited) + s \in 0 .. (IF Grid = 1 THEN 0 ELSE n + 1)
    BY <2>1, <2>3
  <2>6. Rounding(u)' = (c + w - credited) + s
    BY <1>4, <2>1, <2>2, <2>4 DEF Rounding
  <2>7. Accounted(u)'
    BY <1>5, <1>7, <2>1, <2>2, <2>3, <2>5, <2>6 DEF Accounted
  <2> QED BY <1>3, <1>4, <1>5, <1>7, <2>7
<1> QED BY <1>6, <1>7

-----------------------------------------------------------------------------
(* The theorem *)

\* Payments are made by users with a balance, hence registered.
LEMMA PayersStayRegistered ==
  ASSUME IInv, IInv', MoneyInv, Grown, Promise!Next \/ \A r \in Rows : db'[r] = db[r]
  PROVE  PayersRegistered'
<1> SUFFICES ASSUME NEW p \in Purchases, Exists(PaymentRow(p))'
             PROVE  db'[UserRow(db'[PaymentRow(p)].user)] # NoRow
  BY DEF PayersRegistered, Exists
<1>1. \A u \in Users : Exists(UserRow(u)) => db'[UserRow(u)] # NoRow
  BY DEF Grown, Exists
<1>2. CASE Exists(PaymentRow(p))
  <2>1. db[PaymentRow(p)].user \in Users
    BY <1>2, PaymentTyped DEF IInv
  <2>2. db'[PaymentRow(p)] = db[PaymentRow(p)]
    BY <1>2 DEF Grown
  <2> QED BY <1>1, <1>2, <2>1, <2>2 DEF MoneyInv, PayersRegistered
<1>3. CASE ~Exists(PaymentRow(p))
  <2>1. db'[PaymentRow(p)] # db[PaymentRow(p)]
    BY <1>3 DEF Exists
  <2>2. PICK v \in Users, q \in Purchases, a \in {Column(x) : x \in Sums},
             s \in 0 .. (IF Grid = 1 THEN 0 ELSE 1) : Promise!Pay(v, q, a, a - s)
    <3>1. RowsOf(PaymentRow, Purchases)' # RowsOf(PaymentRow, Purchases)
      BY <2>1 DEF RowsOf
    <3>2. Promise!Next
      BY <2>1, RowsAre
    <3> QED BY <3>1, <3>2 DEF Promise!Next, Promise!Register, Promise!Upload,
                Promise!Process, Promise!Reject, Promise!Credit
  <2>3. /\ Exists(BalanceRow(v)) /\ db'[PaymentRow(q)] = [user |-> v, amount |-> a]
        /\ \A r \in Purchases : r # q => db'[PaymentRow(r)] = db[PaymentRow(r)]
    BY <2>2 DEF Promise!Pay, Promise!Registered, RowsOf, Exists
  <2>4. Exists(UserRow(v))
    BY <2>3 DEF IInv, RowsTogether
  <2>5. db'[PaymentRow(p)].user = v
    BY <2>1, <2>3
  <2> QED BY <1>1, <2>4, <2>5
<1> QED BY <1>2, <1>3

\* A step that no caller sees changes no sum.
LEMMA HiddenAccounted ==
  ASSUME MoneyInv, \A r \in Rows : db'[r] = db[r]
  PROVE  \A u \in Users : /\ IsFiniteSet(PaymentsOf(u)') /\ IsFiniteSet(CreditsOf(u)')
                          /\ Exists(BalanceRow(u))' => Accounted(u)'
<1> SUFFICES ASSUME NEW u \in Users
             PROVE  /\ IsFiniteSet(PaymentsOf(u)') /\ IsFiniteSet(CreditsOf(u)')
                    /\ Exists(BalanceRow(u))' => Accounted(u)'
  OBVIOUS
<1>1. IsFiniteSet(PaymentsOf(u)) /\ IsFiniteSet(CreditsOf(u))
  BY DEF MoneyInv, FinitelyMany
<1>2. /\ PaymentsOf(u)' = PaymentsOf(u) /\ PaidBy(u)' = PaidBy(u)
      /\ CreditsOf(u)' = CreditsOf(u) /\ CreditedTo(u)' = CreditedTo(u)
  BY <1>1, RowsAre, SamePayments, SameCredits
<1> QED BY <1>1, <1>2, RowsAre, StaysAccounted DEF MoneyInv

\* Every step keeps the money accounted for.
LEMMA NextMoney == IInv /\ MoneyInv /\ [Next]_vars => MoneyInv'
<1> SUFFICES ASSUME IInv, MoneyInv, [Next]_vars PROVE MoneyInv'
  OBVIOUS
<1>1. IInv' /\ Grown
  BY NextIInv, DatabaseGrows
<1>2. Promise!Next \/ \A r \in Rows : db'[r] = db[r]
  BY LedgerStep
<1>3. PayersRegistered'
  BY <1>1, <1>2, PayersStayRegistered
<1>4. \A u \in Users : /\ IsFiniteSet(PaymentsOf(u)') /\ IsFiniteSet(CreditsOf(u)')
                       /\ Exists(BalanceRow(u))' => Accounted(u)'
  <2>1. ASSUME NEW a \in {Column(x) : x \in Accruals} \cup {Column(x) : x \in Sums}
        PROVE  a \in Nat
    BY ColumnNat, StorageAssumption
  <2>2. CASE \E u \in Users : Promise!Register(u)
    BY <2>2, RegisterAccounted
  <2>3. CASE \E o \in Orders : \/ \E u \in Users : Promise!Upload(u, o)
                               \/ Promise!Process(o) \/ Promise!Reject(o)
    BY <2>3, OrderAccounted
  <2>4. CASE \E o \in Orders, a \in {Column(x) : x \in Accruals} : Promise!Credit(o, a)
    BY <2>1, <2>4, CreditAccounted
  <2>5. CASE \E u \in Users, p \in Purchases, a \in {Column(x) : x \in Sums},
               s \in 0 .. (IF Grid = 1 THEN 0 ELSE 1) : Promise!Pay(u, p, a, a - s)
    BY <2>1, <2>5, PayAccounted
  <2>6. CASE \A r \in Rows : db'[r] = db[r]
    BY <2>6, HiddenAccounted
  <2> QED BY <1>2, <2>2, <2>3, <2>4, <2>5, <2>6 DEF Promise!Next
<1> QED BY <1>3, <1>4 DEF MoneyInv, FinitelyMany

\* The invariant says what the property says.
LEMMA MoneyInvSuffices == MoneyInv => MoneyAccountedFor
BY DEF MoneyInv, MoneyAccountedFor, Accounted, Rounding

\* All the money is accounted for, whatever the payments and the accruals, in
\* whatever order their transactions commit: the total withdrawn is the sum of
\* the user's payments, and what was credited is in the balance or withdrawn, but
\* for the rounding of sums finer than the column (updateBalance).
THEOREM AllMoneyAccounted == Spec => []MoneyAccountedFor
<1>1. MoneyInv => MoneyAccountedFor
  BY MoneyInvSuffices
<1> QED BY <1>1, InitMoney, NextMoney, Invariant, PTL DEF Spec

-----------------------------------------------------------------------------
(* Sums only grow *)

\* An accrual, once recorded, stays.
LEMMA AccrualsStay ==
  ASSUME IInv, [Next]_vars, NEW o \in Orders, Exists(AccrualRow(o))
  PROVE  db'[AccrualRow(o)] = db[AccrualRow(o)]
<1> SUFFICES ASSUME db'[AccrualRow(o)] # db[AccrualRow(o)] PROVE FALSE
  OBVIOUS
<1>1. RowsOf(AccrualRow, Orders)' # RowsOf(AccrualRow, Orders)
  BY DEF RowsOf
<1>2. Promise!Next
  BY LedgerStep, RowsAre
<1>3. PICK q \in Orders, a \in {Column(x) : x \in Accruals} : Promise!Credit(q, a)
  BY <1>1, <1>2 DEF Promise!Next, Promise!Register, Promise!Upload, Promise!Process,
                    Promise!Reject, Promise!Pay
<1>4. /\ Exists(OrderRow(q)) /\ db[OrderRow(q)].status \in Processable
      /\ \A r \in Orders : r # q => db'[AccrualRow(r)] = db[AccrualRow(r)]
  BY <1>3 DEF Promise!Credit, Promise!BeingWorkedOn, Promise!Processable, Processable,
              RowsOf, Exists
<1>5. ~Exists(AccrualRow(q))
  BY <1>4 DEF IInv, RowsTogether, Processable
<1> QED BY <1>4, <1>5

AmountsTyped ==
  /\ \A o \in Orders : Exists(AccrualRow(o)) => db[AccrualRow(o)] \in Nat
  /\ \A p \in Purchases : Exists(PaymentRow(p)) => db[PaymentRow(p)].amount \in Nat

\* The same after a step.
LEMMA AmountsTypedAfter == TypeOK' => AmountsTyped'
<1>1. TypeOK => AmountsTyped
  BY AccrualTyped, PaymentTyped DEF AmountsTyped
<1> QED BY <1>1, PTL

\* What was credited to a user, and what was withdrawn, never becomes less.
LEMMA SumsGrow ==
  ASSUME IInv, MoneyInv, [Next]_vars, NEW u \in Users, Exists(BalanceRow(u))
  PROVE  /\ db'[BalanceRow(u)] # NoRow
         /\ CreditedTo(u)' >= CreditedTo(u)
         /\ db'[BalanceRow(u)].withdrawn >= db[BalanceRow(u)].withdrawn
<1>1. IInv' /\ MoneyInv' /\ Grown
  BY NextIInv, NextMoney, DatabaseGrows
<1>2. db'[BalanceRow(u)] # NoRow
  <2>1. (Exists(UserRow(u)) <=> Exists(BalanceRow(u))) /\ (Exists(UserRow(u)) <=> Exists(BalanceRow(u)))'
    BY <1>1 DEF IInv, RowsTogether
  <2> QED BY <1>1, <2>1 DEF Grown, Exists
<1>3. /\ IsFiniteSet(PaymentsOf(u)) /\ IsFiniteSet(PaymentsOf(u)')
      /\ IsFiniteSet(CreditsOf(u)) /\ IsFiniteSet(CreditsOf(u)')
  BY <1>1 DEF MoneyInv, FinitelyMany
<1>4. CreditedTo(u)' >= CreditedTo(u)
  <2>1. PICK S, T, f, h : /\ S = CreditsOf(u) /\ T = CreditsOf(u)'
                          /\ f = AccrualOf(db) /\ h = AccrualOf(db')
    OBVIOUS
  <2>2. ASSUME NEW o \in S PROVE o \in T /\ h[o] = f[o]
    <3>1. o \in Orders /\ Exists(AccrualRow(o)) /\ db[OrderRow(o)].owner = u
      BY <2>1 DEF CreditsOf
    <3>2. db'[AccrualRow(o)] = db[AccrualRow(o)]
      BY <3>1, AccrualsStay
    <3>3. Exists(OrderRow(o))
      BY <3>1 DEF IInv, RowsTogether
    <3>4. db'[OrderRow(o)].owner = u
      BY <1>1, <3>1, <3>3 DEF Grown
    <3> QED BY <2>1, <3>1, <3>2, <3>4 DEF CreditsOf, AccrualOf, Exists
  <2>3. \A o \in T : h[o] \in Nat
    <3>1. (\A o \in Orders : Exists(AccrualRow(o)) => db[AccrualRow(o)] \in Nat)'
      BY <1>1, AmountsTypedAfter DEF IInv, AmountsTyped
    <3> QED BY <2>1, <3>1 DEF CreditsOf, AccrualOf
  <2>4. IsFiniteSet(T) /\ S \in SUBSET T /\ IsFiniteSet(S) /\ \A o \in S : f[o] = h[o]
    BY <1>3, <2>1, <2>2
  <2>5. SumOf(f, S) = SumOf(h, S) /\ SumOf(h, S) <= SumOf(h, T)
    BY <2>3, <2>4, SumOfSame, SumOfMore
  <2>6. SumOf(h, S) \in Nat /\ SumOf(h, T) \in Nat
    BY <2>3, <2>4, SumOfNat
  <2>7. CreditedTo(u) = SumOf(f, S) /\ CreditedTo(u)' = SumOf(h, T)
    BY <1>3, <2>1, CreditedToIs, SumsAfter
  <2> QED BY <2>5, <2>6, <2>7
<1>5. PaidBy(u)' >= PaidBy(u)
  <2>1. PICK S, T, f, h : /\ S = PaymentsOf(u) /\ T = PaymentsOf(u)'
                          /\ f = AmountOf(db) /\ h = AmountOf(db')
    OBVIOUS
  <2>2. ASSUME NEW p \in S PROVE p \in T /\ h[p] = f[p]
    <3>1. p \in Purchases /\ Exists(PaymentRow(p)) /\ db[PaymentRow(p)].user = u
      BY <2>1 DEF PaymentsOf
    <3>2. db'[PaymentRow(p)] = db[PaymentRow(p)]
      BY <1>1, <3>1 DEF Grown
    <3> QED BY <2>1, <3>1, <3>2 DEF PaymentsOf, AmountOf, Exists
  <2>3. \A p \in T : h[p] \in Nat
    <3>1. (\A p \in Purchases : Exists(PaymentRow(p)) => db[PaymentRow(p)].amount \in Nat)'
      BY <1>1, AmountsTypedAfter DEF IInv, AmountsTyped
    <3> QED BY <2>1, <3>1 DEF PaymentsOf, AmountOf
  <2>4. IsFiniteSet(T) /\ S \in SUBSET T /\ IsFiniteSet(S) /\ \A p \in S : f[p] = h[p]
    BY <1>3, <2>1, <2>2
  <2>5. SumOf(f, S) = SumOf(h, S) /\ SumOf(h, S) <= SumOf(h, T)
    BY <2>3, <2>4, SumOfSame, SumOfMore
  <2>6. SumOf(h, S) \in Nat /\ SumOf(h, T) \in Nat
    BY <2>3, <2>4, SumOfNat
  <2>7. PaidBy(u) = SumOf(f, S) /\ PaidBy(u)' = SumOf(h, T)
    BY <1>3, <2>1, PaidByIs, SumsAfter
  <2> QED BY <2>5, <2>6, <2>7
<1>6. PaidBy(u) = db[BalanceRow(u)].withdrawn /\ PaidBy(u)' = db'[BalanceRow(u)].withdrawn
  <2>1. Accounted(u) /\ (Exists(BalanceRow(u))' => Accounted(u)')
    BY <1>1 DEF MoneyInv
  <2> QED BY <1>2, <2>1 DEF Accounted, Exists
<1> QED BY <1>2, <1>4, <1>5, <1>6
=============================================================================
