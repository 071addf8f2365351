----------------------------- MODULE MCStorage -----------------------------
(***************************************************************************)
(* Small instances of Storage for TLC.                                     *)
(***************************************************************************)
EXTENDS Storage, TLC

CONSTANTS u1, u2, o1, o2, p1, p2, c1, c2, w1, w2

OneUser == {u1}
TwoUsers == {u1, u2}
OnePassword == {w1}
TwoPasswords == {w1, w2}
OneOrder == {o1}
TwoOrders == {o1, o2}
OnePurchase == {p1}
TwoPurchases == {p1, p2}
TwoClients == {c1, c2}

\* The members of each of these sets are interchangeable.
Symmetry == Permutations(Users) \cup Permutations(Passwords) \cup Permutations(Orders)
              \cup Permutations(Purchases) \cup Permutations(Clients)
=============================================================================
