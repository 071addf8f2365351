------------------------------- MODULE MCApi -------------------------------
(***************************************************************************)
(* A small instance of Api for TLC.                                        *)
(***************************************************************************)
EXTENDS Api

CONSTANTS u1, u2, o1, p1, c1, c2, w1

TwoUsers == {u1, u2}
OnePassword == {w1}
OneOrder == {o1}
OnePurchase == {p1}
TwoClients == {c1, c2}
=============================================================================
