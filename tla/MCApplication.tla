--------------------------- MODULE MCApplication ---------------------------
(***************************************************************************)
(* A small instance of Application for TLC.                                *)
(***************************************************************************)
EXTENDS Application

CONSTANTS o1, w1

OneOrder == {o1}
OneWorker == {w1}
=============================================================================
