---------------------------- MODULE MCCashSession ----------------------------
(* Small instances of CashSession for TLC. *)
EXTENDS CashSession, TLC

\* Requests are interchangeable.
ClientSymmetry == Permutations(Clients)
=============================================================================
