-------------------------- MODULE MCFinanceOrders --------------------------
(***************************************************************************)
(* Instances of FinanceOrders for TLC.                                     *)
(***************************************************************************)
EXTENDS FinanceOrders, TLC

SymRefsAdmins == Permutations(Refs) \cup Permutations(Admins)
=============================================================================
